-------------------------- MODULE ClientRequestsProofs --------------------------
(***************************************************************************)
(* What the client makes of its requests: proofs about ClientSession,      *)
(* ClientDocuments and ClientFolders, for any number of tenants, sessions, *)
(* documents, folders, queries and handlers that await the server.         *)
(***************************************************************************)
EXTENDS ClientSession, ClientDocuments, ClientFolders, SequenceTheorems, TLAPS

(***************************************************************************)
(* The session: the tenant shown is the one the token acts in, every first *)
(* try of a request carries a token of the tenant it was made for, unless  *)
(* its workspace was mounted over another one by a late sign-in, and a     *)
(* tenant selection excludes a token.                                      *)
(*                                                                         *)
(* The inductive invariant adds what is true of each handler in progress:  *)
(* an answer that is to be stored names an issued session, a handler that  *)
(* waits for the refresh is on its second try, and the token of a first    *)
(* try is one of the sessions issued so far, whose tenants never change.   *)
(***************************************************************************)

-----------------------------------------------------------------------------
Session == [tenant : Tenants, live : BOOLEAN]
AppState == [status : LoginStates \cup {"authenticated"}, token : Int,
             tenant : Tenants \cup {NoTenant}, selection : BOOLEAN, tenants : BOOLEAN]
LoginState == [action : {"idle", "magic", "passkey", "signup", "tenant"},
               attempted : BOOLEAN, preferred : Tenants \cup {NoTenant}]
Request == [op : AppOps \cup LoginOps \cup {"none"}, arg : Tenants \cup {NoTenant},
            auth : Int, retried : BOOLEAN,
            phase : {"none", "sent", "answered", "waiting", "prompt"},
            ans : {"none", "ok", "selection", "unauthorized", "error"},
            got : Int, orphan : BOOLEAN]

\* The token tok names an issued session.
Issued(tok, ss) == tok \in 1..Len(ss)
IssuedOrNone(tok, ss) == tok \in 0..Len(ss)
ActsIn(tok, t, ss) == Issued(tok, ss) /\ ss[tok].tenant = t

\* What is true of a handler in progress, the sessions being ss.
FirstTry(q) == q.op = "data" /\ q.phase = "sent" /\ ~q.retried /\ q.arg # NoTenant /\ ~q.orphan
BringsSession(q) ==
    q.phase = "answered" /\ q.ans = "ok" /\ q.op \in SignInOps \cup {"select", "switch"}
RequestOK(q, ss) ==
    /\ q \in Request
    /\ q.auth = Selector \/ IssuedOrNone(q.auth, ss)
    /\ IssuedOrNone(q.got, ss)
    /\ q.phase = "waiting" => q.retried
    /\ FirstTry(q) => ActsIn(q.auth, q.arg, ss)
    /\ BringsSession(q) => Issued(q.got, ss)

\* What is true of the application's state.
AppOK(a, ss) ==
    /\ a \in AppState
    /\ IssuedOrNone(a.token, ss)
    /\ a.tenant # NoTenant => ActsIn(a.token, a.tenant, ss)
    /\ a.selection => a.status = "selecting-tenant" /\ a.token = 0 /\ a.tenant = NoTenant

RequestsOK(r, ss) == DOMAIN r = Slots /\ r = [s \in Slots |-> r[s]] /\ \A s \in Slots : RequestOK(r[s], ss)

RefreshOK(f, ss) ==
    /\ f \in [phase : {"none", "sent", "read", "answered"}, cookie : Int, got : Int]
    /\ IssuedOrNone(f.cookie, ss) /\ IssuedOrNone(f.got, ss)
    /\ f.phase = "read" => f.cookie # 0

SessionsOK(ss) == ss \in Seq(Session) /\ Len(ss) <= MaxSessions

SessionIInv ==
    /\ SessionsOK(sessions)
    /\ AppOK(app, sessions)
    /\ header = app.token
    /\ login \in LoginState
    /\ url \in BOOLEAN /\ acts \in 0..MaxActs
    /\ IssuedOrNone(cookie, sessions)
    /\ RequestsOK(reqs, sessions)
    /\ RefreshOK(refresh, sessions)

-----------------------------------------------------------------------------
\* Sessions are issued and revoked, and keep the tenant they were issued for.
MoreSessions(ss, tt) ==
    /\ Len(ss) <= Len(tt)
    /\ \A i \in 1..Len(ss) : tt[i].tenant = ss[i].tenant

\* What holds of a handler goes on to hold as sessions are issued and revoked.
LEMMA RequestsOutlive ==
    ASSUME NEW ss, NEW tt, SessionsOK(ss), SessionsOK(tt), MoreSessions(ss, tt)
    PROVE  /\ \A q : RequestOK(q, ss) => RequestOK(q, tt)
           /\ \A r : RequestsOK(r, ss) => RequestsOK(r, tt)
           /\ \A a : AppOK(a, ss) => AppOK(a, tt)
           /\ \A f : RefreshOK(f, ss) => RefreshOK(f, tt)
           /\ \A c : IssuedOrNone(c, ss) => IssuedOrNone(c, tt)
<1>1. Len(ss) \in Nat /\ Len(tt) \in Nat /\ Len(ss) <= Len(tt)
  BY LenProperties DEF SessionsOK, MoreSessions
<1>2. \A c : IssuedOrNone(c, ss) => IssuedOrNone(c, tt)
  BY <1>1 DEF IssuedOrNone
<1>3. \A c : Issued(c, ss) => Issued(c, tt)
  BY <1>1 DEF Issued
<1>4. \A c, t : ActsIn(c, t, ss) => ActsIn(c, t, tt)
  BY <1>3 DEF ActsIn, Issued, MoreSessions
<1>5. \A q : RequestOK(q, ss) => RequestOK(q, tt)
  BY <1>2, <1>3, <1>4 DEF RequestOK
<1>6. \A r : RequestsOK(r, ss) => RequestsOK(r, tt)
  BY <1>5 DEF RequestsOK
<1>7. \A a : AppOK(a, ss) => AppOK(a, tt)
  BY <1>2, <1>4 DEF AppOK
<1>8. \A f : RefreshOK(f, ss) => RefreshOK(f, tt)
  BY <1>2 DEF RefreshOK
<1> QED BY <1>2, <1>5, <1>6, <1>7, <1>8

\* A session issued for a tenant of the user is the last one.
LEMMA SessionIssued ==
    ASSUME NEW ss, SessionsOK(ss), Len(ss) < MaxSessions, NEW t \in Tenants
    PROVE  LET tt == Append(ss, [tenant |-> t, live |-> TRUE])
           IN  SessionsOK(tt) /\ MoreSessions(ss, tt) /\ Issued(Len(ss) + 1, tt)
<1> DEFINE new == [tenant |-> t, live |-> TRUE]
<1>1. new \in Session
  BY DEF Session
<1>2. ss \in Seq(Session) /\ Len(ss) \in Nat
  BY LenProperties DEF SessionsOK
<1> HIDE DEF new
<1>3. /\ Append(ss, new) \in Seq(Session) /\ Len(Append(ss, new)) = Len(ss) + 1
      /\ \A i \in 1..Len(ss) : Append(ss, new)[i] = ss[i]
  BY <1>1, <1>2, AppendProperties
<1>4. SessionsOK(Append(ss, new)) /\ MoreSessions(ss, Append(ss, new)) /\ Issued(Len(ss) + 1, Append(ss, new))
  BY <1>2, <1>3, SessionConstants DEF SessionsOK, MoreSessions, Issued
<1> QED BY <1>4 DEF new

\* Sessions whose live flags alone change are the same sessions.
LEMMA SessionsRevoked ==
    ASSUME NEW ss, SessionsOK(ss), NEW f \in [1..Len(ss) -> BOOLEAN]
    PROVE  LET tt == [i \in 1..Len(ss) |-> [tenant |-> ss[i].tenant, live |-> f[i]]]
           IN  SessionsOK(tt) /\ MoreSessions(ss, tt) /\ Len(tt) = Len(ss)
<1> DEFINE tt == [i \in 1..Len(ss) |-> [tenant |-> ss[i].tenant, live |-> f[i]]]
<1>1. ss \in Seq(Session) /\ Len(ss) \in Nat /\ Len(ss) <= MaxSessions /\ \A i \in 1..Len(ss) : ss[i] \in Session
  BY LenProperties, ElementOfSeq DEF SessionsOK
<1>2. \A i \in 1..Len(ss) : tt[i] \in Session
  BY <1>1, Zenon DEF Session
<1>3. tt \in Seq(Session) /\ Len(tt) = Len(ss)
  BY <1>1, <1>2, IsASeq, LenProperties
<1>4. \A i \in 1..Len(ss) : tt[i].tenant = ss[i].tenant
  OBVIOUS
<1> QED BY <1>1, <1>3, <1>4 DEF SessionsOK, MoreSessions

LEMMA SessionEnded ==
    ASSUME NEW ss, SessionsOK(ss), NEW c, Issued(c, ss)
    PROVE  LET tt == [ss EXCEPT ![c].live = FALSE]
           IN  SessionsOK(tt) /\ MoreSessions(ss, tt) /\ Len(tt) = Len(ss)
<1> DEFINE f == [i \in 1..Len(ss) |-> IF i = c THEN FALSE ELSE ss[i].live]
           tt == [i \in 1..Len(ss) |-> [tenant |-> ss[i].tenant, live |-> f[i]]]
<1>1. ss \in Seq(Session) /\ \A i \in 1..Len(ss) : ss[i] \in Session
  BY ElementOfSeq DEF SessionsOK
<1>2. DOMAIN ss = 1..Len(ss) /\ ss = [i \in 1..Len(ss) |-> ss[i]]
  BY <1>1, LenProperties
<1>3. f \in [1..Len(ss) -> BOOLEAN]
  BY <1>1 DEF Session
<1>4. \A i \in 1..Len(ss) : ss[i] = [tenant |-> ss[i].tenant, live |-> ss[i].live]
  BY <1>1 DEF Session
<1>5. [ss EXCEPT ![c].live = FALSE] = [i \in 1..Len(ss) |-> IF i = c THEN [ss[i] EXCEPT !.live = FALSE] ELSE ss[i]]
  BY <1>2
<1>6. \A i \in 1..Len(ss) : (IF i = c THEN [ss[i] EXCEPT !.live = FALSE] ELSE ss[i])
                              = [tenant |-> ss[i].tenant, live |-> f[i]]
  <2> SUFFICES ASSUME NEW i \in 1..Len(ss)
               PROVE  (IF i = c THEN [ss[i] EXCEPT !.live = FALSE] ELSE ss[i])
                        = [tenant |-> ss[i].tenant, live |-> f[i]]
    OBVIOUS
  <2>1. PICK t, b : ss[i] = [tenant |-> t, live |-> b]
    BY <1>4
  <2>2. ss[i].tenant = t /\ ss[i].live = b
    BY <2>1
  <2>3. CASE i = c
    <3>1. \A x : [[tenant |-> t, live |-> b] EXCEPT !.live = x] = [tenant |-> t, live |-> x]
      OBVIOUS
    <3>2. [ss[i] EXCEPT !.live = FALSE] = [tenant |-> t, live |-> FALSE]
      BY <2>1, <3>1, Zenon
    <3> QED BY <2>2, <2>3, <3>2
  <2>4. CASE i # c
    BY <2>1, <2>2, <2>4
  <2> QED BY <2>3, <2>4
<1>7. [ss EXCEPT ![c].live = FALSE] = tt
  BY <1>5, <1>6
<1>8. SessionsOK(tt) /\ MoreSessions(ss, tt) /\ Len(tt) = Len(ss)
  BY <1>3, SessionsRevoked
<1> QED BY <1>7, <1>8

\* A session of an issued session's tenant is issued in its place.
LEMMA SessionReplaced ==
    ASSUME NEW ss, SessionsOK(ss), NEW c, Issued(c, ss), Len(ss) < MaxSessions
    PROVE  LET tt == Append([ss EXCEPT ![c].live = FALSE], [tenant |-> ss[c].tenant, live |-> TRUE])
           IN  SessionsOK(tt) /\ MoreSessions(ss, tt) /\ Issued(Len(ss) + 1, tt)
<1> DEFINE mid == [ss EXCEPT ![c].live = FALSE]
           tt  == Append(mid, [tenant |-> ss[c].tenant, live |-> TRUE])
<1>1. SessionsOK(mid) /\ MoreSessions(ss, mid) /\ Len(mid) = Len(ss)
  BY SessionEnded
<1>2. ss[c].tenant \in Tenants
  <2>1. ss \in Seq(Session) /\ c \in 1..Len(ss)
    BY DEF SessionsOK, Issued
  <2>2. ss[c] \in Session
    BY <2>1, ElementOfSeq
  <2> QED BY <2>2 DEF Session
<1> HIDE DEF mid
<1>3. SessionsOK(tt) /\ MoreSessions(mid, tt) /\ Issued(Len(mid) + 1, tt)
  BY <1>1, <1>2, SessionIssued
<1>4. Len(ss) \in Nat /\ Len(tt) \in Nat
  BY <1>3, LenProperties DEF SessionsOK
<1>5. MoreSessions(ss, tt)
  BY <1>1, <1>3, <1>4 DEF MoreSessions
<1> QED BY <1>1, <1>3, <1>5 DEF mid

-----------------------------------------------------------------------------
\* A request as it is sent.
LEMMA SentShape ==
    ASSUME NEW op, NEW arg, NEW auth
    PROVE  Sent(op, arg, auth) = [op |-> op, arg |-> arg, auth |-> auth, retried |-> FALSE, phase |-> "sent",
                                  ans |-> "none", got |-> 0, orphan |-> FALSE]
<1>1. ASSUME NEW o, NEW a, NEW z, NEW f, NEW t, NEW n, NEW x, NEW y,
             x = [op |-> o, arg |-> a, auth |-> z, retried |-> f, phase |-> o, ans |-> o, got |-> n, orphan |-> f],
             y = [x EXCEPT !.op = op, !.arg = arg, !.auth = auth, !.phase = t]
      PROVE  y = [op |-> op, arg |-> arg, auth |-> auth, retried |-> f, phase |-> t, ans |-> o, got |-> n,
                  orphan |-> f]
  BY <1>1
<1>2. PICK o, f, t, n : o = "none" /\ f = FALSE /\ t = "sent" /\ n = 0
  BY Zenon
<1>3. PICK x, y : x = IdleSlot /\ y = Sent(op, arg, auth)
  BY Zenon
<1>4. x = [op |-> o, arg |-> NoTenant, auth |-> n, retried |-> f, phase |-> o, ans |-> o, got |-> n, orphan |-> f]
  BY <1>2, <1>3, Zenon DEF IdleSlot
<1>5. y = [x EXCEPT !.op = op, !.arg = arg, !.auth = auth, !.phase = t]
  BY <1>2, <1>3, Zenon DEF Sent
<1>6. y = [op |-> op, arg |-> arg, auth |-> auth, retried |-> f, phase |-> t, ans |-> o, got |-> n, orphan |-> f]
  BY <1>1, <1>4, <1>5, Zenon
<1> QED BY <1>2, <1>3, <1>6, Zenon

\* A request is fit to send: a first try of a workspace's data has its tenant.
LEMMA SentOK ==
    ASSUME NEW ss, SessionsOK(ss), NEW op \in AppOps \cup LoginOps, NEW arg \in Tenants \cup {NoTenant}, NEW auth,
           auth = Selector \/ IssuedOrNone(auth, ss),
           op = "data" /\ arg # NoTenant => ActsIn(auth, arg, ss)
    PROVE  RequestOK(Sent(op, arg, auth), ss)
<1> DEFINE q == Sent(op, arg, auth)
<1>1. q = [op |-> op, arg |-> arg, auth |-> auth, retried |-> FALSE, phase |-> "sent",
           ans |-> "none", got |-> 0, orphan |-> FALSE]
  BY SentShape
<1>2. Len(ss) \in Nat
  BY LenProperties DEF SessionsOK
<1>3. auth \in Int
  BY DEF Selector, IssuedOrNone
<1>4. /\ q.op = op /\ q.arg = arg /\ q.auth = auth /\ q.phase = "sent" /\ q.got = 0
  BY <1>1
<1>5. q \in Request
  BY <1>1, <1>3 DEF Request
<1> HIDE DEF q
<1>6. RequestOK(q, ss)
  BY <1>2, <1>4, <1>5 DEF RequestOK, IssuedOrNone, FirstTry, BringsSession
<1> QED BY <1>6 DEF q

\* So is one that is marked, which owes nobody its tenant when the mark is set.
LEMMA MarkedOK ==
    ASSUME NEW ss, SessionsOK(ss), NEW op \in AppOps \cup LoginOps, NEW arg \in Tenants \cup {NoTenant}, NEW auth,
           auth = Selector \/ IssuedOrNone(auth, ss), NEW o \in BOOLEAN,
           op = "data" /\ arg # NoTenant /\ ~o => ActsIn(auth, arg, ss)
    PROVE  RequestOK([Sent(op, arg, auth) EXCEPT !.orphan = o], ss)
<1>1. PICK q, w : q = Sent(op, arg, auth) /\ w = [q EXCEPT !.orphan = o]
  OBVIOUS
<1>2. PICK f, t, z, n : f = FALSE /\ t = "sent" /\ z = "none" /\ n = 0
  BY Zenon
<1>3. w = [op |-> op, arg |-> arg, auth |-> auth, retried |-> f, phase |-> t, ans |-> z, got |-> n, orphan |-> o]
  <2>1. ASSUME NEW x, NEW y,
               x = [op |-> op, arg |-> arg, auth |-> auth, retried |-> f, phase |-> t, ans |-> z, got |-> n,
                    orphan |-> f],
               y = [x EXCEPT !.orphan = o]
        PROVE  y = [op |-> op, arg |-> arg, auth |-> auth, retried |-> f, phase |-> t, ans |-> z, got |-> n,
                    orphan |-> o]
    BY ONLY <2>1
  <2>2. q = [op |-> op, arg |-> arg, auth |-> auth, retried |-> f, phase |-> t, ans |-> z, got |-> n, orphan |-> f]
    BY <1>1, <1>2, SentShape, Zenon
  <2> QED BY <1>1, <2>1, <2>2, Zenon
<1>4. Len(ss) \in Nat /\ auth \in Int
  BY LenProperties DEF SessionsOK, Selector, IssuedOrNone
<1>5. w \in Request
  <2>1. PICK O, P, A : /\ O = AppOps \cup LoginOps \cup {"none"}
                       /\ P = {"none", "sent", "answered", "waiting", "prompt"}
                       /\ A = {"none", "ok", "selection", "unauthorized", "error"}
    BY Zenon
  <2>2. op \in O /\ f \in BOOLEAN /\ t \in P /\ z \in A /\ n \in Int
    <3>1. f \in BOOLEAN
      BY <1>2, Zenon
    <3>2. op \in O
      BY <2>1, Zenon
    <3>3. t \in P /\ z \in A
      BY <1>2, <2>1, Zenon
    <3>4. n \in Int
      BY <1>2
    <3> QED BY <3>1, <3>2, <3>3, <3>4, Zenon
  <2>3. w \in [op : O, arg : Tenants \cup {NoTenant}, auth : Int, retried : BOOLEAN, phase : P, ans : A,
               got : Int, orphan : BOOLEAN]
    BY <1>3, <1>4, <2>2
  <2> QED BY <2>1, <2>3, Zenon DEF Request
<1>6. w.op = op /\ w.arg = arg /\ w.auth = auth /\ w.phase = "sent" /\ w.got = 0 /\ w.orphan = o
  BY <1>2, <1>3
<1>7. RequestOK(w, ss)
  BY <1>4, <1>5, <1>6 DEF RequestOK, IssuedOrNone, FirstTry, BringsSession
<1> QED BY <1>1, <1>7, Zenon

LEMMA IdleOK ==
    ASSUME NEW ss, SessionsOK(ss)
    PROVE  RequestOK(IdleSlot, ss)
<1>1. Len(ss) \in Nat
  BY LenProperties DEF SessionsOK
<1>2. IdleSlot \in Request
  BY DEF IdleSlot, Request
<1> QED BY <1>1, <1>2 DEF RequestOK, IdleSlot, IssuedOrNone, FirstTry, BringsSession

\* One handler replaced by another.
LEMMA PutOK ==
    ASSUME NEW ss, NEW r, RequestsOK(r, ss), NEW s, NEW q, RequestOK(q, ss)
    PROVE  RequestsOK([r EXCEPT ![s] = q], ss)
BY DEF RequestsOK

\* Spawn adds a request, or leaves it out.
LEMMA SpawnOK ==
    ASSUME NEW ss, NEW r, RequestsOK(r, ss), NEW q, RequestOK(q, ss)
    PROVE  RequestsOK(Spawn(r, q), ss)
<1>1. Spawn(r, q) = r \/ \E s : Spawn(r, q) = [r EXCEPT ![s] = q]
  BY DEF Spawn
<1> QED BY <1>1, PutOK

LEMMA OrphanedOK ==
    ASSUME NEW ss, NEW r, RequestsOK(r, ss)
    PROVE  RequestsOK(Orphaned(r), ss)
<1>1. ASSUME NEW q, RequestOK(q, ss)
      PROVE  RequestOK([q EXCEPT !.orphan = TRUE], ss)
  <2>1. PICK f1, f2, f3, f4, f5, f6, f7, f8 :
          q = [op |-> f1, arg |-> f2, auth |-> f3, retried |-> f4, phase |-> f5, ans |-> f6, got |-> f7, orphan |-> f8]
    BY <1>1 DEF RequestOK, Request
  <2>2. \A x : [q EXCEPT !.orphan = x] = [op |-> f1, arg |-> f2, auth |-> f3, retried |-> f4, phase |-> f5,
                                          ans |-> f6, got |-> f7, orphan |-> x]
    BY <2>1
  <2>3. PICK w : w = [q EXCEPT !.orphan = TRUE]
    OBVIOUS
  <2>4. w = [op |-> f1, arg |-> f2, auth |-> f3, retried |-> f4, phase |-> f5, ans |-> f6, got |-> f7, orphan |-> TRUE]
    BY <2>2, <2>3, Zenon
  <2>5. w \in Request
    BY <1>1, <2>1, <2>4 DEF RequestOK, Request
  <2>6. /\ w.op = q.op /\ w.arg = q.arg /\ w.auth = q.auth /\ w.retried = q.retried
        /\ w.phase = q.phase /\ w.ans = q.ans /\ w.got = q.got /\ w.orphan
    BY <2>1, <2>4
  <2>7. RequestOK(w, ss)
    BY <1>1, <2>5, <2>6 DEF RequestOK, FirstTry, BringsSession
  <2> QED BY <2>3, <2>7
<1> QED BY <1>1 DEF Orphaned, RequestsOK

\* A dispatch with its effects: the state it commits and the requests it adds
\* are fit, when the header it was left with suits a workspace it mounts or the
\* handler is one of a page that is gone.
LEMMA CommitByOK ==
    ASSUME SessionIInv, UNCHANGED sessions, NEW o \in BOOLEAN, NEW new, NEW h, NEW l, NEW r,
           CommitBy(o, new, h, l, r),
           AppOK(new, sessions), l \in LoginState, RequestsOK(r, sessions), IssuedOrNone(h, sessions),
           new.status \notin LoginStates /\ new.tenant # NoTenant /\ ~o => ActsIn(h, new.tenant, sessions)
    PROVE  /\ AppOK(app', sessions') /\ header' = app'.token /\ login' \in LoginState
           /\ RequestsOK(reqs', sessions')
<1> DEFINE left == new.status \notin LoginStates
           r1 == IF left THEN Orphaned(r) ELSE r
           r2 == IF Remounts(new) THEN Spawn(r1, [Sent("data", new.tenant, h) EXCEPT !.orphan = o]) ELSE r1
           r3 == IF Relists(new) /\ SignedIn(new)
                 THEN Spawn(r2, Sent("tenants", NoTenant, new.token)) ELSE r2
<1>1. /\ app' = [new EXCEPT !.tenants = @ /\ (~Relists(new) \/ SignedIn(new))]
      /\ header' = new.token /\ reqs' = r3
      /\ login' = IF left THEN FreshLogin(NoTenant) ELSE l
  BY Zenon DEF CommitBy, HeaderAfter
<1>2. new.tenant \in Tenants \cup {NoTenant} /\ IssuedOrNone(new.token, sessions) /\ SessionsOK(sessions)
  BY DEF AppOK, AppState, SessionIInv
<1>3. RequestsOK(r1, sessions)
  BY OrphanedOK
<1>4. RequestsOK(r2, sessions)
  <2>1. CASE Remounts(new)
    <3>1. RequestOK([Sent("data", new.tenant, h) EXCEPT !.orphan = o], sessions)
      BY <1>2, <2>1, MarkedOK DEF Remounts, AppOps
    <3> HIDE DEF r1
    <3> QED BY <1>3, <3>1, SpawnOK
  <2> QED BY <1>3, <2>1
<1>5. RequestsOK(r3, sessions)
  <2>1. RequestOK(Sent("tenants", NoTenant, new.token), sessions)
    BY <1>2, SentOK DEF AppOps
  <2> HIDE DEF r2
  <2> QED BY <1>4, <2>1, SpawnOK
<1>6. login' \in LoginState
  BY <1>1 DEF FreshLogin, LoginState
<1>7. AppOK(app', sessions) /\ header' = app'.token
  <2>1. PICK b : b = (new.tenants /\ (~Relists(new) \/ SignedIn(new)))
    OBVIOUS
  <2>2. b \in BOOLEAN
    BY <2>1
  <2>3. app' = [new EXCEPT !.tenants = b]
    BY <1>1, <2>1, Zenon
  <2>4. new \in AppState
    BY DEF AppOK
  <2>5. /\ app' \in AppState
        /\ app'.token = new.token /\ app'.tenant = new.tenant
        /\ app'.status = new.status /\ app'.selection = new.selection
    BY <2>2, <2>3, <2>4 DEF AppState
  <2> QED BY <1>1, <2>5 DEF AppOK
<1> QED BY <1>1, <1>5, <1>6, <1>7

LEMMA CommitOK ==
    ASSUME SessionIInv, UNCHANGED sessions, NEW new, NEW h, NEW l, NEW r, Commit(new, h, l, r),
           AppOK(new, sessions), l \in LoginState, RequestsOK(r, sessions), IssuedOrNone(h, sessions),
           new.status \notin LoginStates /\ new.tenant # NoTenant => ActsIn(h, new.tenant, sessions)
    PROVE  /\ AppOK(app', sessions') /\ header' = app'.token /\ login' \in LoginState
           /\ RequestsOK(reqs', sessions')
<1>1. PICK o : o = FALSE
  OBVIOUS
<1>2. CommitBy(o, new, h, l, r) /\ o \in BOOLEAN
  BY <1>1, Zenon DEF Commit
<1> QED BY <1>2, CommitByOK

-----------------------------------------------------------------------------
\* What the handlers dispatch.
LEMMA AppShape ==
    ASSUME NEW a, NEW ss, AppOK(a, ss)
    PROVE  a = [status |-> a.status, token |-> a.token, tenant |-> a.tenant, selection |-> a.selection,
                tenants |-> a.tenants]
BY DEF AppOK, AppState

LEMMA LoggedOutOK ==
    ASSUME SessionsOK(sessions)
    PROVE  AppOK(LoggedOut, sessions) /\ LoggedOut.status \in LoginStates /\ LoggedOut.token = 0
<1>1. Len(sessions) \in Nat
  BY LenProperties DEF SessionsOK
<1>2. LoggedOut \in AppState
  BY DEF LoggedOut, AppState, LoginStates
<1> QED BY <1>1, <1>2 DEF LoggedOut, AppOK, IssuedOrNone, LoginStates

LEMMA SelectionRequiredOK ==
    ASSUME SessionsOK(sessions)
    PROVE  AppOK(SelectionRequired, sessions) /\ SelectionRequired.status \in LoginStates
<1>1. Len(sessions) \in Nat
  BY LenProperties DEF SessionsOK
<1>2. PICK st, z, f, t : st = "selecting-tenant" /\ z = 0 /\ f = FALSE /\ t = TRUE
  BY Zenon
<1>3. PICK o, x, y : o = "logged-out" /\ x = LoggedOut /\ y = SelectionRequired
  BY Zenon
<1>4. x = [status |-> o, token |-> z, tenant |-> NoTenant, selection |-> f, tenants |-> f]
  BY <1>2, <1>3, Zenon DEF LoggedOut
<1>5. y = [x EXCEPT !.status = st, !.selection = t]
  BY <1>2, <1>3, Zenon DEF SelectionRequired
<1>6. y = [status |-> st, token |-> z, tenant |-> NoTenant, selection |-> t, tenants |-> f]
  BY <1>4, <1>5
<1>7. y \in AppState /\ y.status = "selecting-tenant" /\ y.token = 0 /\ y.tenant = NoTenant
  <2>1. y.status = "selecting-tenant" /\ y.token = 0 /\ y.tenant = NoTenant
    BY <1>2, <1>6
  <2>2. st \in LoginStates \cup {"authenticated"} /\ z \in Int /\ NoTenant \in Tenants \cup {NoTenant}
    BY <1>2 DEF LoginStates
  <2>3. f \in BOOLEAN /\ t \in BOOLEAN
    BY <1>2, Zenon
  <2>4. y \in AppState
    BY <1>6, <2>2, <2>3 DEF AppState
  <2> QED BY <2>1, <2>4
<1>8. AppOK(y, sessions)
  BY <1>1, <1>7 DEF AppOK, IssuedOrNone
<1> QED BY <1>3, <1>7, <1>8 DEF LoginStates

LEMMA LoginRequestedOK ==
    ASSUME SessionsOK(sessions), AppOK(app, sessions)
    PROVE  AppOK(LoginRequested, sessions) /\ LoginRequested.status \in LoginStates
<1>1. PICK st, f, n : st = "authenticating" /\ f = FALSE /\ n = NoTenant
  BY Zenon
<1>2. PICK y : y = LoginRequested
  OBVIOUS
<1>3. y = [app EXCEPT !.status = st, !.tenant = n, !.selection = f, !.tenants = f]
  BY <1>1, <1>2, Zenon DEF LoginRequested
<1>4. y = [status |-> st, token |-> app.token, tenant |-> n, selection |-> f, tenants |-> f]
  <2>1. PICK a1, a2, a3, a4, a5 :
          app = [status |-> a1, token |-> a2, tenant |-> a3, selection |-> a4, tenants |-> a5]
    BY AppShape
  <2>2. app.token = a2 /\ app.tenants = a5
    BY <2>1
  <2> QED BY <1>3, <2>1, <2>2
<1>5. app.token \in Int /\ IssuedOrNone(app.token, sessions)
  BY DEF AppOK, AppState
<1>6. /\ y \in AppState /\ y.status = "authenticating" /\ y.token = app.token /\ y.tenant = NoTenant
      /\ ~y.selection
  BY <1>1, <1>4, <1>5 DEF AppState, LoginStates
<1>7. AppOK(y, sessions)
  BY <1>5, <1>6 DEF AppOK
<1> QED BY <1>2, <1>6, <1>7 DEF LoginStates

\* A session of this user has a tenant of this user.
LEMMA SessionTenant ==
    ASSUME SessionsOK(sessions), NEW tok, Issued(tok, sessions)
    PROVE  /\ sessions[tok].tenant \in Tenants /\ ActsIn(tok, sessions[tok].tenant, sessions)
           /\ IssuedOrNone(tok, sessions) /\ tok \in Int
<1>1. sessions \in Seq(Session) /\ tok \in 1..Len(sessions) /\ Len(sessions) \in Nat
  BY LenProperties DEF SessionsOK, Issued
<1>2. sessions[tok] \in Session
  BY <1>1, ElementOfSeq
<1> QED BY <1>1, <1>2 DEF Session, ActsIn, Issued, IssuedOrNone

LEMMA LoginSucceededOK ==
    ASSUME SessionsOK(sessions), AppOK(app, sessions), NEW tok, Issued(tok, sessions)
    PROVE  AppOK(LoginSucceeded(tok), sessions) /\ LoginSucceeded(tok).tenant = sessions[tok].tenant
<1>1. PICK st, f, t : st = "authenticated" /\ f = FALSE /\ t = sessions[tok].tenant
  BY Zenon
<1>2. PICK y : y = LoginSucceeded(tok)
  OBVIOUS
<1>3. y = [app EXCEPT !.status = st, !.token = tok, !.tenant = t, !.selection = f]
  BY <1>1, <1>2, Zenon DEF LoginSucceeded
<1>4. y = [status |-> st, token |-> tok, tenant |-> t, selection |-> f, tenants |-> app.tenants]
  <2>1. PICK a1, a2, a3, a4, a5 :
          app = [status |-> a1, token |-> a2, tenant |-> a3, selection |-> a4, tenants |-> a5]
    BY AppShape
  <2>2. app.token = a2 /\ app.tenants = a5
    BY <2>1
  <2> QED BY <1>3, <2>1, <2>2
<1>5. app.tenants \in BOOLEAN
  BY DEF AppOK, AppState
<1>6. t \in Tenants /\ ActsIn(tok, t, sessions) /\ IssuedOrNone(tok, sessions) /\ tok \in Int
  BY <1>1, SessionTenant
<1>7. y \in AppState /\ y.token = tok /\ y.tenant = t /\ ~y.selection
  BY <1>1, <1>4, <1>5, <1>6 DEF AppState
<1>8. AppOK(y, sessions)
  BY <1>6, <1>7 DEF AppOK
<1> QED BY <1>1, <1>2, <1>7, <1>8

LEMMA RefreshSucceededOK ==
    ASSUME SessionsOK(sessions), AppOK(app, sessions), NEW tok, Issued(tok, sessions)
    PROVE  AppOK(RefreshSucceeded(tok), sessions) /\ RefreshSucceeded(tok).tenant = sessions[tok].tenant
<1>1. PICK st, f, t : st = (IF app.status = "logged-out" THEN "authenticated" ELSE app.status)
                        /\ f = FALSE /\ t = sessions[tok].tenant
  BY Zenon
<1>2. PICK y : y = RefreshSucceeded(tok)
  OBVIOUS
<1>3. y = [app EXCEPT !.token = tok, !.selection = f, !.tenant = t, !.status = st]
  BY <1>1, <1>2, AppShape DEF RefreshSucceeded
<1>4. y = [status |-> st, token |-> tok, tenant |-> t, selection |-> f, tenants |-> app.tenants]
  <2>1. PICK a1, a2, a3, a4, a5 :
          app = [status |-> a1, token |-> a2, tenant |-> a3, selection |-> a4, tenants |-> a5]
    BY AppShape
  <2>2. app.token = a2 /\ app.tenants = a5
    BY <2>1
  <2> QED BY <1>3, <2>1, <2>2
<1>5. app.tenants \in BOOLEAN /\ st \in LoginStates \cup {"authenticated"}
  BY <1>1 DEF AppOK, AppState
<1>6. t \in Tenants /\ ActsIn(tok, t, sessions) /\ IssuedOrNone(tok, sessions) /\ tok \in Int
  BY <1>1, SessionTenant
<1>7. y \in AppState /\ y.token = tok /\ y.tenant = t /\ ~y.selection
  BY <1>1, <1>4, <1>5, <1>6 DEF AppState
<1>8. AppOK(y, sessions)
  BY <1>6, <1>7 DEF AppOK
<1> QED BY <1>1, <1>2, <1>7, <1>8

\* What the handlers set of the login page.
LEMMA LoginSetOK ==
    ASSUME NEW l \in LoginState
    PROVE  /\ \A a \in {"idle", "magic", "passkey", "signup", "tenant"} : [l EXCEPT !.action = a] \in LoginState
           /\ [l EXCEPT !.action = "magic", !.attempted = TRUE] \in LoginState
           /\ \A p \in Tenants \cup {NoTenant} : [l EXCEPT !.preferred = p] \in LoginState
           /\ [l EXCEPT !.action = "tenant", !.preferred = NoTenant] \in LoginState
<1>1. PICK a1, a2, a3 : l = [action |-> a1, attempted |-> a2, preferred |-> a3]
  BY DEF LoginState
<1>2. /\ a1 \in {"idle", "magic", "passkey", "signup", "tenant"} /\ a2 \in BOOLEAN
      /\ a3 \in Tenants \cup {NoTenant}
  BY <1>1 DEF LoginState
<1>3. \A a, y : y = [l EXCEPT !.action = a] => y = [action |-> a, attempted |-> a2, preferred |-> a3]
  BY <1>1
<1>4. \A p, y : y = [l EXCEPT !.preferred = p] => y = [action |-> a1, attempted |-> a2, preferred |-> p]
  BY <1>1
<1>5. ASSUME NEW a, NEW b, NEW y, y = [l EXCEPT !.action = a, !.attempted = b]
      PROVE  y = [action |-> a, attempted |-> b, preferred |-> a3]
  BY <1>1, <1>5
<1>6. ASSUME NEW a, NEW p, NEW y, y = [l EXCEPT !.action = a, !.preferred = p]
      PROVE  y = [action |-> a, attempted |-> a2, preferred |-> p]
  BY <1>1, <1>6
<1>7. \A a, b, p : a \in {"idle", "magic", "passkey", "signup", "tenant"} /\ b \in BOOLEAN
                     /\ p \in Tenants \cup {NoTenant}
                     => [action |-> a, attempted |-> b, preferred |-> p] \in LoginState
  BY DEF LoginState
<1>8. ASSUME NEW a \in {"idle", "magic", "passkey", "signup", "tenant"}
      PROVE  [l EXCEPT !.action = a] \in LoginState
  BY <1>2, <1>3, <1>7
<1>9. [l EXCEPT !.action = "magic", !.attempted = TRUE] \in LoginState
  <2>1. PICK m, b : m = "magic" /\ b = TRUE
    BY Zenon
  <2>2. PICK y : y = [l EXCEPT !.action = m, !.attempted = b]
    OBVIOUS
  <2>3. b \in BOOLEAN /\ m \in {"idle", "magic", "passkey", "signup", "tenant"}
    BY <2>1, Zenon
  <2>4. y = [action |-> m, attempted |-> b, preferred |-> a3]
    BY <1>5, <2>2, Zenon
  <2>5. y \in LoginState
    BY <1>2, <1>7, <2>3, <2>4
  <2> QED BY <2>1, <2>2, <2>5, Zenon
<1>10. ASSUME NEW p \in Tenants \cup {NoTenant}
       PROVE  [l EXCEPT !.preferred = p] \in LoginState
  BY <1>2, <1>4, <1>7
<1>11. ASSUME NEW a \in {"idle", "magic", "passkey", "signup", "tenant"}, NEW p \in Tenants \cup {NoTenant}
       PROVE  [l EXCEPT !.action = a, !.preferred = p] \in LoginState
  <2>1. PICK y : y = [l EXCEPT !.action = a, !.preferred = p]
    OBVIOUS
  <2>2. y = [action |-> a, attempted |-> a2, preferred |-> p]
    BY <1>6, <2>1, Zenon
  <2>3. y \in LoginState
    BY <1>2, <1>7, <2>2
  <2> QED BY <2>1, <2>3
<1> QED BY <1>8, <1>9, <1>10, <1>11

-----------------------------------------------------------------------------
\* A handler with its progress changed.
Altered(q, auth, retried, phase, ans, got) ==
    [op |-> q.op, arg |-> q.arg, auth |-> auth, retried |-> retried, phase |-> phase, ans |-> ans,
     got |-> got, orphan |-> q.orphan]

LEMMA AlteredOK ==
    ASSUME NEW ss, SessionsOK(ss), NEW q \in Request, NEW auth, NEW retried \in BOOLEAN,
           NEW phase \in {"none", "sent", "answered", "waiting", "prompt"},
           NEW ans \in {"none", "ok", "selection", "unauthorized", "error"}, NEW got,
           auth = Selector \/ IssuedOrNone(auth, ss), IssuedOrNone(got, ss),
           phase = "waiting" => retried,
           phase = "sent" => retried,
           phase = "answered" /\ ans = "ok" /\ q.op \in SignInOps \cup {"select", "switch"} => Issued(got, ss)
    PROVE  RequestOK(Altered(q, auth, retried, phase, ans, got), ss)
<1> DEFINE w == Altered(q, auth, retried, phase, ans, got)
<1>1. auth \in Int /\ got \in Int
  BY DEF Selector, IssuedOrNone
<1>2. /\ w.op = q.op /\ w.arg = q.arg /\ w.auth = auth /\ w.phase = phase /\ w.ans = ans /\ w.got = got
      /\ w.retried = retried
  BY DEF Altered
<1>3. w \in Request
  BY <1>1 DEF Altered, Request
<1> HIDE DEF w
<1>4. RequestOK(w, ss)
  BY <1>2, <1>3 DEF RequestOK, FirstTry, BringsSession
<1> QED BY <1>4 DEF w

\* The requests of a state that meets the invariant.
LEMMA RequestHere ==
    ASSUME SessionIInv, NEW s \in Slots
    PROVE  /\ RequestOK(reqs[s], sessions) /\ reqs[s] \in Request
           /\ reqs[s] = [op |-> reqs[s].op, arg |-> reqs[s].arg, auth |-> reqs[s].auth,
                         retried |-> reqs[s].retried, phase |-> reqs[s].phase, ans |-> reqs[s].ans,
                         got |-> reqs[s].got, orphan |-> reqs[s].orphan]
<1>1. RequestOK(reqs[s], sessions)
  BY DEF SessionIInv, RequestsOK
<1> QED BY <1>1 DEF RequestOK, Request

\* Taking a handler out.
LEMMA FreedOK ==
    ASSUME SessionIInv, NEW s
    PROVE  RequestsOK(Freed(s), sessions)
<1>1. RequestOK(IdleSlot, sessions)
  BY IdleOK DEF SessionIInv
<1> QED BY <1>1, PutOK DEF SessionIInv, Freed

-----------------------------------------------------------------------------
\* The beginning.
LEMMA SessionIInvInit == SessionInit => SessionIInv
<1> SUFFICES ASSUME SessionInit PROVE SessionIInv
  OBVIOUS
<1>1. sessions = <<>> /\ Len(sessions) = 0
  BY EmptySeq DEF SessionInit
<1>2. SessionsOK(sessions)
  BY <1>1, EmptySeq, SessionConstants DEF SessionsOK
<1>3. AppOK(app, sessions) /\ header = app.token
  BY <1>2, LoggedOutOK DEF SessionInit
<1>4. login \in LoginState /\ url \in BOOLEAN
  <2>1. PICK p \in LinkTenants \cup {NoTenant} :
          login = FreshLogin(p) /\ url \in IF p = NoTenant THEN BOOLEAN ELSE {TRUE}
    BY DEF SessionInit
  <2>2. p \in Tenants \cup {NoTenant}
    BY SessionConstants
  <2> QED BY <2>1, <2>2 DEF FreshLogin, LoginState
<1>5. RequestsOK(reqs, sessions)
  BY <1>2, IdleOK DEF SessionInit, RequestsOK
<1>6. acts \in 0..MaxActs /\ IssuedOrNone(cookie, sessions)
  BY <1>1, SessionConstants DEF SessionInit, IssuedOrNone
<1>7. RefreshOK(refresh, sessions)
  BY <1>1 DEF SessionInit, NoRefresh, RefreshOK, IssuedOrNone
<1> QED BY <1>2, <1>3, <1>4, <1>5, <1>6, <1>7 DEF SessionIInv

LEMMA ActsCounted ==
    ASSUME SessionIInv, UserActs
    PROVE  acts' \in 0..MaxActs
BY SessionConstants DEF SessionIInv, UserActs

\* A dispatch of the login page or of a handler keeps the invariant.
LEMMA DispatchKeeps ==
    ASSUME SessionIInv, UNCHANGED <<url, refresh, sessions>>, acts' \in 0..MaxActs,
           IssuedOrNone(cookie', sessions), NEW new, NEW h, NEW l, NEW r, Commit(new, h, l, r),
           AppOK(new, sessions), l \in LoginState, RequestsOK(r, sessions), IssuedOrNone(h, sessions),
           new.status \notin LoginStates /\ new.tenant # NoTenant => ActsIn(h, new.tenant, sessions)
    PROVE  SessionIInv'
<1>1. /\ AppOK(app', sessions') /\ header' = app'.token /\ login' \in LoginState
      /\ RequestsOK(reqs', sessions')
  BY CommitOK
<1> QED BY <1>1 DEF SessionIInv

\* So does a step that leaves the application and the sessions alone.
LEMMA RequestStepKeeps ==
    ASSUME SessionIInv, UNCHANGED <<app, header, url, refresh, sessions, cookie>>, acts' \in 0..MaxActs,
           login' \in LoginState, RequestsOK(reqs', sessions)
    PROVE  SessionIInv'
BY DEF SessionIInv

\* --- LoginRoute ---------------------------------------------------------------
LEMMA SendFromLoginOK ==
    ASSUME SessionIInv, NEW op \in LoginOps
    PROVE  RequestsOK(Spawn(reqs, Sent(op, NoTenant, 0)), sessions)
<1>1. Len(sessions) \in Nat
  BY LenProperties DEF SessionIInv, SessionsOK
<1>2. RequestOK(Sent(op, NoTenant, 0), sessions)
  <2>1. op # "data" /\ op \in AppOps \cup LoginOps
    BY DEF LoginOps, SignInOps
  <2>2. IssuedOrNone(0, sessions) /\ SessionsOK(sessions)
    BY <1>1 DEF SessionIInv, IssuedOrNone
  <2> QED BY <2>1, <2>2, SentOK
<1> QED BY <1>2, SpawnOK DEF SessionIInv

LEMMA LoginKeeps ==
    ASSUME SessionIInv, SubmitMagicToken \/ AutoMagicLogin \/ PasskeyLogin \/ Signup
    PROVE  SessionIInv'
<1>1. /\ SessionsOK(sessions) /\ AppOK(app, sessions) /\ header = app.token /\ login \in LoginState
      /\ IssuedOrNone(cookie, sessions) /\ IssuedOrNone(header, sessions)
  BY DEF SessionIInv, AppOK
<1>2. AppOK(LoginRequested, sessions) /\ LoginRequested.status \in LoginStates
  BY ONLY <1>1, LoginRequestedOK, Zenon
<1>3. /\ [login EXCEPT !.action = "magic"] \in LoginState /\ [login EXCEPT !.action = "passkey"] \in LoginState
      /\ [login EXCEPT !.action = "signup"] \in LoginState
      /\ [login EXCEPT !.action = "magic", !.attempted = TRUE] \in LoginState
  BY <1>1, LoginSetOK
<1>4. /\ RequestsOK(Spawn(reqs, Sent("magic", NoTenant, 0)), sessions)
      /\ RequestsOK(Spawn(reqs, Sent("passkeyStart", NoTenant, 0)), sessions)
      /\ RequestsOK(Spawn(reqs, Sent("signupStart", NoTenant, 0)), sessions)
  BY SendFromLoginOK DEF LoginOps, SignInOps
<1>5. acts' \in 0..MaxActs
  BY ActsCounted DEF SubmitMagicToken, AutoMagicLogin, PasskeyLogin, Signup
<1>6. CASE SubmitMagicToken
  BY <1>1, <1>2, <1>3, <1>4, <1>5, <1>6, DispatchKeeps DEF SubmitMagicToken
<1>7. CASE AutoMagicLogin
  BY <1>1, <1>2, <1>3, <1>4, <1>5, <1>7, DispatchKeeps DEF AutoMagicLogin
<1>8. CASE PasskeyLogin
  BY <1>1, <1>2, <1>3, <1>4, <1>5, <1>8, DispatchKeeps DEF PasskeyLogin
<1>9. CASE Signup
  <2>1. /\ login' \in LoginState /\ RequestsOK(reqs', sessions)
        /\ UNCHANGED <<app, header, url, refresh, sessions, cookie>>
    BY <1>3, <1>4, <1>9 DEF Signup
  <2> QED BY <1>5, <2>1, RequestStepKeeps
<1> QED BY <1>6, <1>7, <1>8, <1>9

LEMMA SelectionKeeps ==
    ASSUME SessionIInv, AutoSelectPreferred \/ CancelSelection \/ \E t \in Tenants : SelectTenant(t)
    PROVE  SessionIInv'
<1>1. /\ SessionsOK(sessions) /\ AppOK(app, sessions) /\ login \in LoginState
      /\ IssuedOrNone(cookie, sessions) /\ acts \in 0..MaxActs
      /\ login.preferred \in Tenants \cup {NoTenant} /\ Len(sessions) \in Nat
  BY LenProperties DEF SessionIInv, LoginState, SessionsOK
<1>2. ASSUME NEW t \in Tenants \cup {NoTenant}
      PROVE  RequestsOK(Spawn(reqs, Sent("select", t, Selector)), sessions)
  <2>1. RequestOK(Sent("select", t, Selector), sessions)
    BY <1>1, SentOK DEF LoginOps, SignInOps
  <2> QED BY <2>1, SpawnOK DEF SessionIInv
<1>3. CASE AutoSelectPreferred
  <2>1. RequestsOK(reqs', sessions)
    BY <1>1, <1>2, <1>3 DEF AutoSelectPreferred, SendSelect, SessionIInv
  <2>2. login' \in LoginState
    BY <1>1, <1>3, LoginSetOK, ZenonT(60) DEF AutoSelectPreferred
  <2> QED BY <1>1, <1>3, <2>1, <2>2, RequestStepKeeps DEF AutoSelectPreferred
<1>4. CASE CancelSelection
  <2>1. /\ AppOK(LoggedOut, sessions) /\ LoggedOut.status \in LoginStates
        /\ [login EXCEPT !.action = "idle"] \in LoginState
    BY <1>1, LoggedOutOK, LoginSetOK
  <2>2. IssuedOrNone(0, sessions) /\ RequestsOK(reqs, sessions)
    BY <1>1 DEF IssuedOrNone, SessionIInv
  <2>3. acts' \in 0..MaxActs
    BY <1>4, ActsCounted DEF CancelSelection
  <2> QED BY <1>1, <1>4, <2>1, <2>2, <2>3, DispatchKeeps DEF CancelSelection
<1>5. ASSUME NEW t \in Tenants, SelectTenant(t)
      PROVE  SessionIInv'
  <2>1. RequestsOK(reqs', sessions)
    BY <1>2, <1>5, SMTT(60) DEF SelectTenant, SendSelect
  <2>2. login' \in LoginState
    BY <1>1, <1>5, LoginSetOK DEF SelectTenant
  <2>3. acts' \in 0..MaxActs
    BY <1>5, ActsCounted DEF SelectTenant
  <2> QED BY <1>5, <2>1, <2>2, <2>3, RequestStepKeeps DEF SelectTenant
<1> QED BY <1>3, <1>4, <1>5

\* --- the signed-in application --------------------------------------------------
LEMMA SendKeeps ==
    ASSUME SessionIInv, NEW op \in AppOps, NEW arg \in Tenants \cup {NoTenant}, Send(op, arg),
           op = "data" => arg = app.tenant
    PROVE  SessionIInv'
<1>1. /\ SessionsOK(sessions) /\ AppOK(app, sessions) /\ header = app.token /\ login \in LoginState
      /\ IssuedOrNone(cookie, sessions) /\ IssuedOrNone(header, sessions) /\ Len(sessions) \in Nat
  BY LenProperties DEF SessionIInv, AppOK, SessionsOK
<1>2. RequestOK(Sent(op, arg, header), sessions)
  BY <1>1, SentOK DEF AppOK
<1>3. PICK g, q : /\ g = (IF op = "logout" THEN cookie ELSE 0)
                  /\ q = [Sent(op, arg, header) EXCEPT !.got = g]
                  /\ reqs' = Spawn(reqs, q)
  BY DEF Send
<1>4. IssuedOrNone(g, sessions) /\ g \in Int
  BY <1>1, <1>3 DEF IssuedOrNone
<1>5. PICK f1, f2, f3, f4, f5, f6, f7, f8 : Sent(op, arg, header)
        = [op |-> f1, arg |-> f2, auth |-> f3, retried |-> f4, phase |-> f5, ans |-> f6, got |-> f7, orphan |-> f8]
  BY <1>2 DEF RequestOK, Request
<1>6. q = [op |-> f1, arg |-> f2, auth |-> f3, retried |-> f4, phase |-> f5, ans |-> f6, got |-> g, orphan |-> f8]
  BY <1>3, <1>5
<1>7. q \in Request
  BY <1>2, <1>4, <1>5, <1>6 DEF RequestOK, Request
<1>8. Sent(op, arg, header).phase = "sent"
  BY SentShape
<1>9. RequestOK(q, sessions)
  <2>1. /\ q.op = f1 /\ q.arg = f2 /\ q.auth = f3 /\ q.retried = f4 /\ q.phase = f5 /\ q.ans = f6 /\ q.got = g
        /\ q.orphan = f8
    BY <1>6
  <2>2. LET p == Sent(op, arg, header)
        IN  p.op = f1 /\ p.arg = f2 /\ p.auth = f3 /\ p.retried = f4 /\ p.phase = f5 /\ p.ans = f6 /\ p.orphan = f8
    BY <1>5
  <2> QED BY <1>2, <1>4, <1>7, <1>8, <2>1, <2>2 DEF RequestOK, FirstTry, BringsSession
<1>10. RequestsOK(reqs', sessions)
  BY <1>3, <1>9, SpawnOK DEF SessionIInv
<1> QED BY <1>1, <1>10, ActsCounted, RequestStepKeeps DEF Send

LEMMA ApplicationKeeps ==
    ASSUME SessionIInv,
           UseWorkspace \/ RefreshTenantList \/ Logout \/ \E t \in Tenants : SwitchTenant(t)
    PROVE  SessionIInv'
<1>1. app.tenant \in Tenants \cup {NoTenant}
  BY DEF SessionIInv, AppOK, AppState
<1> QED BY <1>1, SendKeeps DEF UseWorkspace, RefreshTenantList, Logout, SwitchTenant, AppOps

\* A page load restores the tenant with the token it was shown under.
LEMMA LoadPageKeeps ==
    ASSUME SessionIInv, NEW link \in BOOLEAN, NEW preferred \in Tenants \cup {NoTenant}, LoadPage(link, preferred)
    PROVE  SessionIInv'
<1> DEFINE st == IF app.token # 0 THEN "authenticated" ELSE "logged-out"
           fresh == [LoggedOut EXCEPT !.token = app.token, !.tenant = app.tenant,
                                      !.status = IF app.token # 0 THEN "authenticated" ELSE @]
           empty == [s \in Slots |-> IdleSlot]
           one == Spawn(empty, Sent("data", fresh.tenant, fresh.token))
<1>1. /\ SessionsOK(sessions) /\ AppOK(app, sessions) /\ app.token \in Int /\ app.tenant \in Tenants \cup {NoTenant}
      /\ IssuedOrNone(app.token, sessions) /\ Len(sessions) \in Nat
  BY LenProperties DEF SessionIInv, AppOK, AppState, SessionsOK
<1>2. /\ fresh \in AppState /\ fresh.token = app.token /\ fresh.tenant = app.tenant /\ ~fresh.selection
  <2>1. PICK o, z, f, a, t, s : /\ o = "logged-out" /\ z = 0 /\ f = FALSE /\ a = app.token /\ t = app.tenant
                                /\ s = st
    BY Zenon
  <2>2. PICK x, y : x = LoggedOut /\ y = fresh
    BY Zenon
  <2>3. x = [status |-> o, token |-> z, tenant |-> NoTenant, selection |-> f, tenants |-> f]
    BY <2>1, <2>2, Zenon DEF LoggedOut
  <2>4. y = [x EXCEPT !.token = a, !.tenant = t, !.status = s]
    <3>1. LoggedOut.status = "logged-out"
      BY DEF LoggedOut
    <3> QED BY <2>1, <2>2, <3>1
  <2>5. y = [status |-> s, token |-> a, tenant |-> t, selection |-> f, tenants |-> f]
    BY <2>3, <2>4
  <2>6. s \in LoginStates \cup {"authenticated"} /\ a \in Int /\ t \in Tenants \cup {NoTenant}
    BY <1>1, <2>1 DEF LoginStates
  <2>7. f \in BOOLEAN /\ ~f
    BY <2>1, Zenon
  <2>8. y \in AppState /\ y.token = a /\ y.tenant = t /\ ~y.selection
    BY <2>5, <2>6, <2>7 DEF AppState
  <2> HIDE DEF fresh
  <2> QED BY <2>1, <2>2, <2>8
<1>3. /\ app' = fresh /\ header' = fresh.token
      /\ url' = ((link \/ url) /\ fresh.token = 0)
      /\ login' = FreshLogin(IF url' THEN preferred ELSE NoTenant)
      /\ reqs' = IF SignedIn(fresh) THEN Spawn(one, Sent("tenants", NoTenant, fresh.token)) ELSE empty
      /\ refresh' = NoRefresh
      /\ UNCHANGED <<sessions, cookie>>
  BY Zenon DEF LoadPage
<1> HIDE DEF fresh
<1>4. AppOK(fresh, sessions) /\ header' = fresh.token
  BY <1>1, <1>2, <1>3 DEF AppOK
<1>5. RequestsOK(empty, sessions)
  BY <1>1, IdleOK DEF RequestsOK
<1>6. RequestOK(Sent("data", fresh.tenant, fresh.token), sessions)
  BY <1>1, <1>2, SentOK DEF AppOK, AppOps
<1>7. RequestOK(Sent("tenants", NoTenant, fresh.token), sessions)
  BY <1>1, <1>2, SentOK DEF AppOps
<1>8. RequestsOK(one, sessions)
  <2> HIDE DEF empty
  <2> QED BY <1>5, <1>6, SpawnOK
<1>9. RequestsOK(reqs', sessions)
  <2> HIDE DEF empty, one
  <2> QED BY <1>3, <1>5, <1>7, <1>8, SpawnOK
<1>10. login' \in LoginState
  BY <1>3 DEF FreshLogin, LoginState
<1>11. url' \in BOOLEAN
  BY <1>3
<1>12. RefreshOK(refresh', sessions)
  BY <1>1, <1>3 DEF NoRefresh, RefreshOK, IssuedOrNone
<1>13. acts' \in 0..MaxActs
  BY ActsCounted DEF LoadPage
<1> QED BY <1>3, <1>4, <1>9, <1>10, <1>11, <1>12, <1>13 DEF SessionIInv

\* --- the server ---------------------------------------------------------------
\* Sessions grow under everything that refers to them.
LEMMA SessionsMove ==
    ASSUME SessionIInv, SessionsOK(sessions'), MoreSessions(sessions, sessions'),
           UNCHANGED <<app, header, login, url>>, acts' \in 0..MaxActs,
           IssuedOrNone(cookie', sessions'), RequestsOK(reqs', sessions'), RefreshOK(refresh', sessions')
    PROVE  SessionIInv'
<1>1. AppOK(app, sessions')
  BY RequestsOutlive DEF SessionIInv
<1> QED BY <1>1 DEF SessionIInv

\* An answer to a handler, the sessions having grown to ss.
LEMMA AnswerOK ==
    ASSUME SessionIInv, NEW ss, SessionsOK(ss), MoreSessions(sessions, ss), NEW s \in Slots,
           NEW a \in {"ok", "selection", "unauthorized", "error"}, NEW g, Answer(s, a, g), IssuedOrNone(g, ss),
           a = "ok" /\ reqs[s].op \in SignInOps \cup {"select", "switch"} => Issued(g, ss)
    PROVE  RequestsOK(reqs', ss)
<1>0. PICK z, ph : z = 0 /\ ph = "answered"
  BY Zenon
<1>1. PICK q : q = reqs[s]
  OBVIOUS
<1>w. PICK w : w = [q EXCEPT !.phase = ph, !.ans = a, !.got = g, !.auth = z]
  OBVIOUS
<1>2. reqs' = [reqs EXCEPT ![s] = w]
  BY <1>0, <1>1, <1>w DEF Answer
<1>3. q \in Request /\ RequestsOK(reqs, ss) /\ Len(ss) \in Nat
  BY <1>1, RequestHere, RequestsOutlive, LenProperties DEF SessionIInv, SessionsOK
<1>4. PICK f1, f2, f3, f4, f5, f6, f7, f8 :
        q = [op |-> f1, arg |-> f2, auth |-> f3, retried |-> f4, phase |-> f5, ans |-> f6, got |-> f7, orphan |-> f8]
  BY <1>3 DEF Request
<1>5. w = [op |-> f1, arg |-> f2, auth |-> z, retried |-> f4, phase |-> ph, ans |-> a, got |-> g, orphan |-> f8]
  BY <1>w, <1>4
<1>6. q.op = f1 /\ q.arg = f2 /\ q.retried = f4 /\ q.orphan = f8
  BY <1>4
<1>7. w = Altered(q, z, q.retried, ph, a, g)
  BY <1>5, <1>6 DEF Altered
<1>8. q.retried \in BOOLEAN
  BY <1>3 DEF Request
<1>9. IssuedOrNone(z, ss)
  BY <1>0, <1>3 DEF IssuedOrNone
<1>10. RequestOK(w, ss)
  BY <1>0, <1>1, <1>3, <1>7, <1>8, <1>9, AlteredOK
<1> QED BY <1>2, <1>3, <1>10, PutOK

LEMMA RevokedOK ==
    ASSUME SessionsOK(sessions), NEW c, IssuedOrNone(c, sessions), NEW tok
    PROVE  SessionsOK(Revoked(c, tok)) /\ MoreSessions(sessions, Revoked(c, tok))
<1>1. sessions \in Seq(Session) /\ Len(sessions) \in Nat /\ DOMAIN sessions = 1..Len(sessions)
      /\ \A i \in 1..Len(sessions) : sessions[i] \in Session
  BY LenProperties, ElementOfSeq DEF SessionsOK
<1>2. CASE c # 0 /\ sessions[c].live
  <2>1. Issued(c, sessions)
    BY <1>1, <1>2 DEF Issued, IssuedOrNone
  <2>2. Revoked(c, tok) = [sessions EXCEPT ![c].live = FALSE]
    BY <1>2, Zenon DEF Revoked
  <2>3. LET tt == [sessions EXCEPT ![c].live = FALSE]
        IN  SessionsOK(tt) /\ MoreSessions(sessions, tt) /\ Len(tt) = Len(sessions)
    BY <2>1, SessionEnded
  <2> QED BY <2>2, <2>3, Zenon
<1>3. CASE ~(c # 0 /\ sessions[c].live)
  <2> DEFINE f == [i \in 1..Len(sessions) |-> sessions[i].live /\ sessions[i].tenant # sessions[tok].tenant]
             tt == [i \in 1..Len(sessions) |-> [tenant |-> sessions[i].tenant, live |-> f[i]]]
  <2>1. f \in [1..Len(sessions) -> BOOLEAN]
    BY Zenon
  <2>2. Revoked(c, tok) = [i \in 1..Len(sessions) |->
          [sessions[i] EXCEPT !.live = @ /\ sessions[i].tenant # sessions[tok].tenant]]
    BY <1>1, <1>3, Zenon DEF Revoked
  <2>3. ASSUME NEW i \in 1..Len(sessions)
        PROVE  [sessions[i] EXCEPT !.live = @ /\ sessions[i].tenant # sessions[tok].tenant]
                 = [tenant |-> sessions[i].tenant, live |-> f[i]]
    <3>1. PICK t, b : sessions[i] = [tenant |-> t, live |-> b]
      BY <1>1 DEF Session
    <3>2. sessions[i].tenant = t
      BY <3>1
    <3>3. PICK x : x = f[i]
      OBVIOUS
    <3>4. x = (sessions[i].live /\ sessions[i].tenant # sessions[tok].tenant)
      BY <3>3, Zenon
    <3>5. [sessions[i] EXCEPT !.live = @ /\ sessions[i].tenant # sessions[tok].tenant]
            = [sessions[i] EXCEPT !.live = x]
      BY <3>4, Zenon
    <3>6. [sessions[i] EXCEPT !.live = x] = [tenant |-> t, live |-> x]
      BY <3>1
    <3> QED BY <3>2, <3>3, <3>5, <3>6, Zenon
  <2>4. Revoked(c, tok) = tt
    BY <2>2, <2>3
  <2>5. SessionsOK(tt) /\ MoreSessions(sessions, tt)
    <3> HIDE DEF f
    <3> QED BY <2>1, SessionsRevoked
  <2> QED BY <2>4, <2>5
<1> QED BY <1>2, <1>3

LEMMA GrownReflexive ==
    ASSUME NEW ss, SessionsOK(ss)
    PROVE  MoreSessions(ss, ss)
<1>1. Len(ss) \in Nat
  BY LenProperties DEF SessionsOK
<1> QED BY <1>1 DEF MoreSessions

LEMMA ServeKeeps ==
    ASSUME SessionIInv, NEW s \in Slots, Serve(s)
    PROVE  SessionIInv'
<1>1. /\ SessionsOK(sessions) /\ MoreSessions(sessions, sessions) /\ Len(sessions) \in Nat
      /\ IssuedOrNone(cookie, sessions) /\ RefreshOK(refresh, sessions) /\ acts \in 0..MaxActs
      /\ IssuedOrNone(reqs[s].got, sessions) /\ reqs[s].arg \in Tenants \cup {NoTenant}
      /\ IssuedOrNone(0, sessions)
  <2>1. SessionsOK(sessions) /\ Len(sessions) \in Nat
    BY LenProperties DEF SessionIInv, SessionsOK
  <2>2. MoreSessions(sessions, sessions) /\ IssuedOrNone(0, sessions)
    BY <2>1, GrownReflexive DEF IssuedOrNone
  <2>3. IssuedOrNone(reqs[s].got, sessions) /\ reqs[s].arg \in Tenants \cup {NoTenant}
    BY RequestHere DEF RequestOK, Request
  <2> QED BY <2>1, <2>2, <2>3 DEF SessionIInv
<1>2. ASSUME SessionsOK(sessions'), MoreSessions(sessions, sessions'), RequestsOK(reqs', sessions')
      PROVE  SessionIInv'
  <2>1. IssuedOrNone(cookie, sessions') /\ RefreshOK(refresh, sessions')
    BY <1>1, <1>2, RequestsOutlive
  <2> QED BY <1>1, <1>2, <2>1, SessionsMove DEF Serve
<1>3. CASE ServeSession(s)
  <2>1. PICK t \in IF reqs[s].arg # NoTenant THEN {reqs[s].arg} ELSE Tenants : Issue(t)
    BY <1>3 DEF ServeSession
  <2>2. t \in Tenants /\ Len(sessions) < MaxSessions
    BY <1>1, <2>1 DEF Issue
  <2>3. SessionsOK(sessions') /\ MoreSessions(sessions, sessions') /\ Issued(Len(sessions) + 1, sessions')
    BY <1>1, <2>1, <2>2, SessionIssued DEF Issue
  <2>4. IssuedOrNone(Len(sessions) + 1, sessions')
    BY <1>1, <2>3 DEF Issued, IssuedOrNone
  <2>5. RequestsOK(reqs', sessions')
    BY <1>3, <2>3, <2>4, AnswerOK DEF ServeSession
  <2> QED BY <1>2, <2>3, <2>5
<1>4. CASE ServeLogout(s)
  <2>1. SessionsOK(sessions') /\ MoreSessions(sessions, sessions')
    BY <1>1, <1>4, RevokedOK DEF ServeLogout
  <2>2. IssuedOrNone(0, sessions')
    BY <1>1, <2>1, RequestsOutlive
  <2>3. reqs[s].op \notin SignInOps \cup {"select", "switch"}
    BY <1>4 DEF ServeLogout, SignInOps
  <2>4. RequestsOK(reqs', sessions')
    BY <1>4, <2>1, <2>2, <2>3, AnswerOK DEF ServeLogout
  <2> QED BY <1>2, <2>1, <2>4
<1>5. CASE ServePlain(s)
  <2>1. sessions' = sessions
    BY <1>5 DEF ServePlain
  <2>2. CASE reqs[s].op \in {"data", "tenants", "passkeyStart", "signupStart"} /\ Answer(s, "ok", 0)
    <3>1. reqs[s].op \notin SignInOps \cup {"select", "switch"}
      BY <2>2 DEF SignInOps
    <3>2. RequestsOK(reqs', sessions)
      BY <1>1, <2>2, <3>1, AnswerOK
    <3> QED BY <1>1, <1>2, <2>1, <3>2
  <2>3. CASE Answer(s, "selection", 0) \/ Answer(s, "unauthorized", reqs[s].got) \/ Answer(s, "error", reqs[s].got)
    <3>1. RequestsOK(reqs', sessions)
      BY <1>1, <2>3, AnswerOK
    <3> QED BY <1>1, <1>2, <2>1, <3>1
  <2> QED BY <1>5, <2>2, <2>3 DEF ServePlain
<1> QED BY <1>3, <1>4, <1>5 DEF Serve

\* --- the response interceptor -----------------------------------------------------
LEMMA UnauthorizedKeeps ==
    ASSUME SessionIInv, NEW s \in Slots, Unauthorized(s)
    PROVE  SessionIInv'
<1>1. /\ SessionsOK(sessions) /\ IssuedOrNone(cookie, sessions) /\ RefreshOK(refresh, sessions)
      /\ Len(sessions) \in Nat
  BY LenProperties DEF SessionIInv, SessionsOK
<1>2. PICK q, ph, t, n : q = reqs[s] /\ ph = "waiting" /\ t = TRUE /\ n = "none"
  BY Zenon
<1>3. PICK f1, f2, f3, f4, f5, f6, f7, f8 :
        q = [op |-> f1, arg |-> f2, auth |-> f3, retried |-> f4, phase |-> f5, ans |-> f6, got |-> f7, orphan |-> f8]
  BY <1>2, RequestHere
<1>4. reqs' = [reqs EXCEPT ![s].phase = ph, ![s].retried = t, ![s].ans = n]
  BY <1>2, Zenon DEF Unauthorized
<1>5. PICK w : w = [q EXCEPT !.phase = ph, !.retried = t, !.ans = n]
  OBVIOUS
<1>6. reqs' = [reqs EXCEPT ![s] = w]
  BY <1>2, <1>4, <1>5 DEF SessionIInv, RequestsOK
<1>7. w = [op |-> f1, arg |-> f2, auth |-> f3, retried |-> t, phase |-> ph, ans |-> n, got |-> f7, orphan |-> f8]
  BY <1>3, <1>5
<1>8. q.op = f1 /\ q.arg = f2 /\ q.auth = f3 /\ q.got = f7 /\ q.orphan = f8
  BY <1>3
<1>9. w = Altered(q, q.auth, t, ph, n, q.got)
  BY <1>7, <1>8 DEF Altered
<1>10. RequestOK(q, sessions) /\ q \in Request
  BY <1>2, RequestHere
<1>11. t \in BOOLEAN /\ t
  BY <1>2, Zenon
<1>12. RequestOK(w, sessions)
  <2>1. (q.auth = Selector \/ IssuedOrNone(q.auth, sessions)) /\ IssuedOrNone(q.got, sessions)
    BY <1>10 DEF RequestOK
  <2> QED BY <1>1, <1>2, <1>9, <1>10, <1>11, <2>1, AlteredOK
<1>13. RequestsOK(reqs', sessions)
  BY <1>6, <1>12, PutOK DEF SessionIInv
<1>14. RefreshOK(refresh', sessions)
  <2>1. RefreshOK([phase |-> "sent", cookie |-> cookie, got |-> 0], sessions)
    BY <1>1 DEF RefreshOK, IssuedOrNone
  <2> QED BY <1>1, <2>1 DEF Unauthorized
<1> QED BY <1>13, <1>14 DEF Unauthorized, SessionIInv

LEMMA RefreshReadKeeps ==
    ASSUME SessionIInv, RefreshRead
    PROVE  SessionIInv'
<1>1. RefreshOK(refresh, sessions)
  BY DEF SessionIInv
<1>2. RefreshOK(refresh', sessions)
  BY <1>1 DEF RefreshRead, RefreshOK
<1> QED BY <1>2 DEF RefreshRead, SessionIInv

LEMMA RefreshRotateKeeps ==
    ASSUME SessionIInv, RefreshRotate
    PROVE  SessionIInv'
<1>1. /\ RefreshOK(refresh, sessions) /\ SessionsOK(sessions) /\ Len(sessions) \in Nat
      /\ IssuedOrNone(refresh.cookie, sessions) /\ refresh.cookie # 0 /\ refresh.phase = "read"
      /\ RequestsOK(reqs, sessions) /\ IssuedOrNone(cookie, sessions) /\ acts \in 0..MaxActs
  BY LenProperties DEF SessionIInv, SessionsOK, RefreshRotate, RefreshOK
<1>2. Issued(refresh.cookie, sessions)
  BY <1>1 DEF Issued, IssuedOrNone
<1>3. CASE /\ Len(sessions) < MaxSessions
           /\ sessions' = Append([sessions EXCEPT ![refresh.cookie].live = FALSE],
                                 [tenant |-> sessions[refresh.cookie].tenant, live |-> TRUE])
           /\ refresh' = [refresh EXCEPT !.phase = "answered", !.got = Len(sessions) + 1]
  <2>1. SessionsOK(sessions') /\ MoreSessions(sessions, sessions') /\ Issued(Len(sessions) + 1, sessions')
    BY <1>1, <1>2, <1>3, SessionReplaced
  <2>2. RequestsOK(reqs, sessions') /\ IssuedOrNone(cookie, sessions') /\ RefreshOK(refresh, sessions')
    BY <1>1, <2>1, RequestsOutlive
  <2>3. IssuedOrNone(Len(sessions) + 1, sessions')
    BY <1>1, <2>1 DEF Issued, IssuedOrNone
  <2>4. refresh' = [phase |-> "answered", cookie |-> refresh.cookie, got |-> Len(sessions) + 1]
    <3>1. PICK a1, a2, a3 : refresh = [phase |-> a1, cookie |-> a2, got |-> a3]
      BY <1>1 DEF RefreshOK
    <3>2. PICK ph, g, y : ph = "answered" /\ g = Len(sessions) + 1 /\ y = refresh'
      BY Zenon
    <3>3. y = [refresh EXCEPT !.phase = ph, !.got = g]
      BY <1>3, <3>2
    <3>4. y = [phase |-> ph, cookie |-> a2, got |-> g]
      BY <3>1, <3>3
    <3>5. refresh.cookie = a2
      BY <3>1
    <3> QED BY <3>2, <3>4, <3>5
  <2>5. RefreshOK(refresh', sessions')
    BY <1>1, <2>2, <2>3, <2>4 DEF RefreshOK
  <2> QED BY <1>1, <2>1, <2>2, <2>5, SessionsMove DEF RefreshRotate
<1>4. CASE refresh' = [refresh EXCEPT !.phase = "answered"] /\ UNCHANGED sessions
  <2>1. RefreshOK(refresh', sessions)
    BY SMTT(60), <1>1, <1>4 DEF RefreshOK
  <2> QED BY <1>1, <1>4, <2>1 DEF RefreshRotate, SessionIInv
<1> QED BY <1>3, <1>4 DEF RefreshRotate

\* Those parked on the refresh are sent a second time, or fail.
LEMMA ReleasedOK ==
    ASSUME SessionIInv, NEW tok, IssuedOrNone(tok, sessions)
    PROVE  RequestsOK(Released(tok), sessions)
<1>1. SessionsOK(sessions) /\ IssuedOrNone(0, sessions)
  <2>1. SessionsOK(sessions) /\ Len(sessions) \in Nat
    BY LenProperties DEF SessionIInv, SessionsOK
  <2> QED BY <2>1 DEF IssuedOrNone
<1>2. ASSUME NEW s \in Slots PROVE RequestOK(Released(tok)[s], sessions)
  <2>1. RequestOK(reqs[s], sessions) /\ reqs[s] \in Request
    BY RequestHere
  <2>2. CASE reqs[s].phase # "waiting"
    BY <2>1, <2>2 DEF Released
  <2>3. CASE reqs[s].phase = "waiting" /\ tok # 0
    <3>0. PICK ph, g : ph = "sent" /\ g = (IF reqs[s].op = "logout" THEN tok ELSE 0)
      BY Zenon
    <3>1. PICK q : q = reqs[s]
      OBVIOUS
    <3>w. PICK w : w = [q EXCEPT !.phase = ph, !.auth = tok, !.got = g]
      OBVIOUS
    <3>2. w = Released(tok)[s]
      BY <2>3, <3>0, <3>1, <3>w, Zenon DEF Released
    <3>3. PICK f1, f2, f3, f4, f5, f6, f7, f8 :
        q = [op |-> f1, arg |-> f2, auth |-> f3, retried |-> f4, phase |-> f5, ans |-> f6, got |-> f7, orphan |-> f8]
      BY <3>1, RequestHere
    <3>4. w = [op |-> f1, arg |-> f2, auth |-> tok, retried |-> f4, phase |-> ph, ans |-> f6, got |-> g, orphan |-> f8]
      BY <3>w, <3>3
    <3>5. q.op = f1 /\ q.arg = f2 /\ q.retried = f4 /\ q.ans = f6 /\ q.orphan = f8
      BY <3>3
    <3>t. PICK t : t = q.retried
      OBVIOUS
    <3>6. w = Altered(q, tok, t, ph, q.ans, g)
      BY <3>4, <3>5, <3>t DEF Altered
    <3>7. t \in BOOLEAN /\ t /\ q.ans \in {"none", "ok", "selection", "unauthorized", "error"}
      BY <2>1, <2>3, <3>1, <3>t DEF RequestOK, Request
    <3>8. IssuedOrNone(g, sessions)
      BY <1>1, <3>0
    <3>q. q \in Request
      BY <2>1, <3>1
    <3>9. RequestOK(w, sessions)
      BY <1>1, <3>0, <3>q, <3>6, <3>7, <3>8, AlteredOK, ZenonT(60)
    <3> QED BY <3>2, <3>9
  <2>4. CASE reqs[s].phase = "waiting" /\ tok = 0
    <3>0. PICK ph, n : ph = "answered" /\ n = "error"
      BY Zenon
    <3>1. PICK q : q = reqs[s]
      OBVIOUS
    <3>w. PICK w : w = [q EXCEPT !.phase = ph, !.ans = n]
      OBVIOUS
    <3>2. w = Released(tok)[s]
      BY <2>4, <3>0, <3>1, <3>w, Zenon DEF Released
    <3>3. PICK f1, f2, f3, f4, f5, f6, f7, f8 :
        q = [op |-> f1, arg |-> f2, auth |-> f3, retried |-> f4, phase |-> f5, ans |-> f6, got |-> f7, orphan |-> f8]
      BY <3>1, RequestHere
    <3>4. w = [op |-> f1, arg |-> f2, auth |-> f3, retried |-> f4, phase |-> ph, ans |-> n, got |-> f7, orphan |-> f8]
      BY <3>w, <3>3
    <3>5. q.op = f1 /\ q.arg = f2 /\ q.auth = f3 /\ q.retried = f4 /\ q.got = f7 /\ q.orphan = f8
      BY <3>3
    <3>6. w = Altered(q, q.auth, q.retried, ph, n, q.got)
      BY <3>4, <3>5 DEF Altered
    <3>7. q.retried \in BOOLEAN
      BY <2>1, <3>1 DEF Request
    <3>8. (q.auth = Selector \/ IssuedOrNone(q.auth, sessions)) /\ IssuedOrNone(q.got, sessions)
      BY <2>1, <3>1 DEF RequestOK
    <3>q. q \in Request
      BY <2>1, <3>1
    <3>9. RequestOK(w, sessions)
      BY <1>1, <3>0, <3>q, <3>6, <3>7, <3>8, AlteredOK
    <3> QED BY <3>2, <3>9
  <2> QED BY <2>2, <2>3, <2>4
<1> QED BY <1>2 DEF RequestsOK, Released

LEMMA RefreshSettlesKeeps ==
    ASSUME SessionIInv, RefreshSettles
    PROVE  SessionIInv'
<1> DEFINE tok == refresh.got
           new == IF tok # 0 THEN RefreshSucceeded(tok) ELSE LoggedOut
<1>1. /\ SessionsOK(sessions) /\ AppOK(app, sessions) /\ login \in LoginState /\ Len(sessions) \in Nat
      /\ IssuedOrNone(cookie, sessions) /\ IssuedOrNone(tok, sessions) /\ acts \in 0..MaxActs
  BY LenProperties DEF SessionIInv, SessionsOK, RefreshOK
<1>2. tok # 0 => Issued(tok, sessions)
  BY <1>1 DEF Issued, IssuedOrNone
<1>3. AppOK(new, sessions)
  BY <1>1, <1>2, RefreshSucceededOK, LoggedOutOK
<1>4. new.status \notin LoginStates => ActsIn(tok, new.tenant, sessions)
  BY <1>1, <1>2, RefreshSucceededOK, LoggedOutOK, SessionTenant
<1>5. RequestsOK(Released(tok), sessions)
  BY <1>1, ReleasedOK
<1>6. Commit(new, tok, login, Released(tok)) /\ cookie' = IF tok # 0 THEN tok ELSE cookie
  BY Zenon DEF RefreshSettles
<1>7. /\ AppOK(app', sessions') /\ header' = app'.token /\ login' \in LoginState
      /\ RequestsOK(reqs', sessions')
  <2> HIDE DEF new, tok
  <2> QED BY <1>1, <1>3, <1>4, <1>5, <1>6, CommitOK DEF RefreshSettles
<1>8. IssuedOrNone(cookie', sessions')
  BY <1>1, <1>6 DEF RefreshSettles
<1>9. RefreshOK(refresh', sessions')
  BY <1>1, SMTT(60) DEF RefreshSettles, NoRefresh, RefreshOK, IssuedOrNone
<1> QED BY <1>1, <1>7, <1>8, <1>9 DEF RefreshSettles, SessionIInv

\* --- what the handlers do with their answers ------------------------------------------
LEMMA IdledOK ==
    ASSUME SessionIInv, NEW s \in Slots
    PROVE  Idled(s) \in LoginState
BY LoginSetOK DEF SessionIInv, Idled

\* A sign-in commits the session it brings, with its cookie, from the page itself
\* or, late, over a workspace that is mounted.
LEMMA SignInKeeps ==
    ASSUME SessionIInv, NEW s \in Slots, BringsSession(reqs[s]), NEW l \in LoginState, SignIn(s, l),
           UNCHANGED <<url, refresh, sessions, acts>>
    PROVE  SessionIInv'
<1> DEFINE tok == reqs[s].got
           new == LoginSucceeded(tok)
<1>1. /\ SessionsOK(sessions) /\ AppOK(app, sessions) /\ acts \in 0..MaxActs /\ IssuedOrNone(cookie, sessions)
      /\ url \in BOOLEAN /\ RefreshOK(refresh, sessions)
  BY DEF SessionIInv
<1>2. Issued(tok, sessions)
  BY RequestHere DEF RequestOK
<1>3. ActsIn(tok, sessions[tok].tenant, sessions) /\ IssuedOrNone(tok, sessions)
  BY <1>1, <1>2, SessionTenant
<1>4. AppOK(new, sessions) /\ new.tenant = sessions[tok].tenant
  BY <1>1, <1>2, LoginSucceededOK
<1>5. IssuedOrNone(cookie', sessions)
  BY <1>1, <1>3 DEF SignIn, SetCookie
<1>6. PICK o, h : o = LateSignIn /\ h = HeaderAtMount(tok)
  OBVIOUS
<1>7. o \in BOOLEAN /\ IssuedOrNone(h, sessions) /\ (~o => h = tok)
  <2>1. IssuedOrNone(header, sessions)
    BY DEF SessionIInv, AppOK
  <2>2. LateSignIn \in BOOLEAN
    BY DEF LateSignIn
  <2> HIDE DEF tok
  <2> QED BY <1>3, <1>6, <2>1, <2>2, Zenon DEF HeaderAtMount
<1>8. RequestsOK(Freed(s), sessions) /\ CommitBy(o, new, h, l, Freed(s))
  BY <1>6, FreedOK, Zenon DEF SignIn
<1>9. ~o => ActsIn(h, new.tenant, sessions)
  BY <1>3, <1>4, <1>7
<1> HIDE DEF new, tok
<1>10. /\ AppOK(app', sessions') /\ header' = app'.token /\ login' \in LoginState
       /\ RequestsOK(reqs', sessions')
  BY <1>4, <1>7, <1>8, <1>9, CommitByOK
<1> QED BY <1>1, <1>5, <1>10 DEF SessionIInv

\* A switch commits the session it brings, with its cookie.
LEMMA SignedInKeeps ==
    ASSUME SessionIInv, NEW s \in Slots, BringsSession(reqs[s]), NEW l \in LoginState,
           Commit(LoginSucceeded(reqs[s].got), reqs[s].got, l, Freed(s)), SetCookie(s),
           UNCHANGED <<url, refresh, sessions, acts>>
    PROVE  SessionIInv'
<1> DEFINE tok == reqs[s].got
           new == LoginSucceeded(tok)
<1>1. SessionsOK(sessions) /\ AppOK(app, sessions) /\ acts \in 0..MaxActs /\ IssuedOrNone(cookie, sessions)
  BY DEF SessionIInv
<1>2. Issued(tok, sessions)
  BY RequestHere DEF RequestOK
<1>3. ActsIn(tok, sessions[tok].tenant, sessions) /\ IssuedOrNone(tok, sessions)
  BY <1>1, <1>2, SessionTenant
<1>4. AppOK(new, sessions) /\ new.tenant = sessions[tok].tenant
  BY <1>1, <1>2, LoginSucceededOK
<1>5. IssuedOrNone(cookie', sessions)
  BY <1>1, <1>3 DEF SetCookie
<1>6. RequestsOK(Freed(s), sessions) /\ Commit(new, tok, l, Freed(s))
  BY FreedOK
<1> HIDE DEF new, tok
<1> QED BY <1>1, <1>3, <1>4, <1>5, <1>6, DispatchKeeps

\* A handler that leaves for the login page commits it.
LEMMA LeftKeeps ==
    ASSUME SessionIInv, NEW s \in Slots, NEW new, NEW l \in LoginState, Commit(new, 0, l, Freed(s)),
           AppOK(new, sessions), new.status \in LoginStates, IssuedOrNone(cookie', sessions),
           UNCHANGED <<url, refresh, sessions, acts>>
    PROVE  SessionIInv'
<1>1. Len(sessions) \in Nat /\ acts \in 0..MaxActs
  BY LenProperties DEF SessionIInv, SessionsOK
<1>2. RequestsOK(Freed(s), sessions) /\ IssuedOrNone(0, sessions)
  BY <1>1, FreedOK DEF IssuedOrNone
<1> QED BY <1>1, <1>2, DispatchKeeps

\* A handler that ends without a dispatch.
LEMMA EndedKeeps ==
    ASSUME SessionIInv, NEW s \in Slots, reqs' = Freed(s), login' \in LoginState,
           UNCHANGED <<app, header, cookie, url, refresh, sessions, acts>>
    PROVE  SessionIInv'
<1>1. RequestsOK(Freed(s), sessions) /\ acts \in 0..MaxActs
  BY FreedOK DEF SessionIInv
<1> QED BY <1>1, RequestStepKeeps

LEMMA AuthCompletedKeeps ==
    ASSUME SessionIInv, NEW s \in Slots, Final(s), reqs[s].op \in SignInOps, AuthCompleted(s),
           UNCHANGED <<url, refresh, sessions, acts>>
    PROVE  SessionIInv'
<1>1. SessionsOK(sessions) /\ IssuedOrNone(cookie, sessions) /\ login \in LoginState
  BY DEF SessionIInv
<1>2. CASE reqs[s].ans = "ok" /\ SignIn(s, login)
  <2>1. BringsSession(reqs[s])
    BY <1>2 DEF BringsSession, Final
  <2> QED BY <1>1, <1>2, <2>1, SignInKeeps
<1>3. CASE Commit(SelectionRequired, 0, Idled(s), Freed(s)) /\ UNCHANGED cookie
  BY <1>1, <1>3, SelectionRequiredOK, IdledOK, LeftKeeps
<1> QED BY <1>2, <1>3 DEF AuthCompleted

LEMMA SettleKeeps ==
    ASSUME SessionIInv, NEW s \in Slots, Settle(s)
    PROVE  SessionIInv'
<1>1. /\ SessionsOK(sessions) /\ IssuedOrNone(cookie, sessions) /\ login \in LoginState /\ AppOK(app, sessions)
      /\ UNCHANGED <<url, refresh, sessions, acts>> /\ Final(s) /\ acts \in 0..MaxActs
  BY DEF Settle, SessionIInv
<1>2. Idled(s) \in LoginState /\ AppOK(LoggedOut, sessions) /\ LoggedOut.status \in LoginStates
  BY <1>1, IdledOK, LoggedOutOK
<1>3. CASE SettleWorkspace(s)
  <2>1. PICK t : t = TRUE
    OBVIOUS
  <2>2. app' = app \/ app' = [app EXCEPT !.tenants = t]
    BY <1>3, <2>1, Zenon DEF SettleWorkspace
  <2>3. AppOK(app', sessions) /\ app'.token = app.token
    <3>1. CASE app' = [app EXCEPT !.tenants = t]
      <4>1. t \in BOOLEAN
        BY <2>1, Zenon
      <4>2. app' \in AppState /\ app'.token = app.token /\ app'.tenant = app.tenant
            /\ app'.status = app.status /\ app'.selection = app.selection
        BY <1>1, <3>1, <4>1 DEF AppOK, AppState
      <4> QED BY <1>1, <4>2 DEF AppOK
    <3> QED BY <1>1, <2>2, <3>1
  <2>4. RequestsOK(reqs', sessions)
    BY <1>3, FreedOK DEF SettleWorkspace
  <2> QED BY <1>1, <1>3, <2>3, <2>4 DEF SessionIInv, SettleWorkspace
<1>4. CASE SettleSwitch(s)
  <2>1. CASE reqs[s].ans = "ok"
    <3>1. BringsSession(reqs[s])
      BY <1>1, <1>4, <2>1 DEF BringsSession, Final, SettleSwitch
    <3>2. Commit(LoginSucceeded(reqs[s].got), reqs[s].got, login, Freed(s)) /\ SetCookie(s)
      BY <1>4, <2>1 DEF SettleSwitch, SwitchHeader
    <3> QED BY <1>1, <3>1, <3>2, SignedInKeeps
  <2>2. CASE reqs[s].ans # "ok"
    BY <1>1, <1>4, <2>2, EndedKeeps DEF SettleSwitch
  <2> QED BY <2>1, <2>2
<1>5. CASE SettleSelect(s)
  <2>1. CASE reqs[s].ans = "ok"
    <3>1. BringsSession(reqs[s])
      BY <1>1, <1>5, <2>1 DEF BringsSession, Final, SettleSelect
    <3>2. SignIn(s, Idled(s))
      BY <1>5, <2>1 DEF SettleSelect
    <3> QED BY <1>1, <1>2, <3>1, <3>2, SignInKeeps
  <2>2. CASE reqs[s].ans # "ok"
    BY <1>1, <1>2, <1>5, <2>2, EndedKeeps DEF SettleSelect
  <2> QED BY <2>1, <2>2
<1>6. CASE SettleSignIn(s)
  <2>1. CASE AuthCompleted(s)
    BY <1>1, <1>6, <2>1, AuthCompletedKeeps DEF SettleSignIn, SignInOps
  <2>2. CASE /\ Commit(LoggedOut, 0, [Idled(s) EXCEPT !.preferred = IF reqs[s].orphan THEN @ ELSE NoTenant],
                       Freed(s))
             /\ UNCHANGED cookie
    <3>1. PICK p : p = IF reqs[s].orphan THEN Idled(s).preferred ELSE NoTenant
      OBVIOUS
    <3>2. p \in Tenants \cup {NoTenant}
      BY <1>2, <3>1, SMTT(60) DEF LoginState
    <3>3. [Idled(s) EXCEPT !.preferred = p] \in LoginState
      BY <1>2, <3>2, LoginSetOK
    <3>4. Commit(LoggedOut, 0, [Idled(s) EXCEPT !.preferred = p], Freed(s))
      BY <2>2, <3>1, Zenon
    <3> QED BY <1>1, <1>2, <2>2, <3>3, <3>4, LeftKeeps
  <2> QED BY <1>6, <2>1, <2>2 DEF SettleSignIn
<1>7. CASE SettleSignup(s)
  <2>1. CASE AuthCompleted(s)
    BY <1>1, <1>7, <2>1, AuthCompletedKeeps DEF SettleSignup, SignInOps
  <2>2. CASE reqs' = Freed(s) /\ login' = Idled(s) /\ UNCHANGED <<app, header, cookie>>
    BY <1>1, <1>2, <2>2, EndedKeeps
  <2> QED BY <1>7, <2>1, <2>2 DEF SettleSignup
<1>8. CASE SettleStart(s)
  <2>1. CASE reqs' = [reqs EXCEPT ![s].phase = "prompt"] /\ UNCHANGED <<app, header, login>>
    <3>1. RequestOK(reqs[s], sessions) /\ reqs[s] \in Request
      BY RequestHere
    <3>2. PICK w : w = [reqs[s] EXCEPT !.phase = "prompt"]
      OBVIOUS
    <3>3. /\ w \in Request /\ w.op = reqs[s].op /\ w.arg = reqs[s].arg /\ w.auth = reqs[s].auth
          /\ w.phase = "prompt" /\ w.got = reqs[s].got
      BY <3>1, <3>2 DEF Request
    <3>4. RequestOK(w, sessions)
      BY <3>1, <3>3 DEF RequestOK, FirstTry, BringsSession
    <3>5. reqs' = [reqs EXCEPT ![s] = w]
      BY <2>1, <3>2 DEF SessionIInv, RequestsOK
    <3>6. RequestsOK(reqs', sessions)
      BY <3>4, <3>5, PutOK DEF SessionIInv
    <3> QED BY <1>1, <1>8, <2>1, <3>6, RequestStepKeeps DEF SettleStart
  <2>2. CASE Commit(LoggedOut, 0, Idled(s), Freed(s))
    BY <1>1, <1>2, <1>8, <2>2, LeftKeeps DEF SettleStart
  <2>3. CASE reqs' = Freed(s) /\ login' = Idled(s) /\ UNCHANGED <<app, header>>
    BY <1>1, <1>2, <1>8, <2>3, EndedKeeps DEF SettleStart
  <2> QED BY <1>8, <2>1, <2>2, <2>3 DEF SettleStart
<1>9. CASE SettleLogout(s)
  <2>1. Len(sessions) \in Nat
    BY <1>1, LenProperties DEF SessionsOK
  <2>2. IssuedOrNone(cookie', sessions)
    BY <1>1, <1>9, <2>1 DEF SettleLogout, IssuedOrNone
  <2> QED BY <1>1, <1>2, <1>9, <2>2, LeftKeeps DEF SettleLogout
<1> QED BY <1>3, <1>4, <1>5, <1>6, <1>7, <1>8, <1>9 DEF Settle

\* The browser's prompt.
LEMMA PromptKeeps ==
    ASSUME SessionIInv, NEW s \in Slots, ConfirmPrompt(s) \/ CancelPrompt(s)
    PROVE  SessionIInv'
<1>1. /\ SessionsOK(sessions) /\ Len(sessions) \in Nat /\ login \in LoginState /\ acts \in 0..MaxActs
      /\ reqs[s].orphan \in BOOLEAN
  BY LenProperties, RequestHere DEF SessionIInv, SessionsOK, Request
<1>2. CASE ConfirmPrompt(s)
  <2>1. PICK op, o : /\ op = (IF reqs[s].op = "passkeyStart" THEN "passkey" ELSE "signup")
                     /\ o = reqs[s].orphan
    BY Zenon
  <2>2. PICK q : q = Sent(op, NoTenant, 0)
    OBVIOUS
  <2>3. PICK w : w = [q EXCEPT !.orphan = o]
    OBVIOUS
  <2>4. reqs' = [reqs EXCEPT ![s] = w]
    BY <1>2, <2>1, <2>2, <2>3, Zenon DEF ConfirmPrompt
  <2>5. RequestOK(q, sessions)
    <3>1. op \in AppOps \cup LoginOps /\ op # "data"
      BY <2>1 DEF LoginOps, SignInOps
    <3>2. IssuedOrNone(0, sessions)
      BY <1>1 DEF IssuedOrNone
    <3> QED BY <1>1, <2>2, <3>1, <3>2, SentOK
  <2>6. PICK f1, f2, f3, f4, f5, f6, f7, f8 :
          q = [op |-> f1, arg |-> f2, auth |-> f3, retried |-> f4, phase |-> f5, ans |-> f6, got |-> f7, orphan |-> f8]
    BY <2>5 DEF RequestOK, Request
  <2>7. w = [op |-> f1, arg |-> f2, auth |-> f3, retried |-> f4, phase |-> f5, ans |-> f6, got |-> f7, orphan |-> o]
    BY <2>3, <2>6
  <2>8. w \in Request
    BY <1>1, <2>1, <2>5, <2>6, <2>7 DEF RequestOK, Request
  <2>9. /\ w.op = q.op /\ w.arg = q.arg /\ w.auth = q.auth /\ w.retried = q.retried
        /\ w.phase = q.phase /\ w.ans = q.ans /\ w.got = q.got
    BY <2>6, <2>7
  <2>10. RequestOK(w, sessions)
    <3>1. q.op # "data"
      BY <2>1, <2>2, SentShape DEF SignInOps
    <3> QED BY <2>5, <2>8, <2>9, <3>1 DEF RequestOK, FirstTry, BringsSession
  <2>11. RequestsOK(reqs', sessions)
    BY <2>4, <2>10, PutOK DEF SessionIInv
  <2> QED BY <1>1, <1>2, <2>11, RequestStepKeeps DEF ConfirmPrompt
<1>3. CASE CancelPrompt(s)
  BY <1>3, IdledOK, EndedKeeps DEF CancelPrompt
<1> QED BY <1>2, <1>3

\* --- another tab -------------------------------------------------------------------------
LEMMA OtherTabKeeps ==
    ASSUME SessionIInv, OtherTabRefreshes \/ \E t \in Tenants : OtherTabSwitches(t)
    PROVE  SessionIInv'
<1>1. /\ SessionsOK(sessions) /\ Len(sessions) \in Nat /\ IssuedOrNone(cookie, sessions)
      /\ RequestsOK(reqs, sessions) /\ RefreshOK(refresh, sessions)
  BY LenProperties DEF SessionIInv, SessionsOK
<1>2. acts' \in 0..MaxActs
  BY ActsCounted DEF OtherTabRefreshes, OtherTabSwitches
<1>3. SessionsOK(sessions') /\ MoreSessions(sessions, sessions') /\ Issued(Len(sessions) + 1, sessions')
  <2>1. CASE OtherTabRefreshes
    <3>1. Issued(cookie, sessions)
      BY <1>1, <2>1 DEF OtherTabRefreshes, Issued, IssuedOrNone
    <3> QED BY <1>1, <2>1, <3>1, SessionReplaced DEF OtherTabRefreshes
  <2>2. ASSUME NEW t \in Tenants, OtherTabSwitches(t)
        PROVE  SessionsOK(sessions') /\ MoreSessions(sessions, sessions') /\ Issued(Len(sessions) + 1, sessions')
    BY <1>1, <2>2, SessionIssued DEF OtherTabSwitches, Issue
  <2> QED BY <2>1, <2>2
<1>4. cookie' = Len(sessions) + 1 /\ UNCHANGED <<app, header, login, url, reqs, refresh>>
  BY DEF OtherTabRefreshes, OtherTabSwitches
<1>5. IssuedOrNone(cookie', sessions')
  BY <1>1, <1>3, <1>4 DEF Issued, IssuedOrNone
<1>6. RequestsOK(reqs, sessions') /\ RefreshOK(refresh, sessions')
  BY <1>1, <1>3, RequestsOutlive
<1> QED BY <1>2, <1>3, <1>4, <1>5, <1>6, SessionsMove

-----------------------------------------------------------------------------
LEMMA SessionIInvStep == SessionIInv /\ [SessionNext]_sessionVars => SessionIInv'
<1> SUFFICES ASSUME SessionIInv, [SessionNext]_sessionVars PROVE SessionIInv'
  OBVIOUS
<1>1. CASE SubmitMagicToken \/ AutoMagicLogin \/ PasskeyLogin \/ Signup
  BY <1>1, LoginKeeps
<1>2. CASE AutoSelectPreferred \/ CancelSelection \/ \E t \in Tenants : SelectTenant(t)
  BY <1>2, SelectionKeeps
<1>3. CASE UseWorkspace \/ RefreshTenantList \/ Logout \/ \E t \in Tenants : SwitchTenant(t)
  BY <1>3, ApplicationKeeps
<1>4. CASE LoadPage(FALSE, NoTenant) \/ \E p \in LinkTenants \cup {NoTenant} : LoadPage(TRUE, p)
  BY <1>4, LoadPageKeeps, SessionConstants
<1>5. CASE \E s \in Slots : Serve(s) \/ Unauthorized(s) \/ Settle(s) \/ ConfirmPrompt(s) \/ CancelPrompt(s)
  BY <1>5, ServeKeeps, UnauthorizedKeeps, SettleKeeps, PromptKeeps
<1>6. CASE RefreshRead \/ RefreshRotate \/ RefreshSettles
  BY <1>6, RefreshReadKeeps, RefreshRotateKeeps, RefreshSettlesKeeps
<1>7. CASE OtherTabRefreshes \/ \E t \in Tenants : OtherTabSwitches(t)
  BY <1>7, OtherTabKeeps
<1>8. CASE UNCHANGED sessionVars
  BY <1>8 DEF sessionVars, SessionIInv
<1> QED BY <1>1, <1>2, <1>3, <1>4, <1>5, <1>6, <1>7, <1>8 DEF SessionNext

\* What every reachable state of the session satisfies: the records above hold of
\* the application, the handlers, the refresh and the sessions of the server
\* (appState.tsx, apiClient.ts, LoginRoute.tsx, useTenantManager.ts).
THEOREM SessionIInvHolds == SessionSpec => []SessionIInv
BY SessionIInvInit, SessionIInvStep, PTL DEF SessionSpec

\* A state with the invariant is well formed.
LEMMA SessionIInvIsTyped == SessionIInv => SessionTypeOK
<1> SUFFICES ASSUME SessionIInv PROVE SessionTypeOK
  OBVIOUS
<1>1. /\ SessionsOK(sessions) /\ AppOK(app, sessions) /\ Len(sessions) \in Nat /\ Len(sessions) <= MaxSessions
      /\ MaxSessions \in Nat
  BY LenProperties, SessionConstants DEF SessionIInv, SessionsOK
<1>2. app \in [status: LoginStates \cup {"authenticated"}, token: 0..Len(sessions),
               tenant: Tenants \cup {NoTenant}, selection: BOOLEAN, tenants: BOOLEAN]
  BY <1>1 DEF AppOK, AppState, IssuedOrNone
<1>3. header = app.token /\ url \in BOOLEAN /\ acts \in 0..MaxActs /\ cookie \in 0..Len(sessions)
  BY DEF SessionIInv, IssuedOrNone
<1>4. login \in [action: {"idle", "magic", "passkey", "signup", "tenant"},
                 attempted: BOOLEAN, preferred: Tenants \cup {NoTenant}]
  BY DEF SessionIInv, LoginState
<1>5. sessions \in Seq([tenant: Tenants, live: BOOLEAN])
  BY <1>1 DEF SessionsOK, Session
<1>6. \A i : IssuedOrNone(i, sessions) => i \in SessionIds
  BY <1>1 DEF IssuedOrNone, SessionIds
<1>7. ASSUME NEW s \in Slots
      PROVE  reqs[s] \in [op: AppOps \cup LoginOps \cup {"none"}, arg: Tenants \cup {NoTenant},
                          auth: {Selector} \cup SessionIds, retried: BOOLEAN,
                          phase: {"none", "sent", "answered", "waiting", "prompt"},
                          ans: {"none", "ok", "selection", "unauthorized", "error"},
                          got: SessionIds, orphan: BOOLEAN]
  <2>1. RequestOK(reqs[s], sessions) /\ reqs[s] \in Request
    BY RequestHere
  <2>2. reqs[s].auth \in {Selector} \cup SessionIds /\ reqs[s].got \in SessionIds
    BY <1>6, <2>1 DEF RequestOK
  <2> HIDE DEF SessionIds
  <2> QED BY <2>1, <2>2 DEF Request
<1>8. reqs \in [Slots -> [op: AppOps \cup LoginOps \cup {"none"}, arg: Tenants \cup {NoTenant},
                          auth: {Selector} \cup SessionIds, retried: BOOLEAN,
                          phase: {"none", "sent", "answered", "waiting", "prompt"},
                          ans: {"none", "ok", "selection", "unauthorized", "error"},
                          got: SessionIds, orphan: BOOLEAN]]
  <2>1. reqs = [s \in Slots |-> reqs[s]]
    BY DEF SessionIInv, RequestsOK
  <2> QED BY <1>7, <2>1, Zenon
<1>9. refresh \in [phase: {"none", "sent", "read", "answered"}, cookie: SessionIds, got: SessionIds]
  BY <1>6 DEF SessionIInv, RefreshOK
<1> QED BY <1>1, <1>2, <1>3, <1>4, <1>5, <1>8, <1>9 DEF SessionTypeOK

\* The shape of the state, for any number of tenants, sessions and handlers: a
\* token, a cookie and an answer only ever name a session that was issued, and
\* the default header is the token's (appState.tsx, apiClient.ts).
THEOREM SessionTyped == SessionSpec => []SessionTypeOK
<1>1. SessionIInv => SessionTypeOK
  BY SessionIInvIsTyped
<1> QED BY <1>1, SessionIInvHolds, PTL

\* A state with the invariant is consistent.
LEMMA SessionIInvIsConsistent == SessionIInv => SessionIsConsistent
<1> SUFFICES ASSUME SessionIInv PROVE SessionIsConsistent
  OBVIOUS
<1>1. AppOK(app, sessions) /\ Len(sessions) \in Nat
  BY LenProperties DEF SessionIInv, SessionsOK
<1>2. TenantMatchesToken /\ SelectionIsExclusive
  BY <1>1 DEF AppOK, ActsIn, Issued, TenantMatchesToken, SelectionIsExclusive
<1>3. RequestsCarryTheirTenant
  BY RequestHere DEF RequestOK, FirstTry, ActsIn, TriedFirst, CarriesItsTenant, RequestsCarryTheirTenant
<1> QED BY <1>2, <1>3 DEF SessionIsConsistent

\* The tenant shown is the tenant the token acts in, the first try of a
\* workspace's request carries a token of the workspace's tenant, and a tenant
\* selection is only offered without a token, whatever mix of sign-ins, switches,
\* refreshes, reloads and other tabs led there (appState.tsx:93-164,
\* useTenantManager.ts:57-66, apiClient.ts:302-348).  The one workspace left out of
\* it is one mounted over another by a sign-in answered late (LoginRoute.tsx:105-109).
THEOREM SessionConsistent == SessionSpec => []SessionIsConsistent
<1>1. SessionIInv => SessionIsConsistent
  BY SessionIInvIsConsistent
<1> QED BY <1>1, SessionIInvHolds, PTL

(***************************************************************************)
(* The documents: search results and listings answer the question in       *)
(* force, and no document leaves the cache before the server accepted what *)
(* was asked of it.                                                        *)
(***************************************************************************)

-----------------------------------------------------------------------------
(* The strengthening: what a handler keeps while it awaits the server.     *)

Keys == {<<>>} \cup (Nodes \X Orders) \cup (Queries \X Nodes \X Orders)
Entry == [folder: Places, trashed: BOOLEAN, known: BOOLEAN]
CallRecord ==
  [op: DocumentOps \cup {None}, key: Keys, docs: SUBSET Docs, todo: SUBSET Docs, bulk: SUBSET Docs,
   leaves: SUBSET Docs, accepted: SUBSET Docs, to: Nodes \cup {None},
   stage: {"free", "timer", "sent", "answered"}, live: BOOLEAN, failed: BOOLEAN, told: [Docs -> Entry]]

Stored == [folder: Places, state: {"live", "trashed", "purging", "gone"}]
Screens == [folder: Nodes, order: Orders, ids: SUBSET Docs, of: Keys \cup {None}, sel: SUBSET Docs]
SearchStates == [query: Queries \cup {None}, results: (SUBSET Docs) \cup {None},
                 of: Keys \cup {None}, loading: BOOLEAN]

\* Only a move names a folder, and only a move ends with a bulk request. Until a
\* request is refused, what will leave the cache has been accepted by the server
\* or is still asked of it.
Handler == {q \in CallRecord : /\ q.op = "move" => q.to \in Places
                               /\ q.bulk # {} => q.op = "move"
                               /\ ~q.failed => q.leaves \subseteq q.accepted \cup q.todo \cup q.bulk}

DocumentTypes ==
  /\ stored \in [Docs -> Stored]
  /\ cache \in [Docs -> Entry]
  /\ screen \in Screens
  /\ search \in SearchStates
  /\ calls \in [Slot -> Handler]

\* A search that is still live asks what is in force; so does a listing.
SearchesAsk(cs, se, scr) ==
  \A c \in Slot : cs[c].op = "search" /\ cs[c].live => cs[c].key = SearchKey(se.query, scr)
ListingsAsk(cs, scr) ==
  \A c \in Slot : cs[c].op = "list" /\ cs[c].live => cs[c].key = ListKey(scr)

\* A search shown as loading has a handler that will end it.
LoadingIsAwaited == search.loading => \E c \in Slot : calls[c].op = "search" /\ calls[c].live

DocumentInv ==
  /\ DocumentTypes
  /\ SearchesAsk(calls, search, screen)
  /\ ListingsAsk(calls, screen)
  /\ LoadingIsAwaited
  /\ SearchResultsAreCurrent

-----------------------------------------------------------------------------
(* Records of calls.                                                       *)

\* Nothing is known before the server told it.
LEMMA NothingTyped == Nothing \in [Docs -> Entry]
  BY DocumentConstants DEF Nothing, NoDoc, Entry

\* A free slot is a handler that does nothing.
LEMMA FreeTyped ==
  /\ Free \in Handler
  /\ Free.op = None /\ Free.bulk = {} /\ Free.key = <<>> /\ Free.live /\ Free.leaves = {}
  /\ \A op \in DocumentOps : Free.op # op
<1>1. Free \in CallRecord
  BY NothingTyped DEF Free, CallRecord, Keys
<1>2. Free.op = None /\ Free.bulk = {} /\ Free.key = <<>> /\ Free.live /\ Free.leaves = {}
  BY DEF Free
<1>3. \A op \in DocumentOps : None # op
  BY DocumentConstants
<1>4. QED
  BY <1>1, <1>2, <1>3 DEF Handler, DocumentOps

\* The keys a listing and a search carry.
LEMMA KeysTyped ==
  ASSUME NEW scr \in Screens,
         NEW q \in Queries
  PROVE  ListKey(scr) \in Keys /\ SearchKey(q, scr) \in Keys
  BY DEF ListKey, SearchKey, Keys, Screens

\* No search is a state of the search.
LEMMA NoSearchTyped ==
  [query |-> None, results |-> None, of |-> None, loading |-> FALSE] \in SearchStates
  BY DEF SearchStates

\* A new listing, manual or not, is about the screen it is for.
LEMMA NewListTyped ==
  ASSUME NEW scr \in Screens,
         NEW op \in {"list", "refresh"}
  PROVE  /\ NewList(op, scr) \in Handler
         /\ NewList(op, scr).op = op /\ NewList(op, scr).key = ListKey(scr)
<1>1. ListKey(scr) \in Keys
  BY DEF ListKey, Keys, Screens
<1>2. QED
  BY <1>1, FreeTyped DEF NewList, Handler, CallRecord, DocumentOps

\* A new call takes a slot that was free and leaves the others.
LEMMA CallTakesFree ==
  ASSUME NEW cs \in [Slot -> Handler], NEW q \in Handler, FreeCalls(cs) # {}
  PROVE  /\ Call(cs, q) \in [Slot -> Handler]
         /\ \E c \in Slot : /\ cs[c].op = None /\ Call(cs, q)[c] = q
                            /\ \A b \in Slot \ {c} : Call(cs, q)[b] = cs[b]
<1>1. PICK c \in Slot : c = (CHOOSE d \in FreeCalls(cs) : TRUE) /\ cs[c].op = None
  BY DEF FreeCalls
<1>2. Call(cs, q) = [cs EXCEPT ![c] = q]
  BY <1>1 DEF Call
<1>3. QED
  BY <1>1, <1>2

\* After the cleanup of an effect none of its calls is live; the others are as they were.
LEMMA StaleKeepsOthers ==
  ASSUME NEW cs \in [Slot -> Handler], NEW op \in {"list", "search"}
  PROVE  /\ Stale(cs, op) \in [Slot -> Handler]
         /\ \A c \in Slot : /\ cs[c].op # op => Stale(cs, op)[c] = cs[c]
                            /\ Stale(cs, op)[c].op = op => ~Stale(cs, op)[c].live
                            /\ Stale(cs, op)[c].op \in {cs[c].op, None}
<1>1. SUFFICES ASSUME NEW c \in Slot
               PROVE  /\ Stale(cs, op)[c] \in Handler
                      /\ cs[c].op # op => Stale(cs, op)[c] = cs[c]
                      /\ Stale(cs, op)[c].op = op => ~Stale(cs, op)[c].live
                      /\ Stale(cs, op)[c].op \in {cs[c].op, None}
  BY DEF Stale
<1>2. cs[c] \in Handler
  OBVIOUS
<1>3. CASE cs[c].op # op
  BY <1>2, <1>3 DEF Stale
<1>4. CASE cs[c].op = op /\ cs[c].stage = "timer"
  <2>1. Stale(cs, op)[c] = Free
    BY <1>4 DEF Stale
  <2>2. op \in DocumentOps
    BY DEF DocumentOps
  <2>3. QED
    BY <1>4, <2>1, <2>2, FreeTyped
<1>5. CASE cs[c].op = op /\ cs[c].stage # "timer"
  <2>1. Stale(cs, op)[c] = [cs[c] EXCEPT !.live = FALSE]
    BY <1>5 DEF Stale
  <2>2. QED
    BY <1>2, <1>5, <2>1 DEF Handler, CallRecord
<1>6. QED
  BY <1>3, <1>4, <1>5

-----------------------------------------------------------------------------
(* Steps by what they do to the calls.                                     *)

\* The invariant reads the folder and the order of the screen only.
SameQuestion == screen'.folder = screen.folder /\ screen'.order = screen.order

\* A question is the same when the screen keeps its folder and its order.
LEMMA SameKeys ==
  ASSUME SameQuestion
  PROVE  /\ ListKey(screen') = ListKey(screen)
         /\ \A q : SearchKey(q, screen') = SearchKey(q, screen)
  BY DEF SameQuestion, ListKey, SearchKey

\* A call that goes on with its question keeps the invariant.
LEMMA CallGoesOn ==
  ASSUME DocumentInv, NEW c \in Slot, NEW q \in Handler,
         q.op = calls[c].op, q.key = calls[c].key, q.live = calls[c].live,
         calls' = [calls EXCEPT ![c] = q],
         stored' \in [Docs -> Stored], UNCHANGED <<cache, screen, search>>
  PROVE  DocumentInv'
<1>1. /\ calls' \in [Slot -> Handler]
      /\ \A b \in Slot : /\ calls'[b].op = calls[b].op
                         /\ calls'[b].key = calls[b].key
                         /\ calls'[b].live = calls[b].live
  BY DEF DocumentInv, DocumentTypes
<1>2. DocumentTypes'
  BY <1>1 DEF DocumentInv, DocumentTypes
<1>3. SearchesAsk(calls, search, screen)' /\ ListingsAsk(calls, screen)'
  BY <1>1 DEF DocumentInv, SearchesAsk, ListingsAsk
<1>4. LoadingIsAwaited' /\ SearchResultsAreCurrent'
  BY <1>1 DEF DocumentInv, LoadingIsAwaited, SearchResultsAreCurrent
<1>5. QED
  BY <1>2, <1>3, <1>4 DEF DocumentInv

\* The end of a call that is no search keeps the invariant, whatever it does to
\* the cache, the listing and the selection.
LEMMA CallEnds ==
  ASSUME DocumentInv, NEW c \in Slot, calls[c].op # "search", calls' = Done(c),
         cache' \in [Docs -> Entry], screen' \in Screens, SameQuestion,
         UNCHANGED <<stored, search>>
  PROVE  DocumentInv'
<1>1. /\ calls' \in [Slot -> Handler] /\ calls'[c].op \notin {"search", "list"}
      /\ \A b \in Slot \ {c} : calls'[b] = calls[b]
  BY FreeTyped DEF Done, DocumentInv, DocumentTypes, DocumentOps
<1>2. DocumentTypes'
  BY <1>1 DEF DocumentInv, DocumentTypes
<1>3. SearchesAsk(calls, search, screen)' /\ ListingsAsk(calls, screen)'
  BY <1>1, SameKeys DEF DocumentInv, SearchesAsk, ListingsAsk
<1>4. LoadingIsAwaited'
  <2>1. SUFFICES ASSUME search.loading PROVE \E b \in Slot : calls'[b].op = "search" /\ calls'[b].live
    BY DEF LoadingIsAwaited
  <2>2. PICK b \in Slot : calls[b].op = "search" /\ calls[b].live
    BY <2>1 DEF DocumentInv, LoadingIsAwaited
  <2>3. QED
    BY <1>1, <2>2
<1>5. SearchResultsAreCurrent'
  BY SameKeys DEF DocumentInv, SearchResultsAreCurrent
<1>6. QED
  BY <1>2, <1>3, <1>4, <1>5 DEF DocumentInv

\* A new handler that is neither a search nor a listing of an effect keeps the invariant.
LEMMA CallBegins ==
  ASSUME DocumentInv, NEW q \in Handler, q.op \notin {"search", "list"},
         FreeCalls(calls) # {}, calls' = Call(calls, q),
         UNCHANGED <<stored, cache, screen, search>>
  PROVE  DocumentInv'
<1>0. /\ calls' \in [Slot -> Handler]
      /\ \E c \in Slot : /\ calls[c].op = None /\ calls'[c] = q
                         /\ \A b \in Slot \ {c} : calls'[b] = calls[b]
  <2>1. calls \in [Slot -> Handler]
    BY DEF DocumentInv, DocumentTypes
  <2>2. /\ Call(calls, q) \in [Slot -> Handler]
        /\ \E c \in Slot : /\ calls[c].op = None /\ Call(calls, q)[c] = q
                           /\ \A b \in Slot \ {c} : Call(calls, q)[b] = calls[b]
    BY <2>1, CallTakesFree
  <2>3. QED
    BY <2>2
<1>1. PICK c \in Slot : /\ calls' \in [Slot -> Handler]
                        /\ calls[c].op = None /\ calls'[c] = q
                        /\ \A b \in Slot \ {c} : calls'[b] = calls[b]
  BY <1>0
<1>2. DocumentTypes'
  BY <1>1 DEF DocumentInv, DocumentTypes
<1>3. SearchesAsk(calls, search, screen)' /\ ListingsAsk(calls, screen)'
  BY <1>1 DEF DocumentInv, SearchesAsk, ListingsAsk
<1>4. LoadingIsAwaited'
  <2>1. SUFFICES ASSUME search.loading PROVE \E b \in Slot : calls'[b].op = "search" /\ calls'[b].live
    BY DEF LoadingIsAwaited
  <2>2. PICK b \in Slot : calls[b].op = "search" /\ calls[b].live
    BY <2>1 DEF DocumentInv, LoadingIsAwaited
  <2>3. b # c
    BY <1>1, <2>2, DocumentConstants DEF DocumentOps
  <2>4. QED
    BY <1>1, <2>2, <2>3
<1>5. SearchResultsAreCurrent'
  BY DEF DocumentInv, SearchResultsAreCurrent
<1>6. QED
  BY <1>2, <1>3, <1>4, <1>5 DEF DocumentInv

\* The search effect leaves one live search, of the query and screen in force,
\* or none; results of another question are shown as loading or not at all.
LEMMA EffectAsks ==
  ASSUME DocumentInv, NEW q \in Queries \cup {None}, NEW scr \in Screens,
         NEW cs \in [Slot -> Handler], ListingsAsk(cs, scr), SearchEffect(q, scr, cs),
         screen' = scr, UNCHANGED <<stored, cache>>
  PROVE  DocumentInv'
<1> DEFINE cancelled == Stale(cs, "search")
<1>1. /\ cancelled \in [Slot -> Handler]
      /\ \A c \in Slot : /\ cs[c].op # "search" => cancelled[c] = cs[c]
                         /\ cancelled[c].op = "search" => ~cancelled[c].live
                         /\ cancelled[c].op \in {cs[c].op, None}
  BY StaleKeepsOthers
<1>2. ListingsAsk(cancelled, scr)
  <2>1. \A c \in Slot : cancelled[c].op = "list" => cancelled[c] = cs[c]
    BY <1>1, DocumentConstants DEF DocumentOps
  <2>2. QED
    BY <2>1 DEF ListingsAsk
<1> HIDE DEF cancelled
<1>3. CASE q = None
  <2>1. search' = [query |-> None, results |-> None, of |-> None, loading |-> FALSE] /\ calls' = cancelled
    BY <1>3 DEF SearchEffect, cancelled
  <2>2. search' \in SearchStates /\ search'.results = None /\ search'.loading = FALSE
    <3>1. search'.results = None /\ search'.loading = FALSE
      BY <2>1, Zenon
    <3>2. search' \in SearchStates
      BY <2>1, NoSearchTyped, Zenon
    <3>3. QED
      BY <3>1, <3>2
  <2>3. DocumentTypes'
    BY <1>1, <2>1, <2>2 DEF DocumentInv, DocumentTypes
  <2>4. SearchesAsk(calls, search, screen)' /\ ListingsAsk(calls, screen)'
    BY <1>1, <1>2, <2>1 DEF SearchesAsk, ListingsAsk
  <2>5. LoadingIsAwaited' /\ SearchResultsAreCurrent'
    BY <2>2 DEF LoadingIsAwaited, SearchResultsAreCurrent
  <2>6. QED
    BY <2>3, <2>4, <2>5 DEF DocumentInv
<1>4. CASE q # None
  <2> DEFINE timer == [Free EXCEPT !.op = "search", !.key = SearchKey(q, scr), !.stage = "timer"]
  <2>1. /\ FreeCalls(cancelled) # {} /\ calls' = Call(cancelled, timer)
        /\ search' = [search EXCEPT !.query = q, !.loading = TRUE]
    BY <1>4 DEF SearchEffect, cancelled
  <2>2. /\ timer \in Handler
        /\ timer.op = "search" /\ timer.live /\ timer.key = SearchKey(q, scr)
    <3>1. SearchKey(q, scr) \in Keys
      BY <1>4, KeysTyped
    <3>2. QED
      BY <3>1, FreeTyped DEF Handler, CallRecord, DocumentOps
  <2> HIDE DEF timer
  <2>3. PICK c \in Slot : /\ calls' \in [Slot -> Handler] /\ calls'[c] = timer
                          /\ \A b \in Slot \ {c} : calls'[b] = cancelled[b]
    <3>1. /\ Call(cancelled, timer) \in [Slot -> Handler]
          /\ \E c \in Slot : /\ cancelled[c].op = None /\ Call(cancelled, timer)[c] = timer
                             /\ \A b \in Slot \ {c} : Call(cancelled, timer)[b] = cancelled[b]
      BY <1>1, <2>1, <2>2, CallTakesFree
    <3>2. QED
      BY <2>1, <3>1
  <2>4. search' \in SearchStates /\ search'.query = q /\ search'.loading
    BY <2>1 DEF DocumentInv, DocumentTypes, SearchStates
  <2>5. DocumentTypes'
    BY <2>3, <2>4 DEF DocumentInv, DocumentTypes
  <2>6. SearchesAsk(calls, search, screen)' /\ ListingsAsk(calls, screen)'
    BY <1>1, <1>2, <2>2, <2>3, <2>4 DEF SearchesAsk, ListingsAsk
  <2>7. LoadingIsAwaited' /\ SearchResultsAreCurrent'
    BY <2>2, <2>3, <2>4 DEF LoadingIsAwaited, SearchResultsAreCurrent
  <2>8. QED
    BY <2>5, <2>6, <2>7 DEF DocumentInv
<1>5. QED
  BY <1>3, <1>4

\* A step that starts and ends no call and keeps the question keeps the invariant.
LEMMA NothingAsked ==
  ASSUME DocumentInv, stored' \in [Docs -> Stored], cache' \in [Docs -> Entry],
         screen' \in Screens, SameQuestion, UNCHANGED <<search, calls>>
  PROVE  DocumentInv'
<1>1. DocumentTypes'
  BY DEF DocumentInv, DocumentTypes
<1>2. SearchesAsk(calls, search, screen)' /\ ListingsAsk(calls, screen)'
  BY SameKeys DEF DocumentInv, SearchesAsk, ListingsAsk
<1>3. LoadingIsAwaited' /\ SearchResultsAreCurrent'
  BY SameKeys DEF DocumentInv, LoadingIsAwaited, SearchResultsAreCurrent
<1>4. QED
  BY <1>1, <1>2, <1>3 DEF DocumentInv

\* Looking at another folder, or in another order, drops the listings of the
\* screen before, asks for one of the new screen, and searches again.
LEMMA LookAsks ==
  ASSUME DocumentInv, NEW scr \in Screens, Look(scr), UNCHANGED <<stored, cache>>
  PROVE  DocumentInv'
<1> DEFINE listed == Stale(calls, "list")
           asked == Call(listed, NewList("list", scr))
<1>1. /\ FreeCalls(listed) # {} /\ screen' = scr
      /\ SearchEffect(search.query, scr, asked)
  BY DEF Look
<1>2. calls \in [Slot -> Handler] /\ search.query \in Queries \cup {None}
  BY DEF DocumentInv, DocumentTypes, SearchStates
<1>3. /\ listed \in [Slot -> Handler]
      /\ \A c \in Slot : listed[c].op = "list" => ~listed[c].live
  BY <1>2, StaleKeepsOthers
<1>4. /\ NewList("list", scr) \in Handler
      /\ NewList("list", scr).key = ListKey(scr)
  BY NewListTyped
<1> HIDE DEF listed
<1>5. /\ asked \in [Slot -> Handler]
      /\ \E c \in Slot : /\ listed[c].op = None /\ asked[c] = NewList("list", scr)
                         /\ \A b \in Slot \ {c} : asked[b] = listed[b]
  BY SMTT(60), <1>1, <1>3, <1>4, CallTakesFree
<1> HIDE DEF asked
<1>6. ListingsAsk(asked, scr)
  BY <1>3, <1>4, <1>5 DEF ListingsAsk
<1>7. QED
  BY <1>1, <1>2, <1>5, <1>6, EffectAsks

\* An operation on documents begins.
LEMMA OperationBegins ==
  ASSUME DocumentInv, NEW op \in DocumentOps \ {"list", "search"},
         NEW ds \in SUBSET Docs, NEW todo \in SUBSET Docs, NEW bulk \in SUBSET Docs,
         NEW to \in Nodes \cup {None}, op = "move" => to \in Places, bulk # {} => op = "move",
         Begin(op, ds, todo, bulk, to)
  PROVE  DocumentInv'
<1>0. PICK told, leaves : told = (IF op = "restore" THEN cache ELSE Free.told) /\ leaves = todo \cup bulk
  OBVIOUS
<1> DEFINE q == [Free EXCEPT !.op = op, !.docs = ds, !.todo = todo, !.bulk = bulk,
                             !.leaves = leaves, !.to = to, !.stage = "sent", !.told = told]
<1>1. q \in CallRecord /\ q.op = op /\ q.to = to /\ q.bulk = bulk /\ q.todo = todo /\ q.leaves = leaves
  <2>1. told \in [Docs -> Entry] /\ leaves \in SUBSET Docs
    BY <1>0, FreeTyped DEF DocumentInv, DocumentTypes, Handler, CallRecord
  <2>2. QED
    BY <2>1, FreeTyped DEF Handler, CallRecord
<1>2. FreeCalls(calls) # {} /\ calls' = Call(calls, q) /\ UNCHANGED <<stored, cache, screen, search>>
  BY <1>0 DEF Begin
<1> HIDE DEF q
<1>3. q \in Handler
  BY <1>0, <1>1 DEF Handler
<1>4. q.op \notin {"search", "list"}
  BY <1>1
<1>5. QED
  BY <1>2, <1>3, <1>4, CallBegins

-----------------------------------------------------------------------------
(* The answers.                                                            *)

\* What an answer told is an entry of the cache.
LEMMA IngestTyped ==
  ASSUME DocumentInv, NEW c \in Slot
  PROVE  /\ Ingest(calls[c].told) \in [Docs -> Entry] /\ FoundBy(c) \in SUBSET Docs
         /\ calls[c].key \in Keys
  BY DEF DocumentInv, DocumentTypes, Handler, CallRecord, Ingest, FoundBy

\* Documents leave the cache.
LEMMA RemoveTyped ==
  ASSUME DocumentInv, NEW ds
  PROVE  Remove(ds) \in [Docs -> Entry]
  BY DocumentConstants DEF DocumentInv, DocumentTypes, Remove, NoDoc, Entry

\* The server answers a listing or a search.
LEMMA ServeListKeeps ==
  ASSUME DocumentInv, NEW c \in Slot, ServeList(c)
  PROVE  DocumentInv'
<1>1. calls \in [Slot -> Handler] /\ stored \in [Docs -> Stored]
  BY DEF DocumentInv, DocumentTypes
<1>2. CASE calls' = [calls EXCEPT ![c].stage = "answered", ![c].failed = TRUE]
  <2> DEFINE q == [calls[c] EXCEPT !.stage = "answered", !.failed = TRUE]
  <2>1. q \in Handler /\ q.op = calls[c].op /\ q.key = calls[c].key /\ q.live = calls[c].live
    BY <1>1, ZenonT(60) DEF Handler, CallRecord
  <2>2. calls' = [calls EXCEPT ![c] = q]
    BY <1>1, <1>2
  <2>3. QED
    BY <1>1, <2>1, <2>2, CallGoesOn DEF ServeList
<1>3. ASSUME NEW found,
             calls' = [calls EXCEPT ![c].stage = "answered",
                         ![c].told = [d \in Docs |-> IF d \in found THEN Told(d) ELSE NoDoc]]
      PROVE  DocumentInv'
  <2> DEFINE told == [d \in Docs |-> IF d \in found THEN Told(d) ELSE NoDoc]
             q == [calls[c] EXCEPT !.stage = "answered", !.told = told]
  <2>1. told \in [Docs -> Entry]
    BY <1>1, DocumentConstants DEF Told, NoDoc, Entry, Stored
  <2>2. calls' = [calls EXCEPT ![c] = q]
    BY <1>1, <1>3
  <2> HIDE DEF told
  <2>3. q \in Handler /\ q.op = calls[c].op /\ q.key = calls[c].key /\ q.live = calls[c].live
    BY <1>1, <2>1, ZenonT(60) DEF Handler, CallRecord
  <2>4. QED
    BY <1>1, <2>2, <2>3, CallGoesOn DEF ServeList
<1>4. QED
  BY <1>2, <1>3 DEF ServeList

\* A listing is shown only on the screen it is of; the screen keeps its question.
LEMMA SettleListKeeps ==
  ASSUME DocumentInv, NEW c \in Slot, SettleList(c)
  PROVE  DocumentInv'
<1>1. screen \in Screens /\ cache \in [Docs -> Entry]
  BY DEF DocumentInv, DocumentTypes
<1>2. calls[c].op # "search" /\ calls' = Done(c) /\ UNCHANGED <<stored, search>>
  BY DEF SettleList
<1>3. CASE Accepted(c) /\ Shows(c)
  <2>1. /\ cache' = Ingest(calls[c].told)
        /\ screen' = [screen EXCEPT !.ids = FoundBy(c), !.of = calls[c].key, !.sel = @ \cap FoundBy(c)]
    BY <1>3 DEF SettleList
  <2>2. cache' \in [Docs -> Entry]
    BY <2>1, IngestTyped
  <2>3. screen' \in Screens /\ SameQuestion
    BY <1>1, <2>1, IngestTyped DEF Screens, SameQuestion
  <2>4. QED
    BY <1>2, <2>2, <2>3, CallEnds
<1>4. CASE ~(Accepted(c) /\ Shows(c))
  <2>1. UNCHANGED <<screen, cache>>
    BY <1>4 DEF SettleList
  <2>2. QED
    BY <1>1, <1>2, <2>1, CallEnds DEF SameQuestion
<1>5. QED
  BY <1>3, <1>4

\* The answer of a live search is the answer to the question in force.
LEMMA SettleSearchKeeps ==
  ASSUME DocumentInv, NEW c \in Slot, SettleSearch(c)
  PROVE  DocumentInv'
<1>1. /\ screen \in Screens /\ cache \in [Docs -> Entry] /\ search \in SearchStates
      /\ calls \in [Slot -> Handler] /\ stored' = stored /\ stored \in [Docs -> Stored]
  BY DEF DocumentInv, DocumentTypes, SettleSearch
<1>2. cache' \in [Docs -> Entry] /\ screen' \in Screens /\ SameQuestion
  <2>1. cache' \in [Docs -> Entry]
    BY <1>1, IngestTyped DEF SettleSearch
  <2>2. screen' = screen \/ screen' = [screen EXCEPT !.sel = {}]
    BY DEF SettleSearch
  <2>3. screen' \in Screens /\ SameQuestion
    BY <1>1, <2>2 DEF Screens, SameQuestion
  <2>4. QED
    BY <2>1, <2>3
<1>3. /\ calls' \in [Slot -> Handler] /\ calls'[c].op \notin {"search", "list"}
      /\ \A b \in Slot \ {c} : calls'[b] = calls[b]
  BY <1>1, FreeTyped DEF SettleSearch, Done, DocumentOps
<1>4. CASE ~calls[c].live
  <2>1. search' = search
    BY <1>4 DEF SettleSearch, Results
  <2>2. DocumentTypes'
    BY <1>1, <1>2, <1>3, <2>1 DEF DocumentTypes
  <2>3. SearchesAsk(calls, search, screen)' /\ ListingsAsk(calls, screen)'
    BY <1>2, <1>3, <2>1, SameKeys DEF DocumentInv, SearchesAsk, ListingsAsk
  <2>4. LoadingIsAwaited'
    BY <1>3, <1>4, <2>1 DEF DocumentInv, LoadingIsAwaited
  <2>5. SearchResultsAreCurrent'
    BY <1>2, <2>1, SameKeys DEF DocumentInv, SearchResultsAreCurrent
  <2>6. QED
    BY <2>2, <2>3, <2>4, <2>5 DEF DocumentInv
<1>5. CASE calls[c].live
  <2>1. /\ search' \in SearchStates /\ search'.query = search.query /\ search'.loading = FALSE
        /\ search'.results # None => search'.of = calls[c].key \/ calls[c].failed
        /\ calls[c].failed => search'.results = None
    BY <1>1, <1>5, IngestTyped DEF SettleSearch, Results, SearchStates
  <2>2. calls[c].key = SearchKey(search.query, screen)
    BY <1>5 DEF DocumentInv, SearchesAsk, SettleSearch
  <2>3. DocumentTypes'
    BY <1>1, <1>2, <1>3, <2>1 DEF DocumentTypes
  <2>4. SearchesAsk(calls, search, screen)' /\ ListingsAsk(calls, screen)'
    BY <1>2, <1>3, <2>1, SameKeys DEF DocumentInv, SearchesAsk, ListingsAsk
  <2>5. LoadingIsAwaited' /\ SearchResultsAreCurrent'
    BY <1>2, <2>1, <2>2, SameKeys DEF LoadingIsAwaited, SearchResultsAreCurrent
  <2>6. QED
    BY <2>3, <2>4, <2>5 DEF DocumentInv
<1>6. QED
  BY <1>4, <1>5

\* One request of an operation on documents is served or refused.
LEMMA ServeOneKeeps ==
  ASSUME DocumentInv, NEW c \in Slot, NEW d \in Docs, ServeOne(c, d)
  PROVE  DocumentInv'
<1>1. calls \in [Slot -> Handler] /\ stored \in [Docs -> Stored] /\ calls[c] \in Handler
  BY DEF DocumentInv, DocumentTypes
<1>2. stored' \in [Docs -> Stored]
  <2>1. stored[d] \in Stored
    BY <1>1
  <2>2. calls[c].op \in {"restore", "move"} => RestoredTo(c, d) \in Places
    BY <1>1, <2>1 DEF RestoredTo, Handler, CallRecord, Entry, Stored
  <2>3. Effect(c, d) \in [Docs -> Stored]
    <3>1. CASE calls[c].op \in {"restore", "move"}
      BY <1>1, <2>2, <3>1 DEF Effect, Stored
    <3>2. CASE calls[c].op \notin {"restore", "move"}
      BY <1>1, <2>1, <3>2 DEF Effect, Stored
    <3>3. QED
      BY <3>1, <3>2
  <2>4. QED
    BY <1>1, <2>3 DEF ServeOne
<1>3. \E q \in Handler : /\ q.op = calls[c].op /\ q.key = calls[c].key /\ q.live = calls[c].live
                        /\ calls' = [calls EXCEPT ![c] = q]
  <2> DEFINE served == [calls[c] EXCEPT !.todo = @ \ {d}, !.accepted = @ \cup {d}]
             refused == [calls[c] EXCEPT !.todo = @ \ {d}, !.failed = TRUE]
  <2>1. calls' = [calls EXCEPT ![c] = served] \/ calls' = [calls EXCEPT ![c] = refused]
    BY <1>1 DEF ServeOne
  <2>2. /\ served \in Handler /\ served.op = calls[c].op
        /\ served.key = calls[c].key /\ served.live = calls[c].live
    BY <1>1 DEF Handler, CallRecord
  <2>3. /\ refused \in Handler /\ refused.op = calls[c].op
        /\ refused.key = calls[c].key /\ refused.live = calls[c].live
    BY <1>1 DEF Handler, CallRecord
  <2> HIDE DEF served, refused
  <2>4. QED
    BY <2>1, <2>2, <2>3
<1>4. QED
  BY <1>2, <1>3, CallGoesOn DEF ServeOne

\* The bulk request that ends a move is served or refused.
LEMMA ServeBulkKeeps ==
  ASSUME DocumentInv, NEW c \in Slot, ServeBulk(c)
  PROVE  DocumentInv'
<1>1. calls \in [Slot -> Handler] /\ stored \in [Docs -> Stored] /\ calls[c] \in Handler
  BY DEF DocumentInv, DocumentTypes
<1>2. calls[c].to \in Places
  BY <1>1 DEF ServeBulk, Handler
<1>3. stored' \in [Docs -> Stored]
  BY <1>1, <1>2 DEF ServeBulk, Stored
<1>4. \E q \in Handler : /\ q.op = calls[c].op /\ q.key = calls[c].key /\ q.live = calls[c].live
                        /\ calls' = [calls EXCEPT ![c] = q]
  <2> DEFINE served == [calls[c] EXCEPT !.bulk = {}, !.accepted = @ \cup calls[c].bulk]
             refused == [calls[c] EXCEPT !.bulk = {}, !.failed = TRUE]
  <2>1. calls' = [calls EXCEPT ![c] = served] \/ calls' = [calls EXCEPT ![c] = refused]
    BY <1>1 DEF ServeBulk
  <2>2. /\ served \in Handler /\ served.op = calls[c].op
        /\ served.key = calls[c].key /\ served.live = calls[c].live
    BY <1>1 DEF Handler, CallRecord
  <2>3. /\ refused \in Handler /\ refused.op = calls[c].op
        /\ refused.key = calls[c].key /\ refused.live = calls[c].live
    BY <1>1 DEF Handler, CallRecord
  <2> HIDE DEF served, refused
  <2>4. QED
    BY <2>1, <2>2, <2>3
<1>5. QED
  BY <1>3, <1>4, CallGoesOn DEF ServeBulk

\* The end of an operation on documents changes the cache and the selection only.
LEMMA SettleOperationKeeps ==
  ASSUME DocumentInv, NEW c \in Slot, SettleOperation(c)
  PROVE  DocumentInv'
<1>1. /\ calls[c].op # "search" /\ calls' = Done(c) /\ UNCHANGED <<stored, search>>
      /\ cache' \in [Docs -> Entry]
  BY RemoveTyped DEF SettleOperation
<1>2. screen' = screen \/ \E sel \in SUBSET Docs : screen' = [screen EXCEPT !.sel = sel]
  BY DEF SettleOperation, DocumentInv, DocumentTypes, Screens
<1>3. screen \in Screens
  BY DEF DocumentInv, DocumentTypes
<1>4. screen' \in Screens /\ SameQuestion
  BY <1>2, <1>3 DEF Screens, SameQuestion
<1>5. QED
  BY <1>1, <1>4, CallEnds

\* What the user does to the documents shown.
LEMMA OperationsKeep ==
  ASSUME DocumentInv, NEW ds \in SUBSET Docs
  PROVE  /\ TrashDocuments(ds) => DocumentInv'
         /\ RestoreDocuments(ds) => DocumentInv'
         /\ PurgeDocuments(ds) => DocumentInv'
         /\ DeleteSelection => DocumentInv'
         /\ \A f \in Nodes : MoveDocuments(ds, f) => DocumentInv'
<1>0. /\ {"trash", "restore", "purge", "delete", "moveToTrash", "move"} \subseteq DocumentOps \ {"list", "search"}
      /\ None \in Nodes \cup {None} /\ {} \in SUBSET Docs
  BY DEF DocumentOps
<1>1. ASSUME TrashDocuments(ds) PROVE DocumentInv'
  BY <1>0, <1>1, OperationBegins DEF TrashDocuments
<1>2. ASSUME RestoreDocuments(ds) PROVE DocumentInv'
  BY <1>0, <1>2, OperationBegins DEF RestoreDocuments
<1>3. ASSUME PurgeDocuments(ds) PROVE DocumentInv'
  BY <1>0, <1>3, OperationBegins DEF PurgeDocuments
<1>4. ASSUME DeleteSelection PROVE DocumentInv'
  <2>1. screen.sel \in SUBSET Docs
    BY DEF DocumentInv, DocumentTypes, Screens
  <2>2. QED
    BY <1>0, <1>4, <2>1, OperationBegins DEF DeleteSelection
<1>5. ASSUME NEW f \in Nodes, MoveDocuments(ds, f) PROVE DocumentInv'
  <2>1. ds \ InTrash(ds) \in SUBSET Docs /\ InTrash(ds) \in SUBSET Docs
    BY DEF InTrash
  <2>2. CASE f = Trash
    <3>1. Begin("moveToTrash", ds, ds \ InTrash(ds), {}, None)
      BY <1>5, <2>2 DEF MoveDocuments
    <3>2. QED
      BY <1>0, <2>1, <3>1, OperationBegins
  <2>3. CASE f # Trash
    <3>1. Begin("move", ds, InTrash(ds), ds \ InTrash(ds), f) /\ f \in Places
      BY <1>5, <2>3 DEF MoveDocuments, Nodes
    <3>2. QED
      BY <1>0, <2>1, <3>1, OperationBegins
  <2>4. QED
    BY <2>2, <2>3
<1>6. QED
  BY <1>1, <1>2, <1>3, <1>4, <1>5

\* The screen and the query change together with the questions that are asked.
LEMMA EffectsKeep ==
  ASSUME DocumentInv
  PROVE  /\ \A f \in Nodes : SelectFolder(f) => DocumentInv'
         /\ ToggleOrder => DocumentInv'
         /\ \A q \in Queries \cup {None} : SetQuery(q) => DocumentInv'
         /\ RefetchSearch => DocumentInv'
         /\ ManualRefresh => DocumentInv'
<1>1. /\ screen \in Screens /\ search.query \in Queries \cup {None}
      /\ calls \in [Slot -> Handler] /\ ListingsAsk(calls, screen)
  BY DEF DocumentInv, DocumentTypes, SearchStates
<1>2. ASSUME NEW f \in Nodes, SelectFolder(f) PROVE DocumentInv'
  <2>1. [screen EXCEPT !.folder = f] \in Screens
    BY <1>1 DEF Screens
  <2>2. QED
    BY <1>2, <2>1, LookAsks DEF SelectFolder
<1>3. ASSUME ToggleOrder PROVE DocumentInv'
  <2>1. [screen EXCEPT !.order = IF @ = "asc" THEN "desc" ELSE "asc"] \in Screens
    BY <1>1 DEF Screens, Orders
  <2>2. QED
    BY <1>3, <2>1, LookAsks DEF ToggleOrder
<1>4. ASSUME NEW q \in Queries \cup {None}, SetQuery(q) PROVE DocumentInv'
  BY <1>1, <1>4, EffectAsks DEF SetQuery
<1>5. ASSUME RefetchSearch PROVE DocumentInv'
  BY <1>1, <1>5, EffectAsks DEF RefetchSearch
<1>6. ASSUME ManualRefresh PROVE DocumentInv'
  <2>1. NewList("refresh", screen) \in Handler /\ NewList("refresh", screen).op = "refresh"
    BY <1>1, NewListTyped
  <2>2. QED
    BY <1>6, <2>1, CallBegins DEF ManualRefresh
<1>7. QED
  BY <1>2, <1>3, <1>4, <1>5, <1>6

\* A timer that fires sends the search it was set for.
LEMMA DebounceKeeps ==
  ASSUME DocumentInv, NEW c \in Slot, DebounceElapses(c)
  PROVE  DocumentInv'
<1> DEFINE q == [calls[c] EXCEPT !.stage = "sent"]
<1>1. calls \in [Slot -> Handler] /\ stored \in [Docs -> Stored]
  BY DEF DocumentInv, DocumentTypes
<1>2. q \in Handler /\ q.op = calls[c].op /\ q.key = calls[c].key /\ q.live = calls[c].live
  BY <1>1 DEF Handler, CallRecord
<1>3. calls' = [calls EXCEPT ![c] = q]
  BY <1>1 DEF DebounceElapses
<1> HIDE DEF q
<1>4. QED
  BY <1>1, <1>2, <1>3, CallGoesOn DEF DebounceElapses

\* Selecting documents and purging them on the server ask nothing.
LEMMA QuietKeeps ==
  ASSUME DocumentInv
  PROVE  /\ \A ds \in SUBSET Docs : SelectDocs(ds) => DocumentInv'
         /\ \A d \in Docs : WorkerPurges(d) => DocumentInv'
         /\ UNCHANGED documentVars => DocumentInv'
<1>1. /\ screen \in Screens /\ cache \in [Docs -> Entry] /\ stored \in [Docs -> Stored]
  BY DEF DocumentInv, DocumentTypes
<1>2. ASSUME NEW ds \in SUBSET Docs, SelectDocs(ds) PROVE DocumentInv'
  <2>1. screen' \in Screens /\ SameQuestion
    BY <1>1, <1>2 DEF SelectDocs, Screens, SameQuestion
  <2>2. QED
    BY <1>1, <1>2, <2>1, NothingAsked DEF SelectDocs
<1>3. ASSUME NEW d \in Docs, WorkerPurges(d) PROVE DocumentInv'
  <2>1. stored' \in [Docs -> Stored]
    BY <1>1, <1>3 DEF WorkerPurges, Stored
  <2>2. QED
    BY <1>1, <1>3, <2>1, NothingAsked DEF WorkerPurges, SameQuestion
<1>4. ASSUME UNCHANGED documentVars PROVE DocumentInv'
  BY <1>1, <1>4, NothingAsked DEF documentVars, SameQuestion
<1>5. QED
  BY <1>2, <1>3, <1>4

-----------------------------------------------------------------------------
(* The theorems.                                                           *)

\* The workspace mounts with one listing, of the root, on its way.
LEMMA DocumentInit == DocumentsInit => DocumentInv
<1>1. SUFFICES ASSUME DocumentsInit PROVE DocumentInv
  OBVIOUS
<1> DEFINE idle == [c \in Slot |-> Free]
<1>2. idle \in [Slot -> Handler] /\ FreeCalls(idle) # {}
  <2>1. 1 \in Slot
    BY DocumentConstants DEF Slot
  <2>2. QED
    BY <2>1, FreeTyped DEF FreeCalls
<1>3. screen \in Screens /\ search \in SearchStates
  BY <1>1, NoSearchTyped, DocumentConstants DEF DocumentsInit, Screens, Nodes, Orders
<1>4. /\ NewList("list", screen) \in Handler /\ NewList("list", screen).op = "list"
      /\ NewList("list", screen).key = ListKey(screen)
  BY <1>3, NewListTyped
<1>5. \A c \in Slot : idle[c] = Free
  OBVIOUS
<1>6. PICK q : q = NewList("list", screen)
  OBVIOUS
<1>13. calls = Call(idle, q)
  BY <1>1, <1>6 DEF DocumentsInit
<1> HIDE DEF idle
<1>7. /\ Call(idle, q) \in [Slot -> Handler]
      /\ \E c \in Slot : /\ idle[c].op = None /\ Call(idle, q)[c] = q
                         /\ \A b \in Slot \ {c} : Call(idle, q)[b] = idle[b]
  <2>1. q \in Handler
    BY <1>4, <1>6
  <2>2. QED
    BY ONLY <1>2, <2>1, CallTakesFree
<1>8. /\ calls \in [Slot -> Handler]
      /\ \A c \in Slot : calls[c] = Free \/ calls[c] = NewList("list", screen)
  BY <1>5, <1>6, <1>7, <1>13
<1>9. DocumentTypes
  <2>1. stored \in [Docs -> Stored] /\ cache \in [Docs -> Entry]
    BY <1>1, NothingTyped DEF DocumentsInit, Stored
  <2>2. QED
    BY <1>3, <1>8, <2>1 DEF DocumentTypes
<1>10. SearchesAsk(calls, search, screen) /\ ListingsAsk(calls, screen)
  BY <1>4, <1>8, FreeTyped DEF SearchesAsk, ListingsAsk, DocumentOps
<1>11. LoadingIsAwaited /\ SearchResultsAreCurrent
  <2>1. search.loading = FALSE /\ search.results = None
    BY <1>1 DEF DocumentsInit
  <2>2. QED
    BY <2>1 DEF LoadingIsAwaited, SearchResultsAreCurrent
<1>12. QED
  BY <1>9, <1>10, <1>11 DEF DocumentInv

\* Every step keeps the invariant.
LEMMA DocumentStepKeeps == DocumentInv /\ [DocumentsNext]_documentVars => DocumentInv'
<1>1. SUFFICES ASSUME DocumentInv, DocumentsNext PROVE DocumentInv'
  BY QuietKeeps
<1>2. CASE \E f \in Nodes : SelectFolder(f)
  BY <1>1, <1>2, EffectsKeep
<1>3. CASE ToggleOrder \/ RefetchSearch \/ ManualRefresh
  BY <1>1, <1>3, EffectsKeep
<1>4. CASE DeleteSelection
  <2>1. {} \in SUBSET Docs
    OBVIOUS
  <2>2. QED
    BY <1>1, <1>4, <2>1, OperationsKeep
<1>5. CASE \E q \in Queries \cup {None} : SetQuery(q)
  BY <1>1, <1>5, EffectsKeep
<1>6. ASSUME NEW ds \in SUBSET Docs,
             \/ SelectDocs(ds) \/ TrashDocuments(ds) \/ RestoreDocuments(ds)
             \/ PurgeDocuments(ds) \/ \E f \in Nodes : MoveDocuments(ds, f)
      PROVE  DocumentInv'
  BY <1>1, <1>6, OperationsKeep, QuietKeeps
<1>7. ASSUME NEW c \in Slot,
             \/ DebounceElapses(c) \/ ServeList(c) \/ SettleList(c) \/ SettleSearch(c)
             \/ ServeBulk(c) \/ SettleOperation(c) \/ \E d \in Docs : ServeOne(c, d)
      PROVE  DocumentInv'
  BY <1>1, <1>7, DebounceKeeps, ServeListKeeps, SettleListKeeps, SettleSearchKeeps,
     ServeBulkKeeps, SettleOperationKeeps, ServeOneKeeps
<1>8. CASE \E d \in Docs : WorkerPurges(d)
  BY <1>1, <1>8, QuietKeeps
<1>9. QED
  BY <1>1, <1>2, <1>3, <1>4, <1>5, <1>6, <1>7, <1>8 DEF DocumentsNext

\* The strengthened invariant holds in every state.
THEOREM DocumentInvHolds == DocumentsSpec => []DocumentInv
  BY DocumentInit, DocumentStepKeeps, PTL DEF DocumentsSpec

\* The cache, the screen and the server keep their shape: what is listed,
\* selected and found are documents.
THEOREM DocumentsTyped == DocumentsSpec => []DocumentsTypeOK
<1>1. DocumentInv => DocumentsTypeOK
  BY DEF DocumentInv, DocumentTypes, DocumentsTypeOK, Stored, Entry, Screens, SearchStates
<1>2. QED
  BY <1>1, DocumentInvHolds, PTL

\* useDocumentsSearch: once loading is over, the results shown are those of the
\* query, folder and order in force, whatever answers come in whatever order.
THEOREM SearchIsCurrent == DocumentsSpec => []SearchResultsAreCurrent
<1>1. DocumentInv => SearchResultsAreCurrent
  BY DEF DocumentInv
<1>2. QED
  BY <1>1, DocumentInvHolds, PTL

\* A search shown as loading has a live handler: the indicator is never left on
\* by a search that was cancelled (useDocumentsSearch.ts).
THEOREM LoadingAwaitsAnswer == DocumentsSpec => []LoadingIsAwaited
<1>1. DocumentInv => LoadingIsAwaited
  BY DEF DocumentInv
<1>2. QED
  BY <1>1, DocumentInvHolds, PTL

-----------------------------------------------------------------------------
(* What a step may never do.                                               *)

\* Only the answer to a listing changes what the listing is of.
LEMMA OnlyListingsList ==
  ASSUME DocumentInv, [DocumentsNext]_documentVars, screen'.of # screen.of
  PROVE  \E c \in Slot : SettleList(c) /\ Accepted(c) /\ Shows(c)
<1>1. screen \in Screens
  BY DEF DocumentInv, DocumentTypes
<1>2. /\ \A f \in Nodes : ~SelectFolder(f)
      /\ ~ToggleOrder
      /\ \A ds \in SUBSET Docs : ~SelectDocs(ds)
  <2>1. \A f \in Nodes : ~SelectFolder(f)
    BY SMTT(60), <1>1 DEF SelectFolder, Look, Screens
  <2>2. ~ToggleOrder
    BY <1>1 DEF ToggleOrder, Look, Screens
  <2>3. \A ds \in SUBSET Docs : ~SelectDocs(ds)
    BY SMTT(60), <1>1 DEF SelectDocs, Look, Screens
  <2>4. QED
    BY <2>1, <2>2, <2>3
<1>3. /\ \A q \in Queries \cup {None} : ~SetQuery(q)
      /\ ~RefetchSearch /\ ~ManualRefresh /\ ~DeleteSelection
      /\ \A ds \in SUBSET Docs :
           /\ ~TrashDocuments(ds) /\ ~RestoreDocuments(ds) /\ ~PurgeDocuments(ds)
           /\ \A f \in Nodes : ~MoveDocuments(ds, f)
      /\ \A d \in Docs : ~WorkerPurges(d)
  BY DEF SetQuery, RefetchSearch, ManualRefresh, DeleteSelection, TrashDocuments, RestoreDocuments,
         PurgeDocuments, MoveDocuments, Begin, WorkerPurges
<1>4. \A c \in Slot : /\ ~DebounceElapses(c) /\ ~ServeList(c) /\ ~ServeBulk(c)
                     /\ \A d \in Docs : ~ServeOne(c, d)
  BY DEF DebounceElapses, ServeList, ServeBulk, ServeOne
<1>5. \A c \in Slot : ~SettleSearch(c) /\ ~SettleOperation(c)
  BY <1>1 DEF SettleSearch, SettleOperation, Screens
<1>6. \A c \in Slot : SettleList(c) => Accepted(c) /\ Shows(c)
  BY DEF SettleList
<1>7. QED
  BY <1>2, <1>3, <1>4, <1>5, <1>6 DEF DocumentsNext, documentVars

\* Only the end of an operation takes documents out of the cache: what an answer
\* brings is merged into it.
LEMMA OnlyOperationsRemove ==
  ASSUME DocumentInv, [DocumentsNext]_documentVars, NEW d \in Docs,
         cache[d].known, ~cache'[d].known
  PROVE  \E c \in Slot : SettleOperation(c)
<1>1. \A c \in Slot : Ingest(calls[c].told)[d].known
  BY DEF Ingest
<1>2. \A c \in Slot : ~SettleList(c) /\ ~SettleSearch(c)
  BY <1>1 DEF SettleList, SettleSearch
<1>3. /\ \A f \in Nodes : ~SelectFolder(f)
      /\ ~ToggleOrder
      /\ \A ds \in SUBSET Docs : ~SelectDocs(ds)
  <2>1. \A f \in Nodes : ~SelectFolder(f)
    BY SMTT(60) DEF SelectFolder
  <2>2. ~ToggleOrder /\ \A ds \in SUBSET Docs : ~SelectDocs(ds)
    BY SMTT(60) DEF ToggleOrder, SelectDocs, Look
  <2>3. QED
    BY <2>1, <2>2
<1>4. /\ \A q \in Queries \cup {None} : ~SetQuery(q)
      /\ ~RefetchSearch /\ ~ManualRefresh /\ ~DeleteSelection
      /\ \A ds \in SUBSET Docs :
           /\ ~TrashDocuments(ds) /\ ~RestoreDocuments(ds) /\ ~PurgeDocuments(ds)
           /\ \A f \in Nodes : ~MoveDocuments(ds, f)
      /\ \A e \in Docs : ~WorkerPurges(e)
  BY DEF SetQuery, RefetchSearch, ManualRefresh, DeleteSelection, TrashDocuments, RestoreDocuments,
         PurgeDocuments, MoveDocuments, Begin, WorkerPurges
<1>5. \A c \in Slot : /\ ~DebounceElapses(c) /\ ~ServeList(c) /\ ~ServeBulk(c)
                     /\ \A e \in Docs : ~ServeOne(c, e)
  BY DEF DebounceElapses, ServeList, ServeBulk, ServeOne
<1>6. QED
  BY <1>2, <1>3, <1>4, <1>5 DEF DocumentsNext, documentVars

\* An answer that changes the listing on the screen is of the folder selected.
LEMMA ListingFollowsStep ==
  ASSUME DocumentInv, [DocumentsNext]_documentVars, screen'.of # screen.of
  PROVE  screen'.of[1] = screen'.folder
<1>1. \E c \in Slot : SettleList(c) /\ Accepted(c) /\ Shows(c)
  BY OnlyListingsList
<1>2. PICK c \in Slot : SettleList(c) /\ Accepted(c) /\ Shows(c)
  BY <1>1
<1>3. /\ screen' = [screen EXCEPT !.ids = FoundBy(c), !.of = calls[c].key, !.sel = @ \cap FoundBy(c)]
      /\ calls[c].key[1] = screen.folder
  BY <1>2 DEF SettleList, Shows
<1>4. screen \in Screens
  BY DEF DocumentInv, DocumentTypes
<1>5. QED
  BY <1>3, <1>4 DEF Screens

\* FolderContext: an answer that changes the listing on the screen is of the
\* folder selected when it arrives.
THEOREM ListingFollowsSelection == DocumentsSpec => ListingIsOfSelectedFolder
<1>1. DocumentInv /\ [DocumentsNext]_documentVars => [screen'.of # screen.of => screen'.of[1] = screen'.folder]_documentVars
  BY ListingFollowsStep
<1>2. QED
  BY <1>1, DocumentInvHolds, PTL DEF DocumentsSpec, ListingIsOfSelectedFolder

\* An automatic answer that changes it is of the order in force as well.
LEMMA AutomaticListingStep ==
  ASSUME DocumentInv, [DocumentsNext]_documentVars, NEW c \in Slot,
         calls[c].op = "list", calls'[c].op = None, screen'.of # screen.of
  PROVE  screen'.of = ListKey(screen')
<1>1. PICK b \in Slot : SettleList(b) /\ Accepted(b) /\ Shows(b)
  BY OnlyListingsList
<1>2. /\ screen' = [screen EXCEPT !.ids = FoundBy(b), !.of = calls[b].key, !.sel = @ \cap FoundBy(b)]
      /\ calls' = Done(b)
  BY <1>1 DEF SettleList
<1>3. screen \in Screens /\ calls \in [Slot -> Handler]
  BY DEF DocumentInv, DocumentTypes
<1>4. b = c
  <2>1. b # c => calls'[c] = calls[c]
    BY <1>2, <1>3 DEF Done
  <2>2. QED
    BY <2>1, DocumentConstants DEF DocumentOps
<1>5. calls[c].live
  BY <1>1, <1>4 DEF Accepted
<1>6. calls[c].key = ListKey(screen)
  BY <1>5 DEF DocumentInv, ListingsAsk
<1>7. QED
  BY <1>2, <1>3, <1>4, <1>6 DEF Screens, ListKey

\* FolderContext: a listing the client asked for on its own is shown only while
\* the folder and the order it was asked for are in force.
THEOREM AutomaticListingFollows == DocumentsSpec => AutomaticListingIsCurrent
<1>1. ASSUME DocumentInv, [DocumentsNext]_documentVars
      PROVE  [\A c \in Slot : calls[c].op = "list" /\ calls'[c].op = None /\ screen'.of # screen.of
                => screen'.of = ListKey(screen')]_documentVars
  BY <1>1, AutomaticListingStep
<1>2. QED
  BY <1>1, DocumentInvHolds, PTL DEF DocumentsSpec, AutomaticListingIsCurrent

\* A document leaves the cache with the end of an operation that did not fail and
\* whose request for it the server has accepted.
LEMMA RemovalStep ==
  ASSUME DocumentInv, [DocumentsNext]_documentVars, NEW d \in Docs,
         cache[d].known, ~cache'[d].known
  PROVE  \E c \in Slot : d \in calls[c].accepted /\ ~calls[c].failed /\ calls'[c].op = None
<1>1. PICK c \in Slot : SettleOperation(c)
  BY OnlyOperationsRemove
<1>2. cache' = Remove(Removed(c)) /\ calls' = Done(c)
  BY <1>1 DEF SettleOperation
<1>3. d \in Removed(c)
  BY <1>2 DEF Remove
<1>4. d \in calls[c].accepted /\ ~calls[c].failed
  <2>1. calls[c] \in Handler
    BY DEF DocumentInv, DocumentTypes
  <2>2. d \in calls[c].leaves /\ ~calls[c].failed
    BY <1>3 DEF Removed
  <2>3. calls[c].todo = {} /\ calls[c].bulk = {}
    BY <1>1, <2>2 DEF SettleOperation
  <2>4. QED
    BY <2>1, <2>2, <2>3 DEF Handler
<1>5. calls'[c].op = None
  BY <1>2, FreeTyped DEF Done, DocumentInv, DocumentTypes
<1>6. QED
  BY <1>4, <1>5

\* useTrashMutations, useDocumentMoveMutations: a document leaves the cache only
\* with the end of an operation of which no request failed and whose request for
\* it the server has carried out, however the listings that arrived in between
\* changed what the cache tells of it.
THEOREM RemovalIsAccepted == DocumentsSpec => RemovedOnlyOnceAccepted
<1>1. ASSUME DocumentInv, [DocumentsNext]_documentVars
      PROVE  [\A d \in Docs : cache[d].known /\ ~cache'[d].known
                => \E c \in Slot : /\ d \in calls[c].accepted /\ ~calls[c].failed
                                   /\ calls'[c].op = None]_documentVars
  BY <1>1, RemovalStep
<1>2. QED
  BY <1>1, DocumentInvHolds, PTL DEF DocumentsSpec, RemovedOnlyOnceAccepted

(***************************************************************************)
(* The folders: the tree shown hangs together, whatever requests overlap,  *)
(* and agrees with the server's as long as none do.                        *)
(*                                                                         *)
(* The inductive invariant says that each of the server's folders hangs    *)
(* below the root, what each answer under way tells, and, as long as no    *)
(* two requests overlapped, that the client has the server's folders but   *)
(* for the one change whose answer is on its way.                          *)
(***************************************************************************)

-----------------------------------------------------------------------------
(* Trees: what is below a node, and what a change of one parent does to it. *)

Tree == [Dirs -> TreeNodes \cup {Gone}]
Acyclic(t) == \A f, g \in Dirs : t[g] = f => f \notin Within(t, g)

LEMMA WithinLeast ==
  ASSUME NEW t, NEW g, NEW S \in SUBSET TreeNodes, g \in S, ChildClosed(t, S)
  PROVE  Within(t, g) \subseteq S
BY DEF Within

LEMMA WithinClosed ==
  ASSUME NEW t, NEW g \in TreeNodes
  PROVE  /\ g \in Within(t, g) /\ Within(t, g) \subseteq TreeNodes
         /\ ChildClosed(t, Within(t, g))
<1>1. g \in Within(t, g) /\ Within(t, g) \subseteq TreeNodes
  BY DEF Within
<1>2. ASSUME NEW f \in Dirs, t[f] \in Within(t, g) PROVE f \in Within(t, g)
  BY <1>2 DEF Within, ChildClosed, TreeNodes
<1> QED BY <1>1, <1>2 DEF ChildClosed

\* Whatever is below g, but g itself, has its parent there too.
LEMMA WithinParent ==
  ASSUME NEW t, NEW g \in TreeNodes, NEW h \in Within(t, g), h # g
  PROVE  h \in Dirs /\ t[h] \in Within(t, g)
<1>1. PICK W : W = Within(t, g)
  OBVIOUS
<1>2. g \in W /\ W \subseteq TreeNodes /\ \A f \in Dirs : t[f] \in W => f \in W
  BY <1>1, WithinClosed DEF ChildClosed
<1>3. PICK S : S = {g} \cup {f \in Dirs : f \in W /\ t[f] \in W}
  OBVIOUS
<1>4. S \subseteq W /\ S \in SUBSET TreeNodes /\ g \in S
  BY <1>2, <1>3
<1>5. ChildClosed(t, S)
  BY <1>2, <1>3, <1>4 DEF ChildClosed
<1>6. h \in S
  BY <1>4, <1>5, WithinLeast
<1> QED BY <1>1, <1>3, <1>6

LEMMA TopIsOutside == ASSUME NEW t, NEW x \in Dirs PROVE Top \notin Within(t, x)
BY WithinParent, FolderConstants DEF TreeNodes

LEMMA GoneIsOutside == ASSUME NEW t, NEW x \in TreeNodes PROVE Gone \notin Within(t, x)
BY WithinClosed, FolderConstants DEF TreeNodes

\* What the root reaches is not below a node without a parent.
LEMMA DetachedReachesNothing ==
  ASSUME NEW t, NEW x \in Dirs, t[x] = Gone, NEW y \in Reached(t)
  PROVE  y \notin Within(t, x)
<1>1. PICK W : W = Within(t, x)
  OBVIOUS
<1>2. PICK R : R = Reached(t)
  OBVIOUS
<1>3. /\ Top \in R /\ R \subseteq TreeNodes /\ \A f \in Dirs : t[f] \in R => f \in R
  BY <1>2, WithinClosed DEF ChildClosed, Reached, TreeNodes
<1>4. Top \notin W
  BY <1>1, TopIsOutside
<1>5. Gone \notin R
  BY <1>3, FolderConstants DEF TreeNodes
<1>6. ASSUME NEW f \in Dirs, t[f] \in R \ W PROVE f \in R \ W
  <2>1. f # x
    BY <1>5, <1>6
  <2>2. f \in W => t[f] \in W
    BY <1>1, <2>1, WithinParent DEF TreeNodes
  <2> QED BY <1>3, <1>6, <2>2
<1>7. ChildClosed(t, R \ W)
  BY <1>6 DEF ChildClosed
<1>8. R \subseteq R \ W
  BY <1>2, <1>3, <1>4, <1>7, WithinLeast DEF Reached
<1> QED BY <1>1, <1>2, <1>8

\* A node hung below one that is not below it closes no circle.
LEMMA HangingKeepsAcyclic ==
  ASSUME NEW t \in Tree, Acyclic(t), NEW x \in Dirs, NEW y \in TreeNodes \cup {Gone}, y \notin Within(t, x)
  PROVE  Acyclic([t EXCEPT ![x] = y])
<1>1. PICK u : u = [t EXCEPT ![x] = y]
  OBVIOUS
<1>2. u \in Tree /\ u[x] = y /\ \A f \in Dirs \ {x} : u[f] = t[f]
  BY <1>1 DEF Tree
<1>3. PICK W : W = Within(t, x)
  OBVIOUS
<1>4. x \in W /\ W \in SUBSET TreeNodes /\ \A f \in Dirs : t[f] \in W => f \in W
  BY <1>3, WithinClosed DEF ChildClosed, TreeNodes
<1>5. ASSUME NEW f \in Dirs, NEW g \in Dirs, u[g] = f PROVE f \notin Within(u, g)
  <2>1. CASE g = x
    <3>1. f \notin W
      BY <1>2, <1>3, <1>5, <2>1
    <3>2. ChildClosed(u, W)
      BY <1>2, <1>3, <1>4 DEF ChildClosed
    <3> QED BY <1>4, <2>1, <3>1, <3>2, WithinLeast
  <2>2. CASE g # x
    <3>1. t[g] = f
      BY <1>2, <1>5, <2>2
    <3>2. PICK S : S = Within(t, g)
      OBVIOUS
    <3>3. g \in S /\ S \in SUBSET TreeNodes /\ (\A h \in Dirs : t[h] \in S => h \in S) /\ f \notin S
      BY <3>1, <3>2, WithinClosed DEF ChildClosed, Acyclic, TreeNodes
    <3>4. CASE y \notin S
      <4>1. ChildClosed(u, S)
        BY <1>2, <3>3, <3>4 DEF ChildClosed
      <4> QED BY <3>3, <4>1, WithinLeast
    <3>5. CASE y \in S
      <4>1. CASE f \in W
        <5>1. g \in S \cap W
          BY <1>4, <3>1, <3>3, <4>1
        <5>2. ChildClosed(u, S \cap W)
          BY <1>2, <1>3, <1>4, <3>3 DEF ChildClosed
        <5> QED BY <3>3, <5>1, <5>2, WithinLeast
      <4>2. CASE f \notin W
        <5>1. ChildClosed(u, S \cup W)
          BY <1>2, <1>4, <3>3 DEF ChildClosed
        <5> QED BY <1>4, <3>3, <4>2, <5>1, WithinLeast
      <4> QED BY <4>1, <4>2
    <3> QED BY <3>4, <3>5
  <2> QED BY <2>1, <2>2
<1> QED BY <1>1, <1>5 DEF Acyclic

\* Hung below a node the root reaches, and which is not below it, a node is
\* reached with all below it, and nothing is lost.
LEMMA HangingReaches ==
  ASSUME NEW t \in Tree, NEW x \in Dirs, NEW y \in Reached(t), y \notin Within(t, x)
  PROVE  x \in Reached([t EXCEPT ![x] = y]) /\ Reached(t) \subseteq Reached([t EXCEPT ![x] = y])
<1>1. PICK u : u = [t EXCEPT ![x] = y]
  OBVIOUS
<1>2. u[x] = y /\ \A f \in Dirs \ {x} : u[f] = t[f]
  BY <1>1 DEF Tree
<1>3. PICK W : W = Within(t, x)
  OBVIOUS
<1>4. x \in W /\ W \in SUBSET TreeNodes /\ \A f \in Dirs : t[f] \in W => f \in W
  BY <1>3, WithinClosed DEF ChildClosed, TreeNodes
<1>5. PICK S : S = Reached(u)
  OBVIOUS
<1>6. Top \in S /\ S \in SUBSET TreeNodes /\ \A f \in Dirs : u[f] \in S => f \in S
  BY <1>5, WithinClosed DEF ChildClosed, Reached, TreeNodes
<1>7. Reached(t) \subseteq S \cup W
  <2>1. ChildClosed(t, S \cup W)
    BY <1>2, <1>4, <1>6 DEF ChildClosed
  <2> QED BY <1>4, <1>6, <2>1, WithinLeast DEF Reached
<1>8. x \in S
  BY <1>2, <1>3, <1>6, <1>7
<1>9. W \subseteq S
  <2>1. ChildClosed(t, S \cap W)
    BY <1>2, <1>4, <1>6, <1>8 DEF ChildClosed
  <2>2. W \subseteq S \cap W
    BY <1>3, <1>4, <1>8, <2>1, WithinLeast
  <2> QED BY <2>2
<1> QED BY <1>1, <1>5, <1>7, <1>8, <1>9

\* A node taken out takes only what is below it.
LEMMA TakenOut ==
  ASSUME NEW t \in Tree, NEW x \in Dirs
  PROVE  /\ Reached([t EXCEPT ![x] = Gone]) \subseteq Reached(t)
         /\ \A f \in Reached(t) \ Within(t, x) : f \in Reached([t EXCEPT ![x] = Gone])
         /\ x \notin Reached([t EXCEPT ![x] = Gone])
<1>1. PICK u : u = [t EXCEPT ![x] = Gone]
  OBVIOUS
<1>2. u[x] = Gone /\ \A f \in Dirs \ {x} : u[f] = t[f]
  BY <1>1 DEF Tree
<1>3. PICK R : R = Reached(t)
  OBVIOUS
<1>4. Top \in R /\ R \in SUBSET TreeNodes /\ Gone \notin R /\ \A f \in Dirs : t[f] \in R => f \in R
  BY <1>3, WithinClosed, GoneIsOutside DEF ChildClosed, Reached, TreeNodes
<1>5. Reached(u) \subseteq R
  <2>1. ChildClosed(u, R)
    BY <1>2, <1>4 DEF ChildClosed
  <2> QED BY <1>4, <2>1, WithinLeast DEF Reached
<1>6. PICK W : W = Within(t, x)
  OBVIOUS
<1>7. x \in W /\ W \in SUBSET TreeNodes /\ \A f \in Dirs : t[f] \in W => f \in W
  BY <1>6, WithinClosed DEF ChildClosed, TreeNodes
<1>8. PICK S : S = Reached(u)
  OBVIOUS
<1>9. Top \in S /\ S \in SUBSET TreeNodes /\ \A f \in Dirs : u[f] \in S => f \in S
  BY <1>8, WithinClosed DEF ChildClosed, Reached, TreeNodes
<1>10. R \subseteq S \cup W
  <2>1. ChildClosed(t, S \cup W)
    BY <1>2, <1>7, <1>9 DEF ChildClosed
  <2> QED BY <1>3, <1>7, <1>9, <2>1, WithinLeast DEF Reached
<1>11. x \notin Reached(u)
  <2>1. x # Top /\ Top \in TreeNodes
    BY FolderConstants DEF TreeNodes
  <2>2. x \in Reached(u) => u[x] \in Reached(u)
    BY <2>1, WithinParent DEF Reached
  <2> QED BY <1>2, <2>2, GoneIsOutside DEF Reached, TreeNodes
<1> QED BY <1>1, <1>3, <1>5, <1>6, <1>8, <1>10, <1>11

\* A root that reaches every node with a parent leaves no circle.
LEMMA HangingTogetherIsAcyclic ==
  ASSUME NEW t \in Tree, \A f \in Dirs : t[f] # Gone => f \in Reached(t)
  PROVE  Acyclic(t)
<1>1. SUFFICES ASSUME NEW f \in Dirs, NEW g \in Dirs, t[g] = f, f \in Within(t, g) PROVE FALSE
  BY DEF Acyclic
<1>2. PICK W : W = Within(t, g)
  OBVIOUS
<1>3. PICK R : R = Reached(t)
  OBVIOUS
<1>4. Top \in R /\ R \subseteq TreeNodes /\ \A h \in Dirs : t[h] \in R => h \in R
  BY <1>3, WithinClosed DEF ChildClosed, Reached, TreeNodes
<1>5. Top \notin W /\ g \in W
  BY <1>2, TopIsOutside, WithinClosed DEF TreeNodes
<1>6. ASSUME NEW h \in Dirs, t[h] \in R \ W PROVE h \in R \ W
  <2>1. h # g
    BY <1>1, <1>2, <1>6
  <2>2. h \in W => t[h] \in W
    BY <1>2, <2>1, WithinParent DEF TreeNodes
  <2> QED BY <1>4, <1>6, <2>2
<1>7. ChildClosed(t, R \ W)
  BY <1>6 DEF ChildClosed
<1>8. R \subseteq R \ W
  BY <1>3, <1>4, <1>5, <1>7, WithinLeast DEF Reached
<1>9. g \in R
  BY <1>1, <1>3, FolderConstants
<1> QED BY <1>5, <1>8, <1>9

-----------------------------------------------------------------------------
(* The inductive invariant of the folder tree.                              *)

\* A set of folders as a server can have it: each one that is there hangs
\* below the root.
Folder == [parent : TreeNodes \cup {Gone}, name : {"old", "new"}]
HangsTogether(d) ==
  \A f \in Dirs : IF d[f].parent = Gone THEN d[f] = Missing ELSE f \in Reached(Parents(d))
Recorded(d) == \A f \in Dirs : d[f].parent # Gone => f \in given
PresentIn(d, f) == f = Top \/ d[f].parent # Gone
AcceptedIn(d, f, g) == PresentIn(d, f) /\ PresentIn(d, g) /\ g \notin Within(Parents(d), f)

AskOps == {"none", "tree", "list"} \cup Mutations
AskRecord == [op : AskOps, f : TreeNodes, to : TreeNodes, rest : SUBSET Dirs, at : TreeNodes,
              stage : {"free", "sent", "answered"}, failed : BOOLEAN, told : [Dirs -> Folder]]
Heard(a) == a.stage = "answered" /\ ~a.failed
\* What a handler knows whatever else happens.
AskOK(a) ==
  /\ a.op = "none" <=> a.stage = "free"
  /\ a.failed => a.stage = "answered"
  /\ a.op \in Mutations => a.f \in Dirs
  /\ a.op \in {"move", "delete", "rename"} => Loaded
  /\ a.op = "create" /\ a.stage = "sent" => a.f \notin given
  /\ a.op = "create" => a.to = Top \/ (Loaded /\ tree.up[a.f] = Gone)
  /\ Heard(a) => HangsTogether(a.told) /\ Recorded(a.told)
  /\ Heard(a) /\ a.op = "create" => a.f \in given /\ a.told[a.f].parent = a.to
AsksInv ==
  /\ asks \in [Asks -> AskRecord]
  /\ \A c \in Asks : AskOK(asks[c])
  /\ \A c \in Asks : asks[c].op = "tree" => ~Loaded /\ \A b \in Asks \ {c} : asks[b].op # "tree"
  /\ \A c \in Asks : asks[c].op = "create" => creating /\ \A b \in Asks \ {c} : asks[b].op # "create"

TreeInv ==
  /\ FoldersTypeOK /\ HangsTogether(dirs) /\ Recorded(dirs) /\ ClientTreeIsForest
  /\ \A f \in Dirs : byId[f].parent = Gone => byId[f] = Missing
  /\ \A f \in Dirs : tree.up[f] # Gone => f \in given

\* What the client has is d, as far as it has anything.
Agrees(d) ==
  /\ \A f \in Dirs : byId[f] \in {Missing, d[f]}
  /\ Loaded => byId = d /\ tree.up = Parents(d)
\* A change one of this client's requests made, and the client has not.
ChangedFrom(d, op, f, g) ==
  /\ HangsTogether(d) /\ Agrees(d)
  /\ \/ op = "create" /\ ~PresentIn(d, f) /\ PresentIn(d, g) /\ dirs = [d EXCEPT ![f].parent = g]
     \/ op = "rename" /\ PresentIn(d, f) /\ dirs = [d EXCEPT ![f].name = "new"]
     \/ op = "move" /\ AcceptedIn(d, f, g) /\ dirs = [d EXCEPT ![f].parent = g]
     \/ op = "delete" /\ PresentIn(d, f) /\ (\A h \in Dirs : d[h].parent # f) /\ dirs = [d EXCEPT ![f] = Missing]
Changing(a) == a.op \in Mutations /\ Heard(a)
Deleting(a) == a.op = "delete" /\ Heard(a) /\ a.f = chosen
UnracedInv ==
  ~raced =>
    /\ \A c \in Asks : asks[c].op \in Mutations => \A b \in Asks \ {c} : asks[b].op = "none"
    /\ \A c \in Asks : Heard(asks[c]) => asks[c].told = dirs
    /\ (\A c \in Asks : ~Changing(asks[c])) => Agrees(dirs)
    /\ \A c \in Asks : Changing(asks[c]) =>
         \E d \in [Dirs -> Folder] : ChangedFrom(d, asks[c].op, asks[c].f, asks[c].to)
    /\ \A c \in Asks : asks[c].op = "delete" => asks[c].at = chosen
    /\ Present(chosen) \/ \E c \in Asks : Deleting(asks[c])
    /\ \A c \in Asks : asks[c].op = "move" =>
         \A x \in asks[c].rest \cup (IF asks[c].stage = "sent" THEN {asks[c].f} ELSE {}) : AcceptedIn(dirs, x, asks[c].to)

FoldersIInv == TreeInv /\ AsksInv /\ UnracedInv

-----------------------------------------------------------------------------
(* What a served request does to a server's folders, and an answer to the   *)
(* client's tree.                                                           *)

LEMMA FoldersHaveShape == Missing \in Folder /\ TreeNodes = Dirs \cup {Top} /\ Top \notin Dirs /\ Gone \notin TreeNodes
BY FolderConstants DEF Missing, Folder, TreeNodes

LEMMA ParentsAreTree == ASSUME NEW d \in [Dirs -> Folder] PROVE Parents(d) \in Tree /\ \A f \in Dirs : Parents(d)[f] = d[f].parent
BY DEF Parents, Tree, Folder

\* What is reached is there.
LEMMA ReachedIsThere ==
  ASSUME NEW t \in Tree, NEW f \in Reached(t), f # Top
  PROVE  f \in Dirs /\ t[f] \in Reached(t) /\ t[f] # Gone
<1>1. Top \in TreeNodes
  BY DEF TreeNodes
<1>2. f \in Dirs /\ t[f] \in Reached(t)
  BY <1>1, WithinParent DEF Reached
<1> QED BY <1>1, <1>2, GoneIsOutside DEF Reached

LEMMA TopIsReached == ASSUME NEW t PROVE Top \in Reached(t) /\ Reached(t) \subseteq TreeNodes
BY WithinClosed DEF Reached, TreeNodes

LEMMA ThereIsReached ==
  ASSUME NEW d \in [Dirs -> Folder], HangsTogether(d), NEW f \in TreeNodes
  PROVE  PresentIn(d, f) <=> f \in Reached(Parents(d))
<1>1. PICK t : t = Parents(d)
  OBVIOUS
<1>2. t \in Tree /\ \A h \in Dirs : t[h] = d[h].parent
  BY <1>1, ParentsAreTree
<1>3. f \in Reached(t) => f = Top \/ d[f].parent # Gone
  BY <1>2, ReachedIsThere DEF TreeNodes
<1>4. f = Top \/ d[f].parent # Gone => f \in Reached(t)
  BY <1>1, TopIsReached DEF HangsTogether, TreeNodes
<1> QED BY <1>1, <1>3, <1>4 DEF PresentIn

LEMMA HungFolders ==
  ASSUME NEW d \in [Dirs -> Folder], HangsTogether(d), NEW f \in Dirs, NEW g \in TreeNodes,
         PresentIn(d, g), d[f].parent = Gone \/ g \notin Within(Parents(d), f),
         NEW e, e = [d EXCEPT ![f].parent = g]
  PROVE  e \in [Dirs -> Folder] /\ HangsTogether(e)
<1>1. PICK t : t = Parents(d)
  OBVIOUS
<1>2. t \in Tree /\ \A h \in Dirs : t[h] = d[h].parent
  BY <1>1, ParentsAreTree
<1>3. e \in [Dirs -> Folder] /\ e[f].parent = g /\ \A h \in Dirs \ {f} : e[h] = d[h]
  BY DEF Folder
<1>4. Parents(e) = [t EXCEPT ![f] = g]
  BY <1>2, <1>3 DEF Parents, Tree
<1>5. g \in Reached(t)
  BY <1>1, ThereIsReached
<1>6. g \notin Within(t, f)
  BY <1>1, <1>2, <1>5, DetachedReachesNothing
<1>7. PICK u : u = Parents(e)
  OBVIOUS
<1>8. f \in Reached(u) /\ Reached(t) \subseteq Reached(u)
  BY <1>2, <1>4, <1>5, <1>6, <1>7, HangingReaches
<1>9. g # Gone
  BY FoldersHaveShape
<1>10. ASSUME NEW h \in Dirs PROVE IF e[h].parent = Gone THEN e[h] = Missing ELSE h \in Reached(u)
  BY <1>1, <1>3, <1>8, <1>9 DEF HangsTogether
<1> QED BY <1>3, <1>7, <1>10 DEF HangsTogether

LEMMA RenamedFolders ==
  ASSUME NEW d \in [Dirs -> Folder], HangsTogether(d), NEW f \in Dirs, PresentIn(d, f),
         NEW e, e = [d EXCEPT ![f].name = "new"]
  PROVE  e \in [Dirs -> Folder] /\ HangsTogether(e) /\ Parents(e) = Parents(d)
<1>1. e \in [Dirs -> Folder] /\ e[f].parent = d[f].parent /\ \A h \in Dirs \ {f} : e[h] = d[h]
  BY DEF Folder
<1>2. Parents(e) = Parents(d)
  BY <1>1 DEF Parents
<1>3. d[f].parent # Gone
  BY FoldersHaveShape DEF PresentIn
<1> QED BY <1>1, <1>2, <1>3 DEF HangsTogether

LEMMA DeletedFolders ==
  ASSUME NEW d \in [Dirs -> Folder], HangsTogether(d), NEW f \in Dirs, \A h \in Dirs : d[h].parent # f,
         NEW e, e = [d EXCEPT ![f] = Missing]
  PROVE  e \in [Dirs -> Folder] /\ HangsTogether(e)
<1>1. PICK t : t = Parents(d)
  OBVIOUS
<1>2. t \in Tree /\ \A h \in Dirs : t[h] = d[h].parent
  BY <1>1, ParentsAreTree
<1>3. e \in [Dirs -> Folder] /\ e[f] = Missing /\ \A h \in Dirs \ {f} : e[h] = d[h]
  BY FoldersHaveShape
<1>4. Missing.parent = Gone
  BY DEF Missing
<1>5. PICK u : u = Parents(e)
  OBVIOUS
<1>6. u = [t EXCEPT ![f] = Gone]
  BY <1>2, <1>3, <1>4, <1>5 DEF Parents, Tree
<1>7. Within(t, f) \subseteq {f}
  <2>1. ChildClosed(t, {f})
    BY <1>2 DEF ChildClosed
  <2> QED BY <2>1, WithinLeast DEF TreeNodes
<1>8. \A h \in Reached(t) \ {f} : h \in Reached(u)
  BY <1>2, <1>6, <1>7, TakenOut
<1>9. ASSUME NEW h \in Dirs PROVE IF e[h].parent = Gone THEN e[h] = Missing ELSE h \in Reached(u)
  BY <1>1, <1>3, <1>4, <1>8 DEF HangsTogether
<1> QED BY <1>3, <1>5, <1>9 DEF HangsTogether

\* One move of a drop leaves the moves that are left acceptable.
LEMMA StillAccepted ==
  ASSUME NEW d \in [Dirs -> Folder], NEW f \in Dirs, NEW g \in TreeNodes, NEW x \in Dirs,
         AcceptedIn(d, x, g), NEW e, e = [d EXCEPT ![f].parent = g]
  PROVE  AcceptedIn(e, x, g)
<1>1. PICK t : t = Parents(d)
  OBVIOUS
<1>2. t \in Tree /\ \A h \in Dirs : t[h] = d[h].parent
  BY <1>1, ParentsAreTree
<1>3. e \in [Dirs -> Folder] /\ e[f].parent = g /\ \A h \in Dirs \ {f} : e[h] = d[h]
  BY DEF Folder
<1>4. PICK u : u = Parents(e)
  OBVIOUS
<1>5. u[f] = g /\ \A h \in Dirs \ {f} : u[h] = t[h]
  BY <1>2, <1>3, <1>4, ParentsAreTree
<1>6. PICK W : W = Within(t, x)
  OBVIOUS
<1>7. x \in W /\ W \in SUBSET TreeNodes /\ (\A h \in Dirs : t[h] \in W => h \in W) /\ g \notin W
  BY <1>1, <1>6, WithinClosed DEF ChildClosed, TreeNodes, AcceptedIn
<1>8. ChildClosed(u, W)
  BY <1>5, <1>7 DEF ChildClosed
<1>9. g \notin Within(u, x)
  BY <1>7, <1>8, WithinLeast
<1>10. PresentIn(e, x) /\ PresentIn(e, g)
  BY <1>3, FoldersHaveShape DEF AcceptedIn, PresentIn
<1> QED BY <1>4, <1>9, <1>10 DEF AcceptedIn

\* addNode, for a node that is not in the tree or goes below the root.
LEMMA AttachedTree ==
  ASSUME NEW t \in Tree, Acyclic(t), NEW f \in Dirs, NEW g \in TreeNodes, g = Top \/ t[f] = Gone,
         NEW u, u = Attached(t, f, g)
  PROVE  /\ u \in Tree /\ Acyclic(u) /\ Reached(t) \subseteq Reached(u)
         /\ \A h \in Dirs \ {f} : u[h] = t[h]
         /\ g \in Reached(t) => u = [t EXCEPT ![f] = g]
<1>1. CASE g \in Reached(t)
  <2>1. u = [t EXCEPT ![f] = g]
    BY <1>1 DEF Attached
  <2>2. g \notin Within(t, f)
    BY <1>1, TopIsOutside, DetachedReachesNothing
  <2>3. u \in Tree /\ \A h \in Dirs \ {f} : u[h] = t[h]
    BY <2>1 DEF Tree
  <2>4. Reached(t) \subseteq Reached(u)
    BY <1>1, <2>1, <2>2, HangingReaches
  <2>5. Acyclic(u)
    BY <2>1, <2>2, HangingKeepsAcyclic
  <2> QED BY <2>1, <2>3, <2>4, <2>5
<1>2. CASE g \notin Reached(t)
  <2>1. t[f] = Gone
    BY <1>2, TopIsReached
  <2>2. u = t
    BY <1>2, <2>1 DEF Attached, Tree
  <2> QED BY <1>2, <2>2
<1> QED BY <1>1, <1>2

LEMMA RemovedTree ==
  ASSUME NEW t \in Tree, Acyclic(t), NEW f \in Dirs, NEW u, u = [t EXCEPT ![f] = Gone]
  PROVE  u \in Tree /\ Acyclic(u) /\ u[f] = Gone /\ \A h \in Dirs \ {f} : u[h] = t[h]
<1>1. u \in Tree /\ u[f] = Gone /\ \A h \in Dirs \ {f} : u[h] = t[h]
  BY DEF Tree
<1>2. Gone \notin Within(t, f)
  BY GoneIsOutside DEF TreeNodes
<1> QED BY <1>1, <1>2, HangingKeepsAcyclic

\* moveNode.
LEMMA MovedTree ==
  ASSUME NEW f \in Dirs, NEW g \in TreeNodes, tree.up \in Tree, Acyclic(tree.up), NEW u, u = Moved(f, g)
  PROVE  /\ u \in Tree /\ Acyclic(u)
         /\ \A h \in Dirs \ {f} : u[h] = tree.up[h]
         /\ tree.up[f] = Gone => u[f] = Gone
         /\ f \in Reached(tree.up) /\ g \in Reached(tree.up) /\ g \notin Within(tree.up, f)
              => u = [tree.up EXCEPT ![f] = g]
<1>1. CASE f \notin Reached(tree.up)
  BY <1>1 DEF Moved
<1>2. CASE f \in Reached(tree.up)
  <2>1. PICK t : t = tree.up
    OBVIOUS
  <2>2. PICK w : w = [t EXCEPT ![f] = Gone]
    OBVIOUS
  <2>3. w \in Tree /\ Acyclic(w) /\ w[f] = Gone /\ \A h \in Dirs \ {f} : w[h] = t[h]
    <3>1. t \in Tree /\ Acyclic(t)
      BY <2>1
    <3>2. w \in Tree /\ w[f] = Gone /\ \A h \in Dirs \ {f} : w[h] = t[h]
      BY <2>2, <3>1 DEF Tree
    <3>3. Gone \notin Within(t, f)
      BY GoneIsOutside DEF TreeNodes
    <3>4. Acyclic(w)
      BY <2>2, <3>1, <3>3, HangingKeepsAcyclic
    <3> QED BY <3>2, <3>4
  <2>4. u = Attached(w, f, g)
    BY <1>2, <2>1, <2>2 DEF Moved
  <2>5. u \in Tree /\ Acyclic(u) /\ (\A h \in Dirs \ {f} : u[h] = w[h]) /\ (g \in Reached(w) => u = [w EXCEPT ![f] = g])
    BY <2>3, <2>4, AttachedTree
  <2>6. tree.up[f] # Gone
    BY <1>2, ReachedIsThere, FoldersHaveShape
  <2>7. ASSUME g \in Reached(t), g \notin Within(t, f) PROVE u = [t EXCEPT ![f] = g]
    <3>1. g \in Reached(w)
      BY <2>1, <2>2, <2>7, TakenOut
    <3>2. u = [w EXCEPT ![f] = g]
      BY <2>5, <3>1
    <3> QED BY <2>1, <2>2, <3>2 DEF Tree
  <2> QED BY <2>1, <2>3, <2>5, <2>6, <2>7
<1> QED BY <1>1, <1>2

-----------------------------------------------------------------------------
(* The steps of the folder tree keep the invariant.                         *)

LEMMA IdleIsAsk == Idle \in AskRecord /\ Idle.op = "none" /\ Idle.stage = "free"
BY FoldersHaveShape DEF Idle, AskRecord, AskOps, Missing, TreeNodes

LEMMA AskOpens ==
  ASSUME asks \in [Asks -> AskRecord], chosen \in TreeNodes, NEW op \in AskOps \ {"none"}, NEW f \in TreeNodes,
         NEW to \in TreeNodes, NEW rest \in SUBSET Dirs, Ask(op, f, to, rest)
  PROVE  \E c \in Asks, a \in AskRecord :
              /\ asks[c].op = "none" /\ asks' = [asks EXCEPT ![c] = a]
              /\ a.op = op /\ a.f = f /\ a.to = to /\ a.rest = rest /\ a.at = chosen
              /\ a.stage = "sent" /\ ~a.failed
<1>1. PICK c : c = CHOOSE b \in FreeAsks(asks) : TRUE
  OBVIOUS
<1>2. c \in Asks /\ asks[c].op = "none"
  BY <1>1 DEF Ask, FreeAsks
<1>3. PICK a : a = [Idle EXCEPT !.op = op, !.f = f, !.to = to, !.rest = rest, !.at = chosen, !.stage = "sent"]
  OBVIOUS
<1>4. asks' = [asks EXCEPT ![c] = a]
  BY <1>1, <1>3 DEF Ask
<1>5. /\ a \in AskRecord
      /\ a.op = op /\ a.f = f /\ a.to = to /\ a.rest = rest /\ a.at = chosen
      /\ a.stage = "sent" /\ ~a.failed
  BY <1>3, IdleIsAsk DEF AskRecord, Idle
<1> QED BY <1>2, <1>4, <1>5

LEMMA AskUnraced ==
  ASSUME NEW op, NEW f, NEW to, NEW rest, Ask(op, f, to, rest), ~raced', NEW b \in Asks
  PROVE  ~raced /\ asks[b].op \notin Mutations /\ (op \in Mutations => asks[b].op = "none")
BY DEF Ask, Races, Mutations

\* A request sent by a handler, with what the handler made sure of.
LEMMA AskKeeps ==
  ASSUME FoldersIInv, NEW op \in AskOps \ {"none"}, NEW f \in TreeNodes,
         NEW to \in TreeNodes, NEW rest \in SUBSET Dirs, Ask(op, f, to, rest),
         UNCHANGED <<dirs, byId, tree, chosen, given>>, creating' \in BOOLEAN, creating => creating',
         op \in Mutations => f \in Dirs,
         op \in {"move", "delete", "rename"} => Loaded,
         op = "create" => f \notin given /\ (to = Top \/ Loaded) /\ ~creating /\ creating',
         op = "tree" => ~Loaded /\ \A c \in Asks : asks[c].op # "tree",
         op = "move" /\ ~raced /\ (\A c \in Asks : asks[c].op = "none")
           => \A x \in rest \cup {f} : AcceptedIn(dirs, x, to)
  PROVE  FoldersIInv'
<1>1. asks \in [Asks -> AskRecord] /\ chosen \in TreeNodes
  BY DEF FoldersIInv, AsksInv, TreeInv, FoldersTypeOK
<1>2. PICK c \in Asks, a \in AskRecord :
              /\ asks[c].op = "none" /\ asks' = [asks EXCEPT ![c] = a]
              /\ a.op = op /\ a.f = f /\ a.to = to /\ a.rest = rest /\ a.at = chosen
              /\ a.stage = "sent" /\ ~a.failed
  BY <1>1, AskOpens
<1>3. ~raced' => ~raced /\ \A b \in Asks : /\ asks[b].op \notin Mutations
                                           /\ op \in Mutations => asks[b].op = "none"
  <2>1. ASSUME ~raced', NEW b \in Asks PROVE ~raced /\ asks[b].op \notin Mutations /\ (op \in Mutations => asks[b].op = "none")
    BY <2>1, AskUnraced
  <2> QED BY <1>2, <2>1
<1>4. /\ asks' \in [Asks -> AskRecord] /\ asks'[c] = a
      /\ \A b \in Asks \ {c} : asks'[b] = asks[b]
  BY <1>1, <1>2
<1>5. TreeInv'
  BY DEF FoldersIInv, TreeInv, FoldersTypeOK, HangsTogether, Recorded, ClientTreeIsForest
<1>6. AsksInv'
  <2>1. ASSUME NEW b \in Asks PROVE AskOK(asks[b])'
    <3>1. CASE b = c
      <4>1. op = "create" => tree.up[f] = Gone
        BY DEF FoldersIInv, TreeInv, Mutations
      <4> QED BY <1>2, <1>4, <3>1, <4>1 DEF AskOK, Heard, Loaded
    <3>2. CASE b # c
      <4>1. AskOK(asks[b])
        BY DEF FoldersIInv, AsksInv
      <4> QED BY <1>4, <3>2, <4>1 DEF AskOK, Heard, Loaded, HangsTogether, Recorded
    <3> QED BY <3>1, <3>2
  <2>2. \A b \in Asks : asks'[b].op = "tree" => ~Loaded' /\ \A e \in Asks \ {b} : asks'[e].op # "tree"
    BY <1>2, <1>4 DEF FoldersIInv, AsksInv, Loaded
  <2>3. \A b \in Asks : asks'[b].op = "create" => creating' /\ \A e \in Asks \ {b} : asks'[e].op # "create"
    BY <1>2, <1>4 DEF FoldersIInv, AsksInv
  <2> QED BY <1>4, <2>1, <2>2, <2>3 DEF AsksInv
<1>7. UnracedInv'
  <2>1. SUFFICES ASSUME ~raced' PROVE UnracedInv'
    BY DEF UnracedInv
  <2>2. ~raced /\ \A b \in Asks : /\ asks[b].op \notin Mutations
                                  /\ op \in Mutations => asks[b].op = "none"
    BY <1>3, <2>1
  <2>3. \A b \in Asks : ~Changing(asks[b]) /\ ~Deleting(asks[b])
    BY <2>2 DEF Changing, Deleting, Mutations
  <2>4. \A b \in Asks : ~Changing(asks'[b])
    BY <1>2, <1>4, <2>3 DEF Changing, Heard
  <2>5. Agrees(dirs) /\ Present(chosen)
    BY <2>2, <2>3 DEF FoldersIInv, UnracedInv
  <2>6. \A b \in Asks : asks'[b].op \in Mutations => \A e \in Asks \ {b} : asks'[e].op = "none"
    BY <1>2, <1>4, <2>2
  <2>7. \A b \in Asks : Heard(asks'[b]) => asks'[b].told = dirs'
    BY <1>2, <1>4, <2>2 DEF Heard, FoldersIInv, UnracedInv
  <2>8. \A b \in Asks : asks'[b].op = "delete" => asks'[b].at = chosen'
    BY <1>2, <1>4, <2>2 DEF Mutations
  <2>9. \A b \in Asks : asks'[b].op = "move" =>
         \A x \in asks'[b].rest \cup (IF asks'[b].stage = "sent" THEN {asks'[b].f} ELSE {}) :
           AcceptedIn(dirs', x, asks'[b].to)
    BY <1>2, <1>4, <2>2 DEF Mutations
  <2>10. Agrees(dirs)' /\ Present(chosen)'
    BY <2>5 DEF Agrees, Present, Loaded
  <2>11. \A b \in Asks : ~Changing(asks[b])'
    BY <2>4 DEF Changing, Heard
  <2>12. \A b \in Asks : Heard(asks[b])' => asks'[b].told = dirs'
    BY <2>7 DEF Heard
  <2>13. \A b \in Asks : asks'[b].op = "move" =>
         \A x \in asks'[b].rest \cup (IF asks'[b].stage = "sent" THEN {asks'[b].f} ELSE {}) :
           AcceptedIn(dirs, x, asks[b].to)'
    BY <2>9 DEF AcceptedIn, PresentIn
  <2> QED BY ONLY <2>6, <2>8, <2>10, <2>11, <2>12, <2>13 DEF UnracedInv
<1> QED BY <1>5, <1>6, <1>7 DEF FoldersIInv

LEMMA OpsAreOps ==
  /\ Mutations = {"create", "move", "delete", "rename"} /\ AskOps = {"none", "tree", "list"} \cup Mutations
  /\ Top \in TreeNodes /\ Dirs \subseteq TreeNodes
BY DEF Mutations, AskOps, TreeNodes

\* What the client's tree reaches is there on the server, while nothing is answered.
LEMMA ReachedIsPresent ==
  ASSUME FoldersIInv, ~raced, \A c \in Asks : ~Changing(asks[c]), NEW f \in Reached(tree.up)
  PROVE  /\ PresentIn(dirs, f)
         /\ Loaded => tree.up = Parents(dirs)
<1>1. Agrees(dirs)
  BY DEF FoldersIInv, UnracedInv
<1>2. tree.up \in Tree /\ (~Loaded => tree.up = Unloaded) /\ dirs \in [Dirs -> Folder]
  BY DEF FoldersIInv, TreeInv, FoldersTypeOK, Tree, Loaded, TreeNodes, Folder
<1>3. f # Top => f \in Dirs /\ tree.up[f] # Gone
  BY <1>2, ReachedIsThere
<1>4. CASE Loaded
  <2>1. tree.up = Parents(dirs)
    BY <1>1, <1>4 DEF Agrees
  <2> QED BY <1>2, <1>3, <2>1, ParentsAreTree DEF PresentIn
<1>5. CASE ~Loaded
  BY <1>2, <1>3, <1>5 DEF PresentIn, Unloaded
<1> QED BY <1>4, <1>5

LEMMA FoldersTyped0 == ASSUME FoldersIInv PROVE
  /\ tree.up \in Tree /\ Acyclic(tree.up) /\ dirs \in [Dirs -> Folder] /\ byId \in [Dirs -> Folder]
  /\ asks \in [Asks -> AskRecord] /\ chosen \in TreeNodes /\ creating \in BOOLEAN
  /\ tree \in [loaded : BOOLEAN, up : [Dirs -> TreeNodes \cup {Gone}]] /\ tree.loaded \in BOOLEAN
  /\ given \subseteq Dirs /\ (~Loaded => tree.up = Unloaded) /\ HangsTogether(dirs) /\ Recorded(dirs)
<1>1. TreeInv /\ AsksInv
  BY DEF FoldersIInv
<1>2. /\ tree.up \in Tree /\ dirs \in [Dirs -> Folder] /\ byId \in [Dirs -> Folder]
      /\ chosen \in TreeNodes /\ creating \in BOOLEAN
      /\ tree \in [loaded : BOOLEAN, up : [Dirs -> TreeNodes \cup {Gone}]]
      /\ given \subseteq Dirs /\ (~Loaded => tree.up = Unloaded)
  BY <1>1 DEF TreeInv, FoldersTypeOK, Tree, Loaded, TreeNodes, Folder
<1>3. Acyclic(tree.up) /\ HangsTogether(dirs) /\ Recorded(dirs)
  BY <1>1 DEF TreeInv, ClientTreeIsForest, Acyclic
<1>4. asks \in [Asks -> AskRecord]
  BY <1>1 DEF AsksInv
<1> QED BY <1>2, <1>3, <1>4

LEMMA EnsureTreeKeeps == ASSUME FoldersIInv, EnsureTree PROVE FoldersIInv'
<1>1. creating \in BOOLEAN
  BY FoldersTyped0
<1> QED BY <1>1, OpsAreOps, AskKeeps DEF EnsureTree

LEMMA ListSubfoldersKeeps == ASSUME FoldersIInv, ListSubfolders PROVE FoldersIInv'
<1>1. creating \in BOOLEAN /\ chosen \in TreeNodes
  BY FoldersTyped0
<1> QED BY <1>1, OpsAreOps, AskKeeps DEF ListSubfolders

LEMMA CreateFolderKeeps ==
  ASSUME FoldersIInv, NEW f \in Dirs, NEW g \in TreeNodes, CreateFolder(f, g)
  PROVE  FoldersIInv'
<1>1. Loaded \/ g = Top
  <2>1. tree.up \in Tree /\ (~Loaded => tree.up = Unloaded) /\ g \in Reached(tree.up)
    BY FoldersTyped0 DEF CreateFolder
  <2>2. ~Loaded /\ g # Top => g \in Dirs /\ tree.up[g] # Gone /\ tree.up[g] = Gone
    BY <2>1, ReachedIsThere DEF Unloaded
  <2> QED BY <2>2
<1>2. creating \in BOOLEAN
  BY FoldersTyped0
<1>3. UNCHANGED <<dirs, byId, tree, chosen, given>> /\ f \notin given /\ ~creating /\ creating' /\ creating' \in BOOLEAN
  BY DEF CreateFolder
<1>4. Ask("create", f, g, {}) /\ {} \in SUBSET Dirs /\ f \in TreeNodes /\ "create" \in AskOps \ {"none"}
  BY OpsAreOps DEF CreateFolder
<1> QED BY <1>1, <1>3, <1>4, AskKeeps

LEMMA RenameFolderKeeps == ASSUME FoldersIInv, NEW f \in Dirs, RenameFolder(f) PROVE FoldersIInv'
<1>1. creating \in BOOLEAN
  BY FoldersTyped0
<1>2. UNCHANGED <<dirs, byId, tree, chosen, given>> /\ Loaded /\ creating' \in BOOLEAN /\ (creating => creating')
  BY <1>1 DEF RenameFolder, Known
<1>3. Ask("rename", f, Top, {}) /\ {} \in SUBSET Dirs /\ f \in TreeNodes /\ Top \in TreeNodes /\ "rename" \in AskOps \ {"none"}
  BY OpsAreOps DEF RenameFolder
<1>4. "rename" # "create" /\ "rename" # "tree" /\ "rename" # "move"
  OBVIOUS
<1> QED BY ONLY FoldersIInv, f \in Dirs, <1>2, <1>3, <1>4, AskKeeps

LEMMA DeleteFolderKeeps == ASSUME FoldersIInv, NEW f \in Dirs, DeleteFolder(f) PROVE FoldersIInv'
<1>1. creating \in BOOLEAN
  BY FoldersTyped0
<1>2. UNCHANGED <<dirs, byId, tree, chosen, given>> /\ Loaded /\ creating' \in BOOLEAN /\ (creating => creating')
  BY <1>1 DEF DeleteFolder, Known
<1>3. Ask("delete", f, Top, {}) /\ {} \in SUBSET Dirs /\ f \in TreeNodes /\ Top \in TreeNodes /\ "delete" \in AskOps \ {"none"}
  BY OpsAreOps DEF DeleteFolder
<1>4. "delete" # "create" /\ "delete" # "tree" /\ "delete" # "move"
  OBVIOUS
<1> QED BY ONLY FoldersIInv, f \in Dirs, <1>2, <1>3, <1>4, AskKeeps

LEMMA DropFoldersKeeps ==
  ASSUME FoldersIInv, NEW fs \in SUBSET Dirs, NEW g \in TreeNodes, DropFolders(fs, g)
  PROVE  FoldersIInv'
<1>1. PICK rest : rest = {f \in fs : tree.up[f] # g}
  OBVIOUS
<1>2. PICK f : f = CHOOSE x \in rest : TRUE
  OBVIOUS
<1>3. f \in rest /\ rest \subseteq fs /\ Ask("move", f, g, rest \ {f})
  BY <1>1, <1>2 DEF DropFolders
<1>4. PICK others : others = rest \ {f}
  OBVIOUS
<1>5. Loaded
  BY <1>3 DEF DropFolders, Known
<1>6. ASSUME ~raced, \A c \in Asks : asks[c].op = "none", NEW x \in rest PROVE AcceptedIn(dirs, x, g)
  <2>1. \A c \in Asks : ~Changing(asks[c])
    BY <1>6 DEF Changing, Mutations
  <2>2. x \in Dirs /\ x \in Reached(tree.up) /\ g \in Reached(tree.up) /\ ~IsInvalidDrop(x, g)
    BY <1>3, <1>6 DEF DropFolders, Known
  <2>3. PresentIn(dirs, x) /\ PresentIn(dirs, g) /\ tree.up = Parents(dirs)
    BY <1>5, <1>6, <2>1, <2>2, ReachedIsPresent
  <2>4. g \notin Within(tree.up, x)
    BY <2>2, TopIsOutside DEF IsInvalidDrop
  <2> QED BY <2>3, <2>4 DEF AcceptedIn
<1>7. creating \in BOOLEAN
  BY FoldersTyped0
<1>8. UNCHANGED <<dirs, byId, tree, chosen, creating, given>>
  BY DEF DropFolders
<1>9. others \in SUBSET Dirs /\ f \in Dirs /\ rest = others \cup {f} /\ Ask("move", f, g, others)
  BY <1>3, <1>4
<1> QED BY <1>5, <1>6, <1>7, <1>8, <1>9, OpsAreOps, AskKeeps

LEMMA SelectNodeKeeps ==
  ASSUME FoldersIInv, NEW f \in TreeNodes, SelectNode(f)
  PROVE  FoldersIInv'
<1>1. /\ f \in Reached(tree.up) /\ chosen' = f
      /\ UNCHANGED <<dirs, byId, tree, creating, asks, given>>
      /\ ~raced' => ~raced /\ \A c \in Asks : asks[c].op # "delete"
  BY DEF SelectNode
<1>2. TreeInv'
  BY <1>1 DEF FoldersIInv, TreeInv, FoldersTypeOK, HangsTogether, Recorded, ClientTreeIsForest
<1>3. AsksInv'
  <2>1. ASSUME NEW b \in Asks PROVE AskOK(asks[b])'
    <3>1. AskOK(asks[b])
      BY DEF FoldersIInv, AsksInv
    <3> QED BY <1>1, <3>1 DEF AskOK, Heard, Loaded, HangsTogether, Recorded
  <2> QED BY <1>1, <2>1 DEF FoldersIInv, AsksInv, Loaded
<1>4. UnracedInv'
  <2>1. SUFFICES ASSUME ~raced' PROVE UnracedInv'
    BY DEF UnracedInv
  <2>2. ~raced /\ UnracedInv /\ \A c \in Asks : asks[c].op # "delete"
    BY <1>1, <2>1 DEF FoldersIInv
  <2>3. PresentIn(dirs, f)
    <3>1. CASE \A c \in Asks : ~Changing(asks[c])
      BY <1>1, <2>2, <3>1, ReachedIsPresent
    <3>2. ASSUME NEW c \in Asks, Changing(asks[c]) PROVE PresentIn(dirs, f)
      <4>1. PICK d \in [Dirs -> Folder] : ChangedFrom(d, asks[c].op, asks[c].f, asks[c].to)
        BY <2>2, <3>2 DEF UnracedInv
      <4>2. asks[c].f \in Dirs /\ asks[c].op # "delete" /\ asks[c].to \in TreeNodes
        BY <2>2, <3>2, FoldersTyped0 DEF FoldersIInv, AsksInv, AskOK, Changing, AskRecord
      <4>3. PresentIn(d, f)
        <5>1. tree.up \in Tree /\ (~Loaded => tree.up = Unloaded)
          BY FoldersTyped0
        <5>2. f # Top => f \in Dirs /\ tree.up[f] # Gone
          BY <1>1, <5>1, ReachedIsThere
        <5>3. Loaded => tree.up = Parents(d)
          BY <4>1 DEF ChangedFrom, Agrees
        <5> QED BY <5>1, <5>2, <5>3, ParentsAreTree DEF PresentIn, Unloaded
      <4>4. \A h \in Dirs : d[h].parent # Gone => dirs[h].parent # Gone
        BY <4>1, <4>2, FoldersHaveShape DEF ChangedFrom, Folder
      <4> QED BY <4>3, <4>4 DEF PresentIn, TreeNodes
    <3> QED BY <3>1, <3>2
  <2>4. Present(chosen)'
    BY <1>1, <2>3 DEF Present, PresentIn
  <2>5. /\ \A c \in Asks : asks[c].op \in Mutations => \A b \in Asks \ {c} : asks[b].op = "none"
        /\ \A c \in Asks : Heard(asks[c]) => asks[c].told = dirs
        /\ (\A c \in Asks : ~Changing(asks[c])) => Agrees(dirs)
        /\ \A c \in Asks : Changing(asks[c]) =>
             \E d \in [Dirs -> Folder] : ChangedFrom(d, asks[c].op, asks[c].f, asks[c].to)
        /\ \A c \in Asks : asks[c].op = "move" =>
             \A x \in asks[c].rest \cup (IF asks[c].stage = "sent" THEN {asks[c].f} ELSE {}) : AcceptedIn(dirs, x, asks[c].to)
    BY <2>2 DEF UnracedInv
  <2>6. /\ \A c \in Asks : asks'[c].op \in Mutations => \A b \in Asks \ {c} : asks'[b].op = "none"
        /\ \A c \in Asks : Heard(asks[c])' => asks'[c].told = dirs'
        /\ \A c \in Asks : asks'[c].op = "move" =>
             \A x \in asks'[c].rest \cup (IF asks'[c].stage = "sent" THEN {asks'[c].f} ELSE {}) : AcceptedIn(dirs, x, asks[c].to)'
    BY <1>1, <2>5 DEF Heard, AcceptedIn, PresentIn
  <2>7. (\A c \in Asks : ~Changing(asks[c])') => Agrees(dirs)'
    BY <1>1, <2>5 DEF Heard, Changing, Agrees, Loaded
  <2>8. ASSUME NEW c \in Asks, Changing(asks[c])'
        PROVE  \E d \in [Dirs -> Folder] : ChangedFrom(d, asks[c].op, asks[c].f, asks[c].to)'
    <3>1. Changing(asks[c])
      BY <1>1, <2>8 DEF Heard, Changing
    <3>2. PICK d \in [Dirs -> Folder] : ChangedFrom(d, asks[c].op, asks[c].f, asks[c].to)
      BY <2>5, <3>1
    <3>3. ChangedFrom(d, asks[c].op, asks[c].f, asks[c].to)'
      BY <1>1, <3>2 DEF ChangedFrom, Agrees, Loaded
    <3> QED BY <3>3
  <2>9. \A c \in Asks : asks'[c].op # "delete"
    BY <1>1, <2>2
  <2> QED BY ONLY <2>4, <2>6, <2>7, <2>8, <2>9 DEF UnracedInv
<1> QED BY <1>2, <1>3, <1>4 DEF FoldersIInv

LEMMA OthersMoveKeeps ==
  ASSUME FoldersIInv, NEW f \in Dirs, NEW g \in TreeNodes, OthersMove(f, g)
  PROVE  FoldersIInv'
<1>1. /\ dirs' = [dirs EXCEPT ![f].parent = g] /\ raced' = TRUE /\ AcceptedIn(dirs, f, g)
      /\ UNCHANGED <<byId, tree, creating, asks, chosen, given>>
  BY DEF OthersMove, Accepts, AcceptedIn, Present, PresentIn
<1>2. dirs \in [Dirs -> Folder] /\ HangsTogether(dirs) /\ Recorded(dirs)
  BY FoldersTyped0
<1>3. PICK e : e = dirs'
  OBVIOUS
<1>4. e \in [Dirs -> Folder] /\ HangsTogether(e)
  BY <1>1, <1>2, <1>3, HungFolders DEF AcceptedIn
<1>5. Recorded(e)
  <2>1. f \in given
    BY <1>1, <1>2, FoldersHaveShape DEF AcceptedIn, PresentIn, Recorded
  <2> QED BY <1>1, <1>2, <1>3, <2>1 DEF Recorded
<1>6. dirs' \in [Dirs -> Folder] /\ HangsTogether(dirs)' /\ Recorded(dirs)'
  BY <1>1, <1>3, <1>4, <1>5 DEF HangsTogether, Recorded
<1>7. TreeInv'
  BY <1>1, <1>6 DEF FoldersIInv, TreeInv, FoldersTypeOK, ClientTreeIsForest, Folder, TreeNodes
<1>8. AsksInv'
  <2>1. ASSUME NEW b \in Asks PROVE AskOK(asks[b])'
    <3>1. AskOK(asks[b])
      BY DEF FoldersIInv, AsksInv
    <3> QED BY <1>1, <3>1 DEF AskOK, Heard, Loaded, HangsTogether, Recorded
  <2> QED BY <1>1, <2>1 DEF FoldersIInv, AsksInv, Loaded
<1>9. UnracedInv'
  BY <1>1 DEF UnracedInv
<1> QED BY <1>7, <1>8, <1>9 DEF FoldersIInv

\* The folders after a request was served.
LEMMA ServedFolders ==
  ASSUME NEW d \in [Dirs -> Folder], HangsTogether(d), NEW op \in AskOps, NEW f \in TreeNodes, NEW g \in TreeNodes,
         op \in Mutations => f \in Dirs,
         d = dirs, Permitted(op, f, g), NEW e, e = Changed(op, f, g)
  PROVE  /\ e \in [Dirs -> Folder] /\ HangsTogether(e)
         /\ \A h \in Dirs : d[h].parent = Gone /\ e[h].parent # Gone => op = "create" /\ h = f
         /\ \A h \in Dirs : d[h].parent # Gone /\ e[h].parent = Gone => op = "delete" /\ h = f
         /\ op = "create" => e[f].parent = g
         /\ op \notin Mutations => e = d
<1>1. CASE op = "create"
  <2>1. f \in Dirs /\ PresentIn(d, g) /\ d[f].parent = Gone /\ e = [d EXCEPT ![f].parent = g]
    BY <1>1, OpsAreOps, FoldersHaveShape DEF Permitted, Changed, Present, PresentIn
  <2>2. e \in [Dirs -> Folder] /\ HangsTogether(e)
    <3>1. d \in [Dirs -> Folder] /\ HangsTogether(d) /\ g \in TreeNodes
      OBVIOUS
    <3> QED BY ONLY <2>1, <3>1, HungFolders
  <2>3. e[f].parent = g /\ \A h \in Dirs \ {f} : e[h] = d[h]
    BY <2>1 DEF Folder
  <2>4. g # Gone
    BY FoldersHaveShape
  <2>5. \A h \in Dirs : d[h].parent = Gone /\ e[h].parent # Gone => h = f
    BY <2>3
  <2>6. \A h \in Dirs : e[h].parent = Gone => d[h].parent = Gone
    BY <2>3, <2>4
  <2>7. op \in Mutations
    BY <1>1, OpsAreOps
  <2>8. \A h \in Dirs : d[h].parent = Gone /\ e[h].parent # Gone => op = "create" /\ h = f
    BY <1>1, <2>5
  <2>9. \A h \in Dirs : d[h].parent # Gone /\ e[h].parent = Gone => op = "delete" /\ h = f
    BY <2>6
  <2>10. e[f].parent = g
    BY <2>3
  <2> QED BY ONLY <2>2, <2>7, <2>8, <2>9, <2>10
<1>2. CASE op = "move"
  <2>1. f \in Dirs /\ AcceptedIn(d, f, g) /\ e = [d EXCEPT ![f].parent = g]
    BY <1>2, OpsAreOps DEF Permitted, Changed, Accepts, AcceptedIn, Present, PresentIn
  <2>2. e \in [Dirs -> Folder] /\ HangsTogether(e)
    <3>1. d \in [Dirs -> Folder] /\ HangsTogether(d) /\ g \in TreeNodes
      OBVIOUS
    <3>2. PresentIn(d, g) /\ g \notin Within(Parents(d), f)
      BY <2>1 DEF AcceptedIn
    <3> QED BY ONLY <2>1, <3>1, <3>2, HungFolders
  <2>3. e[f].parent = g /\ \A h \in Dirs \ {f} : e[h] = d[h]
    BY <2>1 DEF Folder
  <2>4. d[f].parent # Gone
    BY <2>1, FoldersHaveShape DEF AcceptedIn, PresentIn
  <2>5. g # Gone
    BY FoldersHaveShape
  <2>6. \A h \in Dirs : d[h].parent = Gone <=> e[h].parent = Gone
    BY <2>3, <2>4, <2>5
  <2>7. op \in Mutations
    BY <1>2, OpsAreOps
  <2>8. \A h \in Dirs : d[h].parent = Gone /\ e[h].parent # Gone => op = "create" /\ h = f
    BY <2>6
  <2>9. \A h \in Dirs : d[h].parent # Gone /\ e[h].parent = Gone => op = "delete" /\ h = f
    BY <2>6
  <2>10. op # "create"
    BY <1>2
  <2> QED BY ONLY <2>2, <2>7, <2>8, <2>9, <2>10
<1>3. CASE op = "rename"
  <2>1. f \in Dirs /\ PresentIn(d, f) /\ e = [d EXCEPT ![f].name = "new"]
    BY <1>3, OpsAreOps DEF Permitted, Changed, Present, PresentIn
  <2>2. e \in [Dirs -> Folder] /\ HangsTogether(e) /\ Parents(e) = Parents(d)
    BY <2>1, RenamedFolders
  <2>3. \A h \in Dirs : e[h].parent = d[h].parent
    BY <2>2, ParentsAreTree
  <2> QED BY <1>3, <2>2, <2>3, OpsAreOps
<1>4. CASE op = "delete"
  <2>1. f \in Dirs /\ (\A h \in Dirs : d[h].parent # f) /\ e = [d EXCEPT ![f] = Missing]
    BY <1>4, OpsAreOps DEF Permitted, Changed, Subfolders
  <2>2. e \in [Dirs -> Folder] /\ HangsTogether(e)
    BY <2>1, DeletedFolders
  <2>3. Missing.parent = Gone
    BY DEF Missing
  <2>4. e[f] = Missing /\ \A h \in Dirs \ {f} : e[h] = d[h]
    BY <2>1
  <2> QED BY <1>4, <2>2, <2>3, <2>4, OpsAreOps
<1>5. CASE op \notin Mutations
  <2>1. e = d
    BY <1>5, OpsAreOps DEF Changed
  <2> QED BY <1>5, <2>1, OpsAreOps
<1> QED BY <1>1, <1>2, <1>3, <1>4, <1>5, OpsAreOps

LEMMA ServeFolderKeeps == ASSUME FoldersIInv, NEW c \in Asks, ServeFolder(c) PROVE FoldersIInv'
<1>1. PICK a : a = asks[c]
  OBVIOUS
<1>2. a \in AskRecord /\ AskOK(a) /\ a.stage = "sent" /\ a.op # "none" /\ ~a.failed
  BY <1>1, FoldersTyped0 DEF ServeFolder, FoldersIInv, AsksInv, AskOK
<1>3. a.f \in TreeNodes /\ a.to \in TreeNodes /\ a.op \in AskOps /\ (a.op \in Mutations => a.f \in Dirs)
  BY <1>2 DEF AskRecord, AskOK
<1>4. /\ UNCHANGED <<byId, tree, chosen, creating, raced>>
      /\ given' = given \cup {h \in Dirs : dirs'[h].parent # Gone}
  BY DEF ServeFolder
<1>5. dirs \in [Dirs -> Folder] /\ HangsTogether(dirs) /\ Recorded(dirs)
  BY FoldersTyped0
\* The request is refused, or does what it asks.
<1>6. PICK b : /\ b \in AskRecord /\ asks' = [asks EXCEPT ![c] = b]
               /\ b.stage = "answered" /\ b.op = a.op /\ b.f = a.f /\ b.to = a.to /\ b.at = a.at /\ b.rest = a.rest
               /\ \/ ~b.failed /\ Permitted(a.op, a.f, a.to) /\ dirs' = Changed(a.op, a.f, a.to) /\ b.told = dirs'
                  \/ b.failed /\ dirs' = dirs
  <2>1. \/ /\ Permitted(a.op, a.f, a.to) /\ dirs' = Changed(a.op, a.f, a.to)
           /\ asks' = [asks EXCEPT ![c].stage = "answered", ![c].told = dirs']
        \/ /\ asks' = [asks EXCEPT ![c].stage = "answered", ![c].failed = TRUE]
           /\ dirs' = dirs
    BY <1>1 DEF ServeFolder
  <2>2. CASE /\ Permitted(a.op, a.f, a.to) /\ dirs' = Changed(a.op, a.f, a.to)
             /\ asks' = [asks EXCEPT ![c].stage = "answered", ![c].told = dirs']
    <3>1. PICK e : e = dirs'
      OBVIOUS
    <3>2. e \in [Dirs -> Folder]
      BY <1>3, <1>5, <2>2, <3>1, ServedFolders
    <3>3. PICK b : b = [a EXCEPT !.stage = "answered", !.told = e]
      OBVIOUS
    <3>4. asks' = [asks EXCEPT ![c] = b]
      BY <1>1, <2>2, <3>1, <3>3, FoldersTyped0
    <3>5. b \in AskRecord /\ b.failed = a.failed /\ b.stage = "answered" /\ b.told = e
          /\ b.op = a.op /\ b.f = a.f /\ b.to = a.to /\ b.at = a.at /\ b.rest = a.rest
      BY <1>2, <3>2, <3>3 DEF AskRecord
    <3> QED BY <1>2, <2>2, <3>1, <3>4, <3>5
  <2>3. CASE /\ asks' = [asks EXCEPT ![c].stage = "answered", ![c].failed = TRUE]
             /\ dirs' = dirs
    <3>1. PICK b : b = [a EXCEPT !.stage = "answered", !.failed = TRUE]
      OBVIOUS
    <3>2. asks' = [asks EXCEPT ![c] = b]
      BY <1>1, <2>3, <3>1, FoldersTyped0
    <3>3. b \in AskRecord /\ b.failed /\ b.stage = "answered"
          /\ b.op = a.op /\ b.f = a.f /\ b.to = a.to /\ b.at = a.at /\ b.rest = a.rest
      BY <1>2, <3>1 DEF AskRecord
    <3> QED BY <2>3, <3>2, <3>3
  <2> QED BY <2>1, <2>2, <2>3
<1>7. PICK e : e = dirs'
  OBVIOUS
<1>8. /\ e \in [Dirs -> Folder] /\ HangsTogether(e)
      /\ \A h \in Dirs : dirs[h].parent = Gone /\ e[h].parent # Gone => a.op = "create" /\ h = a.f /\ ~b.failed
      /\ \A h \in Dirs : dirs[h].parent # Gone /\ e[h].parent = Gone => a.op = "delete" /\ h = a.f /\ ~b.failed
      /\ ~b.failed /\ a.op = "create" => e[a.f].parent = a.to
      /\ a.op \notin Mutations => e = dirs
  <2>1. CASE ~b.failed
    <3>1. Permitted(a.op, a.f, a.to) /\ e = Changed(a.op, a.f, a.to)
      BY <1>6, <1>7, <2>1
    <3> QED BY <1>3, <1>5, <2>1, <3>1, ServedFolders
  <2>2. CASE b.failed
    <3>1. e = dirs
      BY <1>6, <1>7, <2>2
    <3> QED BY <1>5, <2>2, <3>1
  <2> QED BY <2>1, <2>2
<1>9. dirs' \in [Dirs -> Folder] /\ HangsTogether(dirs)' /\ Recorded(dirs)' /\ given' \subseteq Dirs
  <2>1. \A h \in Dirs : e[h].parent # Gone => h \in given'
    BY <1>4, <1>7
  <2> QED BY <1>4, <1>7, <1>8, <2>1, FoldersTyped0 DEF HangsTogether, Recorded
<1>10. given \subseteq given' /\ (a.op # "create" => given' = given)
  <2>1. ASSUME a.op # "create", NEW h \in Dirs, e[h].parent # Gone PROVE h \in given
    BY <1>5, <1>8, <2>1 DEF Recorded
  <2> QED BY <1>4, <1>7, <2>1
<1>11. TreeInv'
  BY <1>4, <1>9, <1>10 DEF FoldersIInv, TreeInv, FoldersTypeOK, ClientTreeIsForest, Folder, TreeNodes
<1>12. /\ asks' \in [Asks -> AskRecord] /\ asks'[c] = b
       /\ \A x \in Asks \ {c} : asks'[x] = asks[x]
  BY <1>6, FoldersTyped0
<1>13. AsksInv'
  <2>1. ASSUME NEW x \in Asks PROVE AskOK(asks[x])'
    <3>1. AskOK(asks[x]) /\ \A y \in Asks \ {x} : asks[x].op = "create" => asks[y].op # "create"
      BY DEF FoldersIInv, AsksInv
    <3>2. CASE x = c
      <4>1. Heard(b) => HangsTogether(b.told)' /\ Recorded(b.told)' /\ b.told = e
        BY <1>6, <1>7, <1>8, <1>9 DEF Heard, HangsTogether, Recorded
      <4>2. Heard(b) /\ b.op = "create" => b.f \in given' /\ b.told[b.f].parent = b.to
        <5>1. SUFFICES ASSUME Heard(b), b.op = "create" PROVE b.f \in given' /\ b.told[b.f].parent = b.to
          OBVIOUS
        <5>2. a.f \in Dirs /\ ~b.failed /\ a.op = "create" /\ b.told = e
          BY <1>3, <1>6, <4>1, <5>1, OpsAreOps DEF Heard
        <5>3. e[a.f].parent = a.to /\ a.to # Gone
          BY <1>3, <1>8, <5>2, FoldersHaveShape
        <5> QED BY <1>4, <1>6, <1>7, <5>2, <5>3
      <4>3. (b.op = "none" <=> b.stage = "free") /\ (b.failed => b.stage = "answered") /\ b.stage # "sent"
        BY <1>2, <1>6
      <4>4. Loaded' = Loaded /\ tree' = tree
        BY <1>4 DEF Loaded
      <4> QED BY ONLY <1>2, <1>6, <1>12, <3>2, <4>1, <4>2, <4>3, <4>4 DEF AskOK, Heard
    <3>3. CASE x # c
      <4>1. asks[x].op = "create" => given' = given
        BY <1>1, <1>10, <3>1, <3>3
      <4>2. asks'[x] = asks[x] /\ tree' = tree /\ Loaded' = Loaded
        BY <1>4, <1>12, <3>3 DEF Loaded
      <4> QED BY <1>10, <3>1, <4>1, <4>2 DEF AskOK, Heard, HangsTogether, Recorded
    <3> QED BY <3>2, <3>3
  <2>2. \A x \in Asks : asks'[x].op = asks[x].op
    BY <1>1, <1>6, <1>12
  <2>3. Loaded' = Loaded /\ creating' = creating
    BY <1>4 DEF Loaded
  <2>4. /\ \A x \in Asks : asks[x].op = "tree" => ~Loaded /\ \A y \in Asks \ {x} : asks[y].op # "tree"
        /\ \A x \in Asks : asks[x].op = "create" => creating /\ \A y \in Asks \ {x} : asks[y].op # "create"
    BY DEF FoldersIInv, AsksInv
  <2> QED BY <1>12, <2>1, <2>2, <2>3, <2>4 DEF AsksInv
<1>14. UnracedInv'
  <2>1. SUFFICES ASSUME ~raced' PROVE UnracedInv'
    BY DEF UnracedInv
  <2>2. ~raced /\ UnracedInv
    BY <1>4, <2>1 DEF FoldersIInv
  <2> DEFINE Left(r, d) == r.op = "move" => \A x \in r.rest \cup (IF r.stage = "sent" THEN {r.f} ELSE {}) : AcceptedIn(d, x, r.to)
  <2>3. /\ \A x \in Asks : asks[x].op \in Mutations => \A y \in Asks \ {x} : asks[y].op = "none"
        /\ \A x \in Asks : Heard(asks[x]) => asks[x].told = dirs
        /\ (\A x \in Asks : ~Changing(asks[x])) => Agrees(dirs)
        /\ \A x \in Asks : Changing(asks[x]) =>
             \E d \in [Dirs -> Folder] : ChangedFrom(d, asks[x].op, asks[x].f, asks[x].to)
        /\ \A x \in Asks : asks[x].op = "delete" => asks[x].at = chosen
        /\ Present(chosen) \/ \E x \in Asks : Deleting(asks[x])
    BY <2>2 DEF UnracedInv
  <2>4. \A x \in Asks : Left(asks[x], dirs)
    BY <2>2 DEF UnracedInv
  <2> HIDE DEF Left
  <2>5. \A x \in Asks : asks'[x].op = asks[x].op /\ asks'[x].f = asks[x].f /\ asks'[x].to = asks[x].to /\ asks'[x].at = asks[x].at
    BY <1>1, <1>6, <1>12
  <2>6. \A x \in Asks : asks'[x].op \in Mutations => \A y \in Asks \ {x} : asks'[y].op = "none"
    BY <2>3, <2>5
  <2>7. \A x \in Asks : asks'[x].op = "delete" => asks'[x].at = chosen'
    BY <1>4, <2>3, <2>5
  \* A request that changes something is the only one.
  <2>8. CASE a.op \in Mutations
    <3>1. \A x \in Asks \ {c} : asks[x].op = "none" /\ ~Heard(asks[x])
      <4>1. \A x \in Asks \ {c} : asks[x].op = "none"
        BY <1>1, <2>3, <2>8
      <4>2. \A x \in Asks : AskOK(asks[x])
        BY DEF FoldersIInv, AsksInv
      <4> QED BY <4>1, <4>2 DEF AskOK, Heard
    <3>2. \A x \in Asks : ~Changing(asks[x]) /\ ~Deleting(asks[x])
      BY <1>1, <1>2, <3>1 DEF Changing, Deleting, Heard
    <3>3. Agrees(dirs) /\ Present(chosen)
      BY <2>3, <3>2
    <3>4. \A x \in Asks : Heard(asks[x])' => x = c /\ ~b.failed
      BY <1>12, <3>1 DEF Heard
    <3>5. \A x \in Asks : Heard(asks[x])' => asks'[x].told = dirs'
      BY <1>6, <1>12, <3>4
    <3>6. (\A x \in Asks : ~Changing(asks[x])') => Agrees(dirs)'
      <4>1. ASSUME \A x \in Asks : ~Changing(asks[x])' PROVE b.failed
        BY <1>6, <1>12, <2>8, <4>1 DEF Changing, Heard
      <4>2. b.failed => dirs' = dirs
        BY <1>6
      <4> QED BY <1>4, <3>3, <4>1, <4>2 DEF Agrees, Loaded
    <3>7. ASSUME NEW x \in Asks, Changing(asks[x])'
          PROVE  \E d \in [Dirs -> Folder] : ChangedFrom(d, asks[x].op, asks[x].f, asks[x].to)'
      <4>1. x = c /\ ~b.failed
        BY <3>4, <3>7 DEF Changing, Heard
      <4>2. Permitted(a.op, a.f, a.to) /\ dirs' = Changed(a.op, a.f, a.to)
        BY <1>6, <4>1
      <4>3. a.f \in Dirs /\ a.to \in TreeNodes /\ a.f # Top
        BY <1>3, <2>8, FoldersHaveShape
      <4>4. PICK d : d = dirs
        OBVIOUS
      <4>5. d \in [Dirs -> Folder] /\ HangsTogether(d) /\ Agrees(d)'
        BY <1>4, <1>5, <3>3, <4>4 DEF Agrees, Loaded
      <4>6. ChangedFrom(d, a.op, a.f, a.to)'
        <5>1. CASE a.op = "create"
          BY <4>2, <4>3, <4>4, <4>5, <5>1 DEF Permitted, Changed, Present, PresentIn, ChangedFrom, HangsTogether
        <5>2. CASE a.op = "rename"
          BY <4>2, <4>3, <4>4, <4>5, <5>2 DEF Permitted, Changed, Present, PresentIn, ChangedFrom, HangsTogether
        <5>3. CASE a.op = "move"
          BY <4>2, <4>3, <4>4, <4>5, <5>3 DEF Permitted, Changed, Accepts, AcceptedIn, Present, PresentIn, ChangedFrom, HangsTogether
        <5>4. CASE a.op = "delete"
          BY <4>2, <4>3, <4>4, <4>5, <5>4 DEF Permitted, Changed, Subfolders, Present, PresentIn, ChangedFrom, HangsTogether
        <5> QED BY <2>8, <5>1, <5>2, <5>3, <5>4, OpsAreOps
      <4>7. asks'[x].op = a.op /\ asks'[x].f = a.f /\ asks'[x].to = a.to
        BY <1>1, <2>5, <4>1
      <4> QED BY <4>5, <4>6, <4>7
    <3>8. Present(chosen)' \/ \E x \in Asks : Deleting(asks[x])'
      <4>1. CASE a.op = "delete" /\ a.f = chosen /\ ~b.failed
        BY <1>4, <1>6, <1>12, <4>1 DEF Deleting, Heard
      <4>2. CASE ~(a.op = "delete" /\ a.f = chosen /\ ~b.failed)
        BY <1>4, <1>7, <1>8, <3>3, <4>2, FoldersTyped0 DEF Present, TreeNodes
      <4> QED BY <4>1, <4>2
    <3>9. \A x \in Asks : Left(asks[x], dirs)'
      <4>1. ASSUME NEW x \in Asks PROVE Left(asks[x], dirs)'
        <5>1. CASE asks[x].op # "move"
          BY <2>5, <5>1 DEF Left
        <5>2. CASE asks[x].op = "move"
          <6>1. x = c /\ a.op = "move"
            BY <1>1, <3>1, <5>2
          <6>2. \A y \in a.rest : y \in Dirs /\ AcceptedIn(dirs, y, a.to)
            BY <1>1, <1>2, <2>4, <6>1 DEF Left, AskRecord
          <6>3. ASSUME NEW y \in a.rest PROVE AcceptedIn(e, y, a.to)
            <7>1. CASE b.failed
              BY <1>6, <1>7, <6>2, <7>1
            <7>2. CASE ~b.failed
              <8>1. e = [dirs EXCEPT ![a.f].parent = a.to] /\ a.f \in Dirs /\ a.to \in TreeNodes
                BY <1>3, <1>6, <1>7, <2>8, <6>1, <7>2 DEF Changed
              <8> QED BY ONLY <1>5, <6>2, <6>3, <8>1, StillAccepted
            <7> QED BY <7>1, <7>2
          <6>4. \A y \in a.rest : AcceptedIn(dirs, y, a.to)'
            BY <1>7, <6>3 DEF AcceptedIn, PresentIn
          <6>5. asks'[x] = b /\ b.stage = "answered" /\ b.rest = a.rest /\ b.to = a.to
            BY <1>6, <1>12, <6>1
          <6> QED BY <6>4, <6>5 DEF Left
        <5> QED BY <5>1, <5>2
      <4> QED BY <4>1
    <3> QED BY ONLY <2>6, <2>7, <3>5, <3>6, <3>7, <3>8, <3>9 DEF UnracedInv, Left
  <2>9. CASE a.op \notin Mutations
    <3>1. dirs' = dirs
      BY <1>7, <1>8, <2>9
    <3>2. \A x \in Asks : Heard(asks[x])' => asks'[x].told = dirs'
      BY <1>6, <1>12, <2>3, <3>1 DEF Heard
    <3>3. \A x \in Asks : (Changing(asks[x])' <=> Changing(asks[x])) /\ (Deleting(asks[x])' <=> Deleting(asks[x]))
      <4>1. ~Changing(asks[c]) /\ ~Changing(asks[c])' /\ ~Deleting(asks[c]) /\ ~Deleting(asks[c])'
        BY <1>1, <1>6, <1>12, <2>9, OpsAreOps DEF Changing, Deleting
      <4> QED BY <1>4, <1>12, <4>1 DEF Changing, Deleting, Heard
    <3>4. (\A x \in Asks : ~Changing(asks[x])') => Agrees(dirs)'
      BY <1>4, <2>3, <3>1, <3>3 DEF Agrees, Loaded
    <3>5. ASSUME NEW x \in Asks, Changing(asks[x])'
          PROVE  \E d \in [Dirs -> Folder] : ChangedFrom(d, asks[x].op, asks[x].f, asks[x].to)'
      <4>1. PICK d \in [Dirs -> Folder] : ChangedFrom(d, asks[x].op, asks[x].f, asks[x].to)
        BY <2>3, <3>3, <3>5
      <4>2. ChangedFrom(d, asks[x].op, asks[x].f, asks[x].to)'
        BY <1>4, <2>5, <3>1, <4>1 DEF ChangedFrom, Agrees, Loaded
      <4> QED BY <4>2
    <3>6. Present(chosen)' \/ \E x \in Asks : Deleting(asks[x])'
      BY <1>4, <2>3, <3>1, <3>3 DEF Present
    <3>7. \A x \in Asks : Left(asks[x], dirs)'
      <4>1. ASSUME NEW x \in Asks PROVE Left(asks[x], dirs)'
        <5>1. CASE x = c
          BY <1>6, <1>12, <2>9, <5>1, OpsAreOps DEF Left
        <5>2. CASE x # c
          BY <1>12, <2>4, <3>1, <5>2 DEF Left, AcceptedIn, PresentIn
        <5> QED BY <5>1, <5>2
      <4> QED BY <4>1
    <3> QED BY ONLY <2>6, <2>7, <3>2, <3>4, <3>5, <3>6, <3>7 DEF UnracedInv, Left
  <2> QED BY <2>8, <2>9
<1> QED BY <1>11, <1>13, <1>14 DEF FoldersIInv

\* A handler that is through, or goes on with the next source of its drop.
LEMMA NextAskIs ==
  ASSUME asks \in [Asks -> AskRecord], NEW c \in Asks, asks' = NextAsk(c), asks[c].op # "none"
  PROVE  \E b \in AskRecord :
           /\ asks' = [asks EXCEPT ![c] = b] /\ ~b.failed
           /\ \/ b.op = "none" /\ b.stage = "free"
              \/ /\ asks[c].op = "move" /\ b.op = "move" /\ b.stage = "sent" /\ b.to = asks[c].to
                 /\ b.f \in asks[c].rest /\ b.rest \subseteq asks[c].rest
<1>1. CASE asks[c].op = "move" /\ asks[c].rest # {}
  <2>1. PICK f : f = CHOOSE g \in asks[c].rest : TRUE
    OBVIOUS
  <2>2. f \in asks[c].rest
    BY <1>1, <2>1
  <2>3. PICK b : b = [Idle EXCEPT !.op = "move", !.f = f, !.to = asks[c].to, !.at = asks[c].at,
                                  !.rest = asks[c].rest \ {f}, !.stage = "sent"]
    OBVIOUS
  <2>4. asks' = [asks EXCEPT ![c] = b]
    BY <1>1, <2>1, <2>3 DEF NextAsk
  <2>5. asks[c] \in AskRecord
    OBVIOUS
  <2>6. b \in AskRecord /\ b.op = "move" /\ b.stage = "sent" /\ b.to = asks[c].to /\ b.f = f /\ b.rest = asks[c].rest \ {f} /\ ~b.failed
    BY <2>2, <2>3, <2>5, IdleIsAsk, OpsAreOps DEF AskRecord, Idle
  <2> QED BY <1>1, <2>2, <2>4, <2>6
<1>2. CASE ~(asks[c].op = "move" /\ asks[c].rest # {})
  <2>1. asks' = [asks EXCEPT ![c] = Idle]
    BY <1>2 DEF NextAsk
  <2>2. ~Idle.failed
    BY DEF Idle
  <2> QED BY <2>1, <2>2, IdleIsAsk
<1> QED BY <1>1, <1>2

LEMMA IngestedFolders ==
  ASSUME byId \in [Dirs -> Folder], NEW told \in [Dirs -> Folder], NEW fs \in SUBSET Dirs, NEW u, u = Ingested(told, fs)
  PROVE  u \in [Dirs -> Folder] /\ \A f \in Dirs : u[f] = IF f \in fs THEN told[f] ELSE byId[f]
BY DEF Ingested

\* What the answers do to what the client has.
LEMMA AppliedTree ==
  ASSUME FoldersIInv, NEW c \in Asks, Heard(asks[c]), Applied(c), asks[c].op # "none"
  PROVE  /\ byId' \in [Dirs -> Folder] /\ (\A f \in Dirs : byId'[f].parent = Gone => byId'[f] = Missing)
         /\ tree' \in [loaded : BOOLEAN, up : [Dirs -> TreeNodes \cup {Gone}]] /\ (~tree'.loaded => tree'.up = Unloaded)
         /\ Acyclic(tree'.up) /\ (Loaded => tree'.loaded)
         /\ \A f \in Dirs : tree'.up[f] # Gone => f \in given
         /\ asks[c].op \in {"move", "delete"} => \A f \in Dirs : tree.up[f] = Gone => tree'.up[f] = Gone
         /\ asks[c].op \in {"list", "rename"} => tree' = tree
         /\ Loaded /\ asks[c].op \in {"list", "rename", "create"} => Reached(tree.up) \subseteq Reached(tree'.up)
<1>1. PICK a : a = asks[c]
  OBVIOUS
<1>2. a \in AskRecord /\ AskOK(a) /\ Heard(a)
  BY <1>1, FoldersTyped0 DEF FoldersIInv, AsksInv
<1>3. PICK told : told = a.told
  OBVIOUS
<1>4. told \in [Dirs -> Folder] /\ HangsTogether(told) /\ Recorded(told)
  BY <1>2, <1>3 DEF AskRecord, AskOK
<1>5. a.op \in AskOps /\ a.f \in TreeNodes /\ a.to \in TreeNodes /\ (a.op \in Mutations => a.f \in Dirs)
  BY <1>2 DEF AskRecord, AskOK
<1>6. /\ byId \in [Dirs -> Folder] /\ \A f \in Dirs : byId[f].parent = Gone => byId[f] = Missing
      /\ tree \in [loaded : BOOLEAN, up : [Dirs -> TreeNodes \cup {Gone}]] /\ (~tree.loaded => tree.up = Unloaded)
      /\ tree.up \in Tree /\ Acyclic(tree.up) /\ \A f \in Dirs : tree.up[f] # Gone => f \in given
  BY FoldersTyped0 DEF FoldersIInv, TreeInv, Loaded
<1>7. Missing.parent = Gone /\ Missing \in Folder
  BY FoldersHaveShape DEF Missing
<1>8. CASE a.op = "tree"
  <2>1. byId' = Ingested(told, {h \in Dirs : told[h].parent # Gone}) /\ tree' = [loaded |-> TRUE, up |-> Parents(told)]
    BY <1>1, <1>3, <1>8 DEF Applied
  <2>2. PICK fs : fs = {h \in Dirs : told[h].parent # Gone}
    OBVIOUS
  <2>3. byId' \in [Dirs -> Folder] /\ \A f \in Dirs : byId'[f] = IF f \in fs THEN told[f] ELSE byId[f]
    BY <1>4, <1>6, <2>1, <2>2, IngestedFolders
  <2>4. PICK t : t = Parents(told)
    OBVIOUS
  <2>5. t \in Tree /\ \A f \in Dirs : t[f] = told[f].parent
    BY <1>4, <2>4, ParentsAreTree
  <2>6. Acyclic(t)
    BY <1>4, <2>4, <2>5, HangingTogetherIsAcyclic DEF HangsTogether
  <2>7. tree' = [loaded |-> TRUE, up |-> t]
    BY <2>1, <2>4
  <2>8. \A f \in Dirs : byId'[f].parent = Gone => byId'[f] = Missing
    BY <1>6, <2>2, <2>3
  <2>9. \A f \in Dirs : t[f] # Gone => f \in given
    BY <1>4, <2>5 DEF Recorded
  <2> QED BY <1>1, <1>8, <2>3, <2>5, <2>6, <2>7, <2>8, <2>9 DEF Tree
<1>9. CASE a.op = "list"
  <2>1. tree' = tree /\ byId' = Ingested(told, {h \in {h \in Dirs : told[h].parent # Gone} : told[h].parent = a.f})
    BY <1>1, <1>3, <1>9 DEF Applied
  <2>2. PICK fs : fs = {h \in {h \in Dirs : told[h].parent # Gone} : told[h].parent = a.f}
    OBVIOUS
  <2>3. byId' \in [Dirs -> Folder] /\ \A f \in Dirs : byId'[f] = IF f \in fs THEN told[f] ELSE byId[f]
    BY <1>4, <1>6, <2>1, <2>2, IngestedFolders
  <2>4. \A f \in Dirs : byId'[f].parent = Gone => byId'[f] = Missing
    BY <1>6, <2>2, <2>3
  <2> QED BY <1>1, <1>6, <1>9, <2>1, <2>3, <2>4 DEF Loaded
<1>10. CASE a.op = "create"
  <2>1. tree' = Grown(a.f, a.to) /\ byId' = Ingested(told, {a.f})
    BY <1>1, <1>3, <1>10 DEF Applied
  <2>2. a.f \in Dirs /\ told[a.f].parent # Gone /\ a.f \in given
    BY <1>2, <1>3, <1>5, <1>10, OpsAreOps, FoldersHaveShape DEF AskOK
  <2>3. byId' \in [Dirs -> Folder] /\ \A f \in Dirs : byId'[f] = IF f \in {a.f} THEN told[f] ELSE byId[f]
    BY <1>4, <1>6, <2>1, <2>2, IngestedFolders
  <2>4. \A f \in Dirs : byId'[f].parent = Gone => byId'[f] = Missing
    BY <1>6, <2>2, <2>3
  <2>5. CASE ~Loaded
    <3>1. tree' = tree
      BY <2>1, <2>5 DEF Grown
    <3> QED BY <1>1, <1>6, <1>10, <2>3, <2>4, <2>5, <3>1
  <2>6. CASE Loaded
    <3>1. PICK u : u = Attached(tree.up, a.f, a.to)
      OBVIOUS
    <3>2. tree' = [tree EXCEPT !.up = u]
      BY <2>1, <2>6, <3>1 DEF Grown
    <3>3. a.to = Top \/ tree.up[a.f] = Gone
      BY <1>2, <1>10 DEF AskOK
    <3>4. u \in Tree /\ Acyclic(u) /\ Reached(tree.up) \subseteq Reached(u) /\ \A h \in Dirs \ {a.f} : u[h] = tree.up[h]
      BY <1>5, <1>6, <2>2, <3>1, <3>3, AttachedTree
    <3>5. tree'.up = u /\ tree'.loaded = tree.loaded /\ tree' \in [loaded : BOOLEAN, up : [Dirs -> TreeNodes \cup {Gone}]]
      BY <1>6, <3>2, <3>4 DEF Tree
    <3>6. \A f \in Dirs : u[f] # Gone => f \in given
      BY <1>6, <2>2, <3>4
    <3> QED BY <1>1, <1>10, <2>3, <2>4, <2>6, <3>4, <3>5, <3>6 DEF Loaded
  <2> QED BY <2>5, <2>6
<1>11. CASE a.op = "rename"
  <2>1. tree' = tree /\ byId' = IF byId[a.f] = Missing THEN byId ELSE [byId EXCEPT ![a.f].name = "new"]
    BY <1>1, <1>11 DEF Applied
  <2>2. a.f \in Dirs
    BY <1>5, <1>11, OpsAreOps
  <2>3. byId' \in [Dirs -> Folder] /\ \A f \in Dirs : byId'[f].parent = Gone => byId'[f] = Missing
    <3>1. CASE byId[a.f] = Missing
      BY <1>6, <2>1, <3>1
    <3>2. CASE byId[a.f] # Missing
      <4>1. byId' = [byId EXCEPT ![a.f].name = "new"] /\ byId[a.f].parent # Gone
        BY <1>6, <2>1, <2>2, <3>2
      <4>2. byId' \in [Dirs -> Folder] /\ byId'[a.f].parent = byId[a.f].parent /\ \A h \in Dirs \ {a.f} : byId'[h] = byId[h]
        BY <1>6, <2>2, <4>1 DEF Folder
      <4> QED BY <1>6, <4>1, <4>2
    <3> QED BY <3>1, <3>2
  <2> QED BY <1>1, <1>6, <1>11, <2>1, <2>3 DEF Loaded
<1>12. CASE a.op = "move"
  <2>1. tree' = [tree EXCEPT !.up = Moved(a.f, a.to)] /\ byId' = IF byId[a.f] = Missing THEN byId ELSE [byId EXCEPT ![a.f].parent = a.to]
    BY <1>1, <1>12 DEF Applied
  <2>2. a.f \in Dirs /\ a.to # Gone
    BY <1>5, <1>12, OpsAreOps, FoldersHaveShape
  <2>3. byId' \in [Dirs -> Folder] /\ \A f \in Dirs : byId'[f].parent = Gone => byId'[f] = Missing
    <3>1. CASE byId[a.f] = Missing
      BY <1>6, <2>1, <3>1
    <3>2. CASE byId[a.f] # Missing
      <4>1. byId' = [byId EXCEPT ![a.f].parent = a.to]
        BY <2>1, <3>2
      <4>2. byId' \in [Dirs -> Folder] /\ byId'[a.f].parent = a.to /\ \A h \in Dirs \ {a.f} : byId'[h] = byId[h]
        BY <1>5, <1>6, <2>2, <4>1 DEF Folder
      <4> QED BY <1>6, <2>2, <4>2
    <3> QED BY <3>1, <3>2
  <2>4. PICK u : u = Moved(a.f, a.to)
    OBVIOUS
  <2>5. u \in Tree /\ Acyclic(u) /\ (\A h \in Dirs \ {a.f} : u[h] = tree.up[h]) /\ (tree.up[a.f] = Gone => u[a.f] = Gone)
    BY <1>5, <1>6, <2>2, <2>4, MovedTree
  <2>6. tree'.up = u /\ tree'.loaded = tree.loaded /\ tree' \in [loaded : BOOLEAN, up : [Dirs -> TreeNodes \cup {Gone}]]
    BY <1>6, <2>1, <2>4, <2>5 DEF Tree
  <2>7. \A f \in Dirs : tree.up[f] = Gone => u[f] = Gone
    BY <2>5
  <2>8. Loaded
    BY <1>2, <1>12 DEF AskOK
  <2> QED BY <1>1, <1>6, <1>12, <2>3, <2>5, <2>6, <2>7, <2>8 DEF Loaded
<1>13. CASE a.op = "delete"
  <2>1. /\ byId' = [byId EXCEPT ![a.f] = Missing]
        /\ tree' = [tree EXCEPT !.up = IF a.f \in Reached(@) THEN [@ EXCEPT ![a.f] = Gone] ELSE @]
    BY <1>1, <1>13 DEF Applied
  <2>2. a.f \in Dirs
    BY <1>5, <1>13, OpsAreOps
  <2>3. byId' \in [Dirs -> Folder] /\ \A f \in Dirs : byId'[f].parent = Gone => byId'[f] = Missing
    BY <1>6, <1>7, <2>1, <2>2
  <2>4. PICK u : u = IF a.f \in Reached(tree.up) THEN [tree.up EXCEPT ![a.f] = Gone] ELSE tree.up
    OBVIOUS
  <2>5. u \in Tree /\ Acyclic(u) /\ \A f \in Dirs : tree.up[f] = Gone => u[f] = Gone
    <3>1. PICK w : w = [tree.up EXCEPT ![a.f] = Gone]
      OBVIOUS
    <3>2. w \in Tree /\ Acyclic(w) /\ w[a.f] = Gone /\ \A h \in Dirs \ {a.f} : w[h] = tree.up[h]
      BY <1>6, <2>2, <3>1, RemovedTree
    <3>3. u = w \/ u = tree.up
      BY <2>4, <3>1
    <3> QED BY <1>6, <3>2, <3>3
  <2>6. tree'.up = u /\ tree'.loaded = tree.loaded /\ tree' \in [loaded : BOOLEAN, up : [Dirs -> TreeNodes \cup {Gone}]]
    BY <1>6, <2>1, <2>4, <2>5 DEF Tree
  <2>7. Loaded
    BY <1>2, <1>13 DEF AskOK
  <2> QED BY <1>1, <1>6, <1>13, <2>3, <2>5, <2>6, <2>7 DEF Loaded
<1> QED BY <1>1, <1>5, <1>8, <1>9, <1>10, <1>11, <1>12, <1>13, OpsAreOps

\* Alone, and answered: the client's folders are the server's again.
LEMMA SettledAgrees ==
  ASSUME FoldersIInv, NEW c \in Asks, Heard(asks[c]), Applied(c), asks[c].op \in Mutations,
         NEW d \in [Dirs -> Folder], ChangedFrom(d, asks[c].op, asks[c].f, asks[c].to), asks[c].told = dirs
  PROVE  /\ \A f \in Dirs : byId'[f] \in {Missing, dirs[f]}
         /\ tree'.loaded => byId' = dirs /\ tree'.up = Parents(dirs)
         /\ tree'.loaded = tree.loaded
<1>1. PICK a : a = asks[c]
  OBVIOUS
<1>2. a \in AskRecord /\ AskOK(a) /\ Heard(a) /\ a.told = dirs
  BY <1>1, FoldersTyped0 DEF FoldersIInv, AsksInv
<1>3. a.f \in Dirs /\ a.to \in TreeNodes /\ a.op \in Mutations
  BY <1>1, <1>2 DEF AskRecord, AskOK
<1>4. /\ HangsTogether(d) /\ \A f \in Dirs : byId[f] \in {Missing, d[f]}
      /\ Loaded => byId = d /\ tree.up = Parents(d)
  BY DEF ChangedFrom, Agrees
<1>5. /\ byId \in [Dirs -> Folder] /\ dirs \in [Dirs -> Folder] /\ tree.up \in Tree
      /\ tree \in [loaded : BOOLEAN, up : [Dirs -> TreeNodes \cup {Gone}]]
  BY FoldersTyped0
<1>6. PICK t : t = Parents(d)
  OBVIOUS
<1>7. t \in Tree /\ \A h \in Dirs : t[h] = d[h].parent
  BY <1>6, ParentsAreTree
<1>8. PICK u : u = Parents(dirs)
  OBVIOUS
<1>9. u \in Tree /\ \A h \in Dirs : u[h] = dirs[h].parent
  BY <1>5, <1>8, ParentsAreTree
<1>10. CASE a.op = "create"
  <2>1. ~PresentIn(d, a.f) /\ PresentIn(d, a.to) /\ dirs = [d EXCEPT ![a.f].parent = a.to]
    BY <1>1, <1>10 DEF ChangedFrom
  <2>2. tree' = Grown(a.f, a.to) /\ byId' = Ingested(dirs, {a.f})
    BY <1>1, <1>2, <1>10 DEF Applied
  <2>3. byId' \in [Dirs -> Folder] /\ \A f \in Dirs : byId'[f] = IF f \in {a.f} THEN dirs[f] ELSE byId[f]
    BY <1>3, <1>5, <2>2, IngestedFolders
  <2>4. dirs[a.f].parent = a.to /\ \A h \in Dirs \ {a.f} : dirs[h] = d[h]
    BY <1>3, <2>1 DEF Folder
  <2>5. \A f \in Dirs : byId'[f] \in {Missing, dirs[f]}
    BY <1>4, <2>3, <2>4
  <2>6. CASE ~Loaded
    BY <2>2, <2>5, <2>6 DEF Grown, Loaded
  <2>7. CASE Loaded
    <3>1. byId' = dirs
      <4>1. \A f \in Dirs : byId'[f] = dirs[f]
        BY <1>4, <2>3, <2>4, <2>7
      <4> QED BY <1>5, <2>3, <4>1
    <3>2. a.to \in Reached(t)
      BY <1>3, <1>4, <1>6, <2>1, ThereIsReached
    <3>3. tree' = [tree EXCEPT !.up = [t EXCEPT ![a.f] = a.to]]
      BY <1>4, <1>6, <2>2, <2>7, <3>2 DEF Grown, Attached
    <3>4. [t EXCEPT ![a.f] = a.to] = u
      BY <1>3, <1>7, <1>9, <2>4 DEF Tree
    <3> QED BY <1>5, <1>8, <2>5, <3>1, <3>3, <3>4
  <2> QED BY <2>6, <2>7
<1>11. CASE a.op = "rename"
  <2>1. PresentIn(d, a.f) /\ dirs = [d EXCEPT ![a.f].name = "new"] /\ Loaded
    BY <1>1, <1>2, <1>11 DEF ChangedFrom, AskOK, Mutations
  <2>2. byId[a.f] # Missing
    BY <1>3, <1>4, <2>1, FoldersHaveShape DEF PresentIn, Missing
  <2>3. tree' = tree /\ byId' = [byId EXCEPT ![a.f].name = "new"]
    BY <1>1, <1>11, <2>2 DEF Applied
  <2>4. byId' = dirs
    BY <1>4, <2>1, <2>3
  <2>5. Parents(dirs) = Parents(d)
    BY <1>3, <1>4, <2>1, RenamedFolders
  <2> QED BY <1>4, <2>1, <2>3, <2>4, <2>5
<1>12. CASE a.op = "move"
  <2>1. AcceptedIn(d, a.f, a.to) /\ dirs = [d EXCEPT ![a.f].parent = a.to] /\ Loaded
    BY <1>1, <1>2, <1>12 DEF ChangedFrom, AskOK, Mutations
  <2>2. byId[a.f] # Missing
    BY <1>3, <1>4, <2>1, FoldersHaveShape DEF AcceptedIn, PresentIn, Missing
  <2>3. tree' = [tree EXCEPT !.up = Moved(a.f, a.to)] /\ byId' = [byId EXCEPT ![a.f].parent = a.to]
    BY <1>1, <1>12, <2>2 DEF Applied
  <2>4. byId' = dirs
    BY <1>4, <2>1, <2>3
  <2>5. a.f \in Reached(t) /\ a.to \in Reached(t) /\ a.to \notin Within(t, a.f)
    BY <1>3, <1>4, <1>6, <2>1, ThereIsReached DEF AcceptedIn, TreeNodes
  <2>6. PICK v : v = Moved(a.f, a.to)
    OBVIOUS
  <2>7. tree.up = t
    BY <1>4, <1>6, <2>1
  <2>8. v = [t EXCEPT ![a.f] = a.to]
    <3>1. Acyclic(tree.up)
      BY FoldersTyped0
    <3> QED BY <1>3, <1>5, <2>5, <2>6, <2>7, <3>1, MovedTree
  <2>9. dirs[a.f].parent = a.to /\ \A h \in Dirs \ {a.f} : dirs[h] = d[h]
    BY <1>3, <2>1 DEF Folder
  <2>10. v = u
    BY <1>3, <1>7, <1>9, <2>8, <2>9 DEF Tree
  <2> QED BY <1>5, <1>8, <2>3, <2>4, <2>6, <2>10
<1>13. CASE a.op = "delete"
  <2>1. PresentIn(d, a.f) /\ dirs = [d EXCEPT ![a.f] = Missing] /\ Loaded
    BY <1>1, <1>2, <1>13 DEF ChangedFrom, AskOK, Mutations
  <2>2. /\ byId' = [byId EXCEPT ![a.f] = Missing]
        /\ tree' = [tree EXCEPT !.up = IF a.f \in Reached(@) THEN [@ EXCEPT ![a.f] = Gone] ELSE @]
    BY <1>1, <1>13 DEF Applied
  <2>3. byId' = dirs
    BY <1>4, <2>1, <2>2
  <2>4. a.f \in Reached(t)
    BY <1>3, <1>4, <1>6, <2>1, ThereIsReached DEF TreeNodes
  <2>5. tree.up = t
    BY <1>4, <1>6, <2>1
  <2>6. tree' = [tree EXCEPT !.up = [t EXCEPT ![a.f] = Gone]]
    BY <2>2, <2>4, <2>5
  <2>7. dirs[a.f].parent = Gone /\ \A h \in Dirs \ {a.f} : dirs[h] = d[h]
    BY <1>3, <2>1 DEF Missing
  <2>8. [t EXCEPT ![a.f] = Gone] = u
    BY <1>3, <1>7, <1>9, <2>7 DEF Tree
  <2> QED BY <1>5, <1>8, <2>3, <2>6, <2>8
<1> QED BY <1>3, <1>10, <1>11, <1>12, <1>13, OpsAreOps

LEMMA ListedAgrees ==
  ASSUME FoldersIInv, NEW c \in Asks, Heard(asks[c]), Applied(c), asks[c].op \in {"tree", "list"},
         Agrees(dirs), asks[c].told = dirs
  PROVE  /\ \A f \in Dirs : byId'[f] \in {Missing, dirs[f]}
         /\ tree'.loaded => byId' = dirs /\ tree'.up = Parents(dirs)
<1>1. /\ byId \in [Dirs -> Folder] /\ dirs \in [Dirs -> Folder] /\ HangsTogether(dirs)
      /\ tree \in [loaded : BOOLEAN, up : [Dirs -> TreeNodes \cup {Gone}]]
  BY FoldersTyped0
<1>2. (\A f \in Dirs : byId[f] \in {Missing, dirs[f]}) /\ (Loaded => byId = dirs /\ tree.up = Parents(dirs))
  BY DEF Agrees
<1>3. PICK fs \in SUBSET Dirs : byId' = Ingested(dirs, fs) /\ (asks[c].op = "tree" => fs = {h \in Dirs : dirs[h].parent # Gone})
  <2>1. CASE asks[c].op = "tree"
    BY <2>1 DEF Applied
  <2>2. CASE asks[c].op = "list"
    BY <2>2 DEF Applied
  <2> QED BY <2>1, <2>2
<1>4. byId' \in [Dirs -> Folder] /\ \A f \in Dirs : byId'[f] = IF f \in fs THEN dirs[f] ELSE byId[f]
  BY <1>1, <1>3, IngestedFolders
<1>5. \A f \in Dirs : byId'[f] \in {Missing, dirs[f]}
  BY <1>2, <1>4
<1>6. CASE asks[c].op = "tree"
  <2>1. \A f \in Dirs : byId'[f] = dirs[f]
    BY <1>1, <1>3, <1>4, <1>5, <1>6 DEF HangsTogether
  <2>2. byId' = dirs
    BY <1>1, <1>4, <2>1
  <2>3. tree' = [loaded |-> TRUE, up |-> Parents(dirs)]
    BY <1>6 DEF Applied
  <2> QED BY <1>5, <2>2, <2>3
<1>7. CASE asks[c].op = "list"
  <2>1. tree' = tree
    BY <1>7 DEF Applied
  <2>2. Loaded => byId' = dirs
    BY <1>1, <1>2, <1>4
  <2> QED BY <1>2, <1>5, <2>1, <2>2 DEF Loaded
<1> QED BY <1>6, <1>7

LEMMA SettleFolderKeeps == ASSUME FoldersIInv, NEW c \in Asks, SettleFolder(c) PROVE FoldersIInv'
<1>1. PICK a : a = asks[c]
  OBVIOUS
<1>2. a \in AskRecord /\ AskOK(a) /\ a.stage = "answered" /\ a.op # "none"
  BY <1>1, FoldersTyped0 DEF SettleFolder, FoldersIInv, AsksInv, AskOK
<1>3. a.f \in TreeNodes /\ a.to \in TreeNodes /\ a.op \in AskOps /\ (a.op \in Mutations => a.f \in Dirs) /\ a.rest \in SUBSET Dirs
  BY <1>2 DEF AskRecord, AskOK
<1>4. /\ UNCHANGED <<dirs, given, raced>>
      /\ chosen' = ChosenAfter(c) /\ creating' = (creating /\ a.op # "create")
      /\ IF a.failed THEN UNCHANGED <<byId, tree>> ELSE Heard(a) /\ Applied(c)
  BY <1>1, <1>2 DEF SettleFolder, CreatingAfter, Heard
<1>5. PICK b \in AskRecord :
           /\ asks' = [asks EXCEPT ![c] = b] /\ ~b.failed
           /\ \/ b.op = "none" /\ b.stage = "free"
              \/ /\ a.op = "move" /\ b.op = "move" /\ b.stage = "sent" /\ b.to = a.to
                 /\ b.f \in a.rest /\ b.rest \subseteq a.rest
  <2>1. asks \in [Asks -> AskRecord] /\ asks' = NextAsk(c)
    BY FoldersTyped0 DEF SettleFolder
  <2> QED BY <1>1, <1>2, <2>1, NextAskIs
<1>6. /\ asks' \in [Asks -> AskRecord] /\ asks'[c] = b
      /\ \A x \in Asks \ {c} : asks'[x] = asks[x]
  BY <1>5, FoldersTyped0
<1>7. dirs \in [Dirs -> Folder] /\ HangsTogether(dirs) /\ Recorded(dirs) /\ given \subseteq Dirs
  BY FoldersTyped0
<1>8. /\ byId' \in [Dirs -> Folder] /\ (\A f \in Dirs : byId'[f].parent = Gone => byId'[f] = Missing)
      /\ tree' \in [loaded : BOOLEAN, up : [Dirs -> TreeNodes \cup {Gone}]] /\ (~tree'.loaded => tree'.up = Unloaded)
      /\ Acyclic(tree'.up) /\ (Loaded => tree'.loaded)
      /\ \A f \in Dirs : tree'.up[f] # Gone => f \in given
      /\ asks[c].op \in {"move", "delete"} => \A f \in Dirs : tree.up[f] = Gone => tree'.up[f] = Gone
      /\ asks[c].op \in {"list", "rename"} => tree' = tree
  <2>1. CASE a.failed
    BY <1>4, <2>1, FoldersTyped0 DEF FoldersIInv, TreeInv, Loaded
  <2>2. CASE ~a.failed
    BY <1>1, <1>2, <1>4, <2>2, AppliedTree
  <2> QED BY <2>1, <2>2
<1>9. chosen' \in TreeNodes
  <2>1. ASSUME a.op = "delete", byId[a.f] # Missing PROVE byId[a.f].parent \in TreeNodes
    <3>1. a.f \in Dirs /\ byId \in [Dirs -> Folder] /\ byId[a.f].parent # Gone
      BY <1>3, <2>1, OpsAreOps, FoldersTyped0 DEF FoldersIInv, TreeInv
    <3> QED BY <3>1 DEF Folder
  <2> QED BY <1>1, <1>4, <2>1, FoldersTyped0, OpsAreOps DEF ChosenAfter
<1>10. TreeInv'
  <2>1. FoldersTypeOK'
    BY <1>4, <1>7, <1>8, <1>9, FoldersTyped0 DEF FoldersTypeOK, Folder, TreeNodes
  <2>2. HangsTogether(dirs)' /\ Recorded(dirs)'
    BY <1>4, <1>7 DEF HangsTogether, Recorded
  <2>3. ClientTreeIsForest'
    BY <1>8 DEF ClientTreeIsForest, Acyclic
  <2> QED BY <1>4, <1>8, <2>1, <2>2, <2>3 DEF TreeInv
<1>11. AsksInv'
  <2>1. /\ \A x \in Asks : asks[x].op = "tree" => ~Loaded /\ \A y \in Asks \ {x} : asks[y].op # "tree"
        /\ \A x \in Asks : asks[x].op = "create" => creating /\ \A y \in Asks \ {x} : asks[y].op # "create"
        /\ \A x \in Asks : AskOK(asks[x])
    BY DEF FoldersIInv, AsksInv
  <2>2. Loaded => Loaded'
    BY <1>8 DEF Loaded
  <2>3. ASSUME NEW x \in Asks PROVE AskOK(asks[x])'
    <3>1. CASE x = c
      <4>1. b.op = "move" => Loaded' /\ b.f \in Dirs
        BY <1>2, <1>3, <1>5, <2>2 DEF AskOK
      <4>2. asks'[x] = b
        BY <1>6, <3>1
      <4>3. b.op = "none" <=> b.stage = "free"
        BY <1>5
      <4>4. ~Heard(b)
        BY <1>5 DEF Heard
      <4>5. b.op = "none" \/ b.op = "move"
        BY <1>5
      <4> QED BY <1>5, <4>1, <4>2, <4>3, <4>4, <4>5, OpsAreOps DEF AskOK, Heard
    <3>2. CASE x # c
      <4>1. asks'[x] = asks[x] /\ given' = given
        BY <1>4, <1>6, <3>2
      <4>2. asks[x].op = "create" => asks[x].to = Top \/ (Loaded' /\ tree'.up[asks[x].f] = Gone)
        <5>1. SUFFICES ASSUME asks[x].op = "create", asks[x].to # Top PROVE Loaded' /\ tree'.up[asks[x].f] = Gone
          OBVIOUS
        <5>2. Loaded /\ tree.up[asks[x].f] = Gone /\ asks[x].f \in Dirs
          BY <2>1, <5>1, OpsAreOps DEF AskOK
        <5>3. a.op # "create" /\ a.op # "tree"
          BY <1>1, <2>1, <3>2, <5>1, <5>2
        <5>4. a.op \in {"move", "delete", "list", "rename"}
          BY <1>2, <1>3, <5>3, OpsAreOps
        <5> QED BY <1>1, <1>8, <2>2, <5>2, <5>4
      <4> QED BY <2>1, <2>2, <4>1, <4>2 DEF AskOK, Heard, HangsTogether, Recorded
    <3> QED BY <3>1, <3>2
  <2>4. \A x \in Asks : asks'[x].op = "tree" => ~Loaded' /\ \A y \in Asks \ {x} : asks'[y].op # "tree"
    <3>1. ASSUME NEW x \in Asks, asks'[x].op = "tree" PROVE ~Loaded' /\ \A y \in Asks \ {x} : asks'[y].op # "tree"
      <4>1. x # c /\ asks[x].op = "tree"
        BY <1>5, <1>6, <3>1
      <4>2. ~Loaded /\ \A y \in Asks \ {x} : asks[y].op # "tree"
        BY <2>1, <4>1
      <4>3. a.op \in {"create", "move", "delete", "list", "rename"}
        BY <1>1, <1>2, <1>3, <4>1, <4>2, OpsAreOps
      <4>4. a.op \in {"create", "list", "rename"}
        BY <1>2, <4>2, <4>3 DEF AskOK
      <4>5. tree' = tree
        BY <1>1, <1>3, <1>4, <4>2, <4>4 DEF Applied, Grown
      <4> QED BY <1>5, <1>6, <4>2, <4>5 DEF Loaded
    <3> QED BY <3>1
  <2>5. \A x \in Asks : asks'[x].op = "create" => creating' /\ \A y \in Asks \ {x} : asks'[y].op # "create"
    BY <1>1, <1>4, <1>5, <1>6, <2>1
  <2> QED BY <1>6, <2>3, <2>4, <2>5 DEF AsksInv
<1>12. UnracedInv'
  <2>1. SUFFICES ASSUME ~raced' PROVE UnracedInv'
    BY DEF UnracedInv
  <2>2. ~raced /\ UnracedInv
    BY <1>4, <2>1 DEF FoldersIInv
  <2> DEFINE Left(r, d) == r.op = "move" => \A x \in r.rest \cup (IF r.stage = "sent" THEN {r.f} ELSE {}) : AcceptedIn(d, x, r.to)
  <2>3. /\ \A x \in Asks : asks[x].op \in Mutations => \A y \in Asks \ {x} : asks[y].op = "none"
        /\ \A x \in Asks : Heard(asks[x]) => asks[x].told = dirs
        /\ (\A x \in Asks : ~Changing(asks[x])) => Agrees(dirs)
        /\ \A x \in Asks : Changing(asks[x]) =>
             \E d \in [Dirs -> Folder] : ChangedFrom(d, asks[x].op, asks[x].f, asks[x].to)
        /\ \A x \in Asks : asks[x].op = "delete" => asks[x].at = chosen
        /\ Present(chosen) \/ \E x \in Asks : Deleting(asks[x])
    BY <2>2 DEF UnracedInv
  <2>4. \A x \in Asks : Left(asks[x], dirs)
    BY <2>2 DEF UnracedInv
  <2> HIDE DEF Left
  <2>5. \A x \in Asks : asks'[x].op \in Mutations => \A y \in Asks \ {x} : asks'[y].op = "none"
    <3>1. b.op \in Mutations => a.op \in Mutations
      BY <1>5, OpsAreOps
    <3>2. a.op = "none" => b.op = "none"
      BY <1>2
    <3>3. \A x \in Asks : asks'[x].op \in Mutations => asks[x].op \in Mutations
      BY <1>1, <1>6, <3>1
    <3>4. \A x \in Asks : asks[x].op = "none" => asks'[x].op = "none"
      BY <1>1, <1>6, <3>2
    <3> QED BY <2>3, <3>3, <3>4
  <2>6. \A x \in Asks : Heard(asks[x])' => asks'[x].told = dirs'
    BY <1>4, <1>5, <1>6, <2>3 DEF Heard
  <2>7. \A x \in Asks : Left(asks[x], dirs)'
    <3>1. ASSUME NEW x \in Asks, x # c PROVE Left(asks[x], dirs)'
      BY <1>4, <1>6, <2>4, <3>1 DEF Left, AcceptedIn, PresentIn
    <3>2. Left(b, dirs)
      <4>1. CASE b.op = "none"
        BY <4>1 DEF Left
      <4>2. CASE b.op # "none"
        <5>1. a.op = "move" /\ b.to = a.to /\ b.f \in a.rest /\ b.rest \subseteq a.rest
          BY <1>5, <4>2
        <5>2. \A x \in a.rest : AcceptedIn(dirs, x, a.to)
          BY <1>1, <2>4, <5>1 DEF Left
        <5> QED BY <5>1, <5>2 DEF Left
      <4> QED BY <4>1, <4>2
    <3>3. Left(asks[c], dirs)'
      BY <1>4, <1>6, <3>2 DEF Left, AcceptedIn, PresentIn
    <3> QED BY <3>1, <3>3
  <2>8. ASSUME NEW x \in Asks, asks'[x].op = "delete" PROVE asks'[x].at = chosen'
    <3>1. x # c /\ asks[x].op = "delete" /\ asks'[x] = asks[x]
      BY <1>5, <1>6, <2>8
    <3>2. a.op = "none"
      BY <1>1, <2>3, <3>1, OpsAreOps
    <3> QED BY <1>2, <3>2
  \* The one change there was is known to the client.
  <2>9. CASE a.op \in Mutations
    <3>1. \A x \in Asks \ {c} : asks[x].op = "none" /\ ~Heard(asks[x])
      <4>1. \A x \in Asks \ {c} : asks[x].op = "none"
        BY <1>1, <2>3, <2>9
      <4>2. \A x \in Asks : AskOK(asks[x])
        BY DEF FoldersIInv, AsksInv
      <4> QED BY <4>1, <4>2 DEF AskOK, Heard
    <3>2. ~Heard(b)
      BY <1>5 DEF Heard
    <3>3. \A x \in Asks : ~Changing(asks[x])'
      BY <1>6, <3>1, <3>2 DEF Changing, Heard
    <3>4. CASE a.failed
      <4>1. \A x \in Asks : ~Changing(asks[x]) /\ ~Deleting(asks[x])
        BY <1>1, <3>1, <3>4 DEF Changing, Deleting, Heard
      <4>2. Agrees(dirs) /\ Present(chosen)
        BY <2>3, <4>1
      <4>3. chosen' = chosen
        BY <1>1, <1>4, <3>4 DEF ChosenAfter
      <4>4. Agrees(dirs)' /\ Present(chosen)'
        BY <1>4, <3>4, <4>2, <4>3 DEF Agrees, Present, Loaded
      <4> QED BY ONLY <2>5, <2>6, <2>7, <2>8, <3>3, <4>4 DEF UnracedInv, Left
    <3>5. CASE ~a.failed
      <4>1. Heard(a) /\ Applied(c) /\ Changing(asks[c]) /\ a.told = dirs
        BY <1>1, <1>4, <2>3, <2>9, <3>5 DEF Changing
      <4>2. PICK d \in [Dirs -> Folder] : ChangedFrom(d, a.op, a.f, a.to)
        BY <1>1, <2>3, <4>1
      <4>3. /\ \A f \in Dirs : byId'[f] \in {Missing, dirs[f]}
            /\ tree'.loaded => byId' = dirs /\ tree'.up = Parents(dirs)
        BY <1>1, <2>9, <4>1, <4>2, SettledAgrees
      <4>4. Agrees(dirs)'
        BY <1>4, <4>3 DEF Agrees, Loaded, Parents
      <4>5. Present(chosen)'
        <5>1. CASE a.op = "delete" /\ a.at = a.f
          <6>1. a.f \in Dirs /\ Loaded
            BY <1>2, <1>3, <2>9, <5>1 DEF AskOK
          <6>2. PresentIn(d, a.f) /\ (\A h \in Dirs : d[h].parent # a.f) /\ dirs = [d EXCEPT ![a.f] = Missing]
                /\ HangsTogether(d) /\ byId = d
            BY <4>2, <5>1, <6>1 DEF ChangedFrom, Agrees
          <6>3. byId[a.f] # Missing /\ d[a.f].parent # Gone
            BY <6>1, <6>2, FoldersHaveShape DEF PresentIn, Missing
          <6>4. chosen' = d[a.f].parent
            BY <1>1, <1>4, <3>5, <5>1, <6>2, <6>3 DEF ChosenAfter
          <6>5. PICK t : t = Parents(d)
            OBVIOUS
          <6>6. t \in Tree /\ \A h \in Dirs : t[h] = d[h].parent
            BY <6>5, ParentsAreTree
          <6>7. a.f \in Reached(t) /\ a.f # Top
            BY <6>1, <6>2, <6>3, <6>5, FoldersHaveShape DEF HangsTogether
          <6>8. chosen' \in Reached(t)
            BY <6>1, <6>4, <6>6, <6>7, ReachedIsThere
          <6>9. chosen' # Top => chosen' \in Dirs /\ d[chosen'].parent # Gone
            BY <6>6, <6>8, ReachedIsThere
          <6>10. chosen' # a.f
            BY <6>1, <6>2, <6>4
          <6> QED BY <1>4, <6>2, <6>9, <6>10 DEF Present
        <5>2. CASE ~(a.op = "delete" /\ a.at = a.f)
          <6>1. chosen' = chosen
            BY <1>1, <1>4, <5>2 DEF ChosenAfter
          <6>2. \A x \in Asks : ~Deleting(asks[x])
            BY <1>1, <2>3, <3>1, <5>2 DEF Deleting
          <6> QED BY <1>4, <2>3, <6>1, <6>2 DEF Present
        <5> QED BY <5>1, <5>2
      <4> QED BY ONLY <2>5, <2>6, <2>7, <2>8, <3>3, <4>4, <4>5 DEF UnracedInv, Left
    <3> QED BY <3>4, <3>5
  \* A listing changes nothing on the server, and no change is under way.
  <2>10. CASE a.op \notin Mutations
    <3>1. a.op \in {"tree", "list"}
      BY <1>2, <1>3, <2>10, OpsAreOps
    <3>2. \A x \in Asks : asks[x].op \notin Mutations
      BY <1>1, <1>2, <2>3, <2>10
    <3>3. \A x \in Asks : ~Changing(asks[x]) /\ ~Deleting(asks[x])
      BY <3>2, OpsAreOps DEF Changing, Deleting
    <3>4. Agrees(dirs) /\ Present(chosen)
      BY <2>3, <3>3
    <3>5. \A x \in Asks : ~Changing(asks[x])'
      <4>1. ~Heard(b)
        BY <1>5 DEF Heard
      <4> QED BY <1>6, <3>2, <4>1 DEF Changing, Heard
    <3>6. chosen' = chosen
      BY <1>1, <1>4, <3>1 DEF ChosenAfter
    <3>7. Present(chosen)'
      BY <1>4, <3>4, <3>6 DEF Present
    <3>8. Agrees(dirs)'
      <4>1. CASE a.failed
        BY <1>4, <3>4, <4>1 DEF Agrees, Loaded
      <4>2. CASE ~a.failed
        <5>1. Heard(a) /\ Applied(c) /\ a.told = dirs
          BY <1>1, <1>4, <2>3, <4>2
        <5>2. /\ \A f \in Dirs : byId'[f] \in {Missing, dirs[f]}
              /\ tree'.loaded => byId' = dirs /\ tree'.up = Parents(dirs)
          BY <1>1, <3>1, <3>4, <5>1, ListedAgrees
        <5> QED BY <1>4, <5>2 DEF Agrees, Loaded, Parents
      <4> QED BY <4>1, <4>2
    <3> QED BY ONLY <2>5, <2>6, <2>7, <2>8, <3>5, <3>7, <3>8 DEF UnracedInv, Left
  <2> QED BY <2>9, <2>10
<1> QED BY <1>10, <1>11, <1>12 DEF FoldersIInv

LEMMA FoldersInitKeeps == ASSUME FoldersInit PROVE FoldersIInv
<1>1. PICK d \in [Dirs -> [parent : Dirs \cup {Top, Gone}, name : {"old"}]] :
        dirs = d /\ Reached(Parents(d)) = {Top} \cup {f \in Dirs : d[f].parent # Gone}
  BY DEF FoldersInit
<1>2. dirs \in [Dirs -> Folder] /\ \A f \in Dirs : dirs[f].name = "old" /\ dirs[f].parent \in Dirs \cup {Top, Gone}
  BY <1>1 DEF Folder, TreeNodes
<1>3. /\ byId = [f \in Dirs |-> Missing] /\ tree = [loaded |-> FALSE, up |-> Unloaded] /\ chosen = Top /\ creating = FALSE
      /\ asks = [c \in Asks |-> IF c = 1 THEN [Idle EXCEPT !.op = "tree", !.stage = "sent"] ELSE Idle]
      /\ given = {f \in Dirs : dirs[f].parent # Gone} /\ raced = FALSE
  BY DEF FoldersInit
<1>4. HangsTogether(dirs) /\ Recorded(dirs)
  <2>1. ASSUME NEW f \in Dirs, dirs[f].parent = Gone PROVE dirs[f] = Missing
    BY <1>1, <2>1 DEF Missing
  <2>2. ASSUME NEW f \in Dirs, dirs[f].parent # Gone PROVE f \in Reached(Parents(dirs))
    BY <1>1, <2>2
  <2> QED BY <1>3, <2>1, <2>2 DEF HangsTogether, Recorded
<1>5. Unloaded \in Tree /\ \A f \in Dirs : Unloaded[f] = Gone
  BY DEF Unloaded, Tree
<1>6. TreeInv
  <2>1. FoldersTypeOK
    BY <1>2, <1>3, <1>5, FoldersHaveShape DEF FoldersTypeOK, Folder, TreeNodes, Tree
  <2>2. ClientTreeIsForest
    BY <1>3, <1>5, FolderConstants DEF ClientTreeIsForest
  <2> QED BY <1>3, <1>4, <1>5, <2>1, <2>2 DEF TreeInv
<1>7. PICK a : a = [Idle EXCEPT !.op = "tree", !.stage = "sent"]
  OBVIOUS
<1>8. a \in AskRecord /\ a.op = "tree" /\ a.stage = "sent" /\ ~a.failed
  BY <1>7, IdleIsAsk, OpsAreOps DEF AskRecord, Idle
<1>9. \A c \in Asks : asks[c] = IF c = 1 THEN a ELSE Idle
  BY <1>3, <1>7
<1>10. AskOK(Idle) /\ AskOK(a)
  <2>1. Idle.op = "none" /\ Idle.stage = "free" /\ ~Idle.failed
    BY DEF Idle
  <2> QED BY <1>8, <2>1, OpsAreOps DEF AskOK, Heard
<1>11. AsksInv
  <2>1. asks \in [Asks -> AskRecord]
    BY <1>3, <1>7, <1>8, IdleIsAsk
  <2> QED BY <1>3, <1>8, <1>9, <1>10, <2>1, IdleIsAsk DEF AsksInv, Loaded
<1>12. UnracedInv
  <2>1. \A c \in Asks : asks[c].op \in {"none", "tree"} /\ ~Heard(asks[c])
    BY <1>8, <1>9, IdleIsAsk DEF Heard
  <2>2. \A c \in Asks : asks[c].op \notin Mutations /\ ~Changing(asks[c])
    BY <2>1, OpsAreOps DEF Changing
  <2>3. Agrees(dirs) /\ Present(chosen)
    BY <1>3 DEF Agrees, Loaded, Present
  <2> QED BY <2>1, <2>2, <2>3, OpsAreOps DEF UnracedInv
<1> QED BY <1>6, <1>11, <1>12 DEF FoldersIInv

LEMMA FoldersStutter == ASSUME FoldersIInv, UNCHANGED folderVars PROVE FoldersIInv'
<1>1. UNCHANGED <<dirs, byId, tree, chosen, creating, asks, given, raced>>
  BY DEF folderVars
<1>2. TreeInv'
  BY <1>1 DEF FoldersIInv, TreeInv, FoldersTypeOK, HangsTogether, Recorded, ClientTreeIsForest
<1>3. AsksInv'
  <2>1. ASSUME NEW b \in Asks PROVE AskOK(asks[b])'
    <3>1. AskOK(asks[b])
      BY DEF FoldersIInv, AsksInv
    <3> QED BY <1>1, <3>1 DEF AskOK, Heard, Loaded, HangsTogether, Recorded
  <2> QED BY <1>1, <2>1 DEF FoldersIInv, AsksInv, Loaded
<1>4. UnracedInv'
  <2>1. UnracedInv
    BY DEF FoldersIInv
  <2>2. SUFFICES ASSUME ~raced' PROVE UnracedInv'
    BY DEF UnracedInv
  <2>3. \A c \in Asks : (Changing(asks[c])' <=> Changing(asks[c])) /\ (Deleting(asks[c])' <=> Deleting(asks[c]))
                       /\ (Heard(asks[c])' <=> Heard(asks[c]))
    BY <1>1 DEF Changing, Deleting, Heard
  <2>4. (Agrees(dirs)' <=> Agrees(dirs)) /\ (Present(chosen)' <=> Present(chosen))
    BY <1>1 DEF Agrees, Loaded, Present
  <2>5. ASSUME NEW c \in Asks, Changing(asks[c])'
        PROVE  \E d \in [Dirs -> Folder] : ChangedFrom(d, asks[c].op, asks[c].f, asks[c].to)'
    <3>1. PICK d \in [Dirs -> Folder] : ChangedFrom(d, asks[c].op, asks[c].f, asks[c].to)
      BY <1>1, <2>1, <2>2, <2>3, <2>5 DEF UnracedInv
    <3>2. ChangedFrom(d, asks[c].op, asks[c].f, asks[c].to)'
      BY <1>1, <3>1 DEF ChangedFrom, Agrees, Loaded
    <3> QED BY <3>2
  <2>6. ASSUME NEW c \in Asks, asks'[c].op = "move"
        PROVE  \A x \in asks'[c].rest \cup (IF asks'[c].stage = "sent" THEN {asks'[c].f} ELSE {}) : AcceptedIn(dirs, x, asks[c].to)'
    BY <1>1, <2>1, <2>2, <2>6 DEF UnracedInv, AcceptedIn, PresentIn
  <2>7. /\ \A c \in Asks : asks'[c].op \in Mutations => \A b \in Asks \ {c} : asks'[b].op = "none"
        /\ \A c \in Asks : Heard(asks[c])' => asks'[c].told = dirs'
        /\ (\A c \in Asks : ~Changing(asks[c])') => Agrees(dirs)'
        /\ \A c \in Asks : asks'[c].op = "delete" => asks'[c].at = chosen'
        /\ Present(chosen)' \/ \E c \in Asks : Deleting(asks[c])'
    BY <1>1, <2>1, <2>2, <2>3, <2>4 DEF UnracedInv
  <2> QED BY ONLY <2>5, <2>6, <2>7 DEF UnracedInv
<1> QED BY <1>2, <1>3, <1>4 DEF FoldersIInv

LEMMA FoldersStep == ASSUME FoldersIInv, FoldersNext PROVE FoldersIInv'
<1>1. CASE EnsureTree
  BY <1>1, EnsureTreeKeeps
<1>2. CASE ListSubfolders
  BY <1>2, ListSubfoldersKeeps
<1>3. ASSUME NEW f \in TreeNodes, SelectNode(f) PROVE FoldersIInv'
  BY <1>3, SelectNodeKeeps
<1>4. ASSUME NEW f \in Dirs, RenameFolder(f) PROVE FoldersIInv'
  BY <1>4, RenameFolderKeeps
<1>5. ASSUME NEW f \in Dirs, DeleteFolder(f) PROVE FoldersIInv'
  BY <1>5, DeleteFolderKeeps
<1>6. ASSUME NEW f \in Dirs, NEW g \in TreeNodes, CreateFolder(f, g) PROVE FoldersIInv'
  BY <1>6, CreateFolderKeeps
<1>7. ASSUME NEW f \in Dirs, NEW g \in TreeNodes, OthersMove(f, g) PROVE FoldersIInv'
  BY <1>7, OthersMoveKeeps
<1>8. ASSUME NEW fs \in SUBSET Dirs, NEW g \in TreeNodes, DropFolders(fs, g) PROVE FoldersIInv'
  BY <1>8, DropFoldersKeeps
<1>9. ASSUME NEW c \in Asks, ServeFolder(c) PROVE FoldersIInv'
  BY <1>9, ServeFolderKeeps
<1>10. ASSUME NEW c \in Asks, SettleFolder(c) PROVE FoldersIInv'
  BY <1>10, SettleFolderKeeps
<1> QED BY <1>1, <1>2, <1>3, <1>4, <1>5, <1>6, <1>7, <1>8, <1>9, <1>10 DEF FoldersNext, TreeNodes

\* What the invariant says of the properties the runs check.
LEMMA FoldersIInvIsSound == ASSUME FoldersIInv PROVE FoldersTypeOK /\ ClientTreeIsSound
<1>1. FoldersTypeOK /\ ClientTreeIsForest
  BY DEF FoldersIInv, TreeInv
<1>2. ASSUME ~raced, \A c \in Asks : asks[c].op = "none" PROVE Agrees(dirs) /\ Present(chosen)
  <2>1. \A c \in Asks : ~Changing(asks[c]) /\ ~Deleting(asks[c])
    BY <1>2, OpsAreOps DEF Changing, Deleting
  <2> QED BY <1>2, <2>1 DEF FoldersIInv, UnracedInv
<1>3. TreeAgreesWithServer /\ ChosenFolderExists
  BY <1>2 DEF TreeAgreesWithServer, ChosenFolderExists, Agrees
<1>4. DropsAreAcceptable
  <2>1. ASSUME NEW c \in Asks, ~raced, asks[c].op = "move", asks[c].stage = "sent" PROVE AcceptedIn(dirs, asks[c].f, asks[c].to)
    BY <2>1 DEF FoldersIInv, UnracedInv
  <2> QED BY <2>1 DEF DropsAreAcceptable, Accepts, AcceptedIn, Present, PresentIn
<1> QED BY <1>1, <1>3, <1>4 DEF ClientTreeIsSound

\* A step takes no folder out of the tree unless a move or a deletion is answered.
LEMMA NodesStayStep ==
  ASSUME FoldersIInv, FoldersNext, NEW f \in Dirs, Known(f), ~Known(f)'
  PROVE  \E c \in Asks : asks[c].op \in {"move", "delete"} /\ asks'[c] # asks[c]
<1>1. CASE tree' = tree
  BY <1>1 DEF Known, Loaded
<1>2. CASE tree' # tree
  <2>1. PICK c \in Asks : SettleFolder(c)
    BY <1>2 DEF FoldersNext, EnsureTree, ListSubfolders, SelectNode, RenameFolder, DeleteFolder, CreateFolder,
                OthersMove, DropFolders, ServeFolder
  <2>2. asks[c].stage = "answered" /\ Heard(asks[c]) /\ Applied(c) /\ asks' = NextAsk(c)
    BY <1>2, <2>1 DEF SettleFolder, Heard
  <2>3. asks \in [Asks -> AskRecord] /\ AskOK(asks[c])
    BY FoldersTyped0 DEF FoldersIInv, AsksInv
  <2>4. asks[c].op # "none" /\ asks[c].op \in AskOps
    BY <2>2, <2>3 DEF AskOK, AskRecord
  <2>5. asks[c].op \notin {"tree", "list", "rename", "create"}
    <3>1. asks[c].op # "tree"
      BY DEF FoldersIInv, AsksInv, Known
    <3>2. Loaded /\ f \in Reached(tree.up)
      BY DEF Known
    <3>3. /\ Loaded => tree'.loaded
          /\ Loaded /\ asks[c].op \in {"list", "rename", "create"} => Reached(tree.up) \subseteq Reached(tree'.up)
      BY <2>2, <2>4, AppliedTree
    <3>4. asks[c].op \in {"list", "rename", "create"} => Known(f)'
      BY <3>2, <3>3 DEF Known, Loaded, Reached, Within, ChildClosed
    <3> QED BY <3>1, <3>4
  <2>6. asks[c].op \in {"move", "delete"}
    BY <2>4, <2>5, OpsAreOps
  <2>7. PICK b \in AskRecord : asks' = [asks EXCEPT ![c] = b] /\ b.stage \in {"free", "sent"}
    BY <2>2, <2>3, <2>4, NextAskIs
  <2>8. asks'[c] # asks[c]
    BY <2>2, <2>3, <2>7
  <2> QED BY <2>6, <2>8
<1> QED BY <1>1, <1>2

\* The invariant of the folder tree, for every set of folders and every number of
\* handlers that await the server (FoldersManager.ts:147-384, useFolderTreeActions.ts:60-322).
THEOREM FoldersInvariant == FoldersSpec => []FoldersIInv
<1>1. FoldersInit => FoldersIInv
  BY FoldersInitKeeps
<1>2. FoldersIInv /\ [FoldersNext]_folderVars => FoldersIInv'
  BY FoldersStep, FoldersStutter
<1> QED BY <1>1, <1>2, PTL DEF FoldersSpec

\* The state of the folder tree is well formed (useFolderStore.ts, FoldersManager.ts).
THEOREM FoldersTyped == FoldersSpec => []FoldersTypeOK
<1>1. FoldersIInv => FoldersTypeOK
  BY FoldersIInvIsSound
<1> QED BY <1>1, FoldersInvariant, PTL

\* The folders the client shows always hang together; as long as no two requests
\* overlapped they are the server's once every answer is in, the folder chosen exists
\* and a drop the client offers is one the server accepts (FoldersManager.ts:147-384).
THEOREM FoldersSound == FoldersSpec => []ClientTreeIsSound
<1>1. FoldersIInv => ClientTreeIsSound
  BY FoldersIInvIsSound
<1> QED BY <1>1, FoldersInvariant, PTL

\* A node leaves the tree only when a move or a deletion is asked for or settled
\* (FoldersManager.ts:289-384).
THEOREM FolderNodesStay == FoldersSpec => NodesStay
<1>1. FoldersIInv /\ [FoldersNext]_folderVars
        => [\A f \in Dirs : Known(f) /\ ~Known(f)'
              => \E c \in Asks : asks[c].op \in {"move", "delete"} /\ asks'[c] # asks[c]]_folderVars
  BY NodesStayStep
<1> QED BY <1>1, FoldersInvariant, PTL DEF FoldersSpec, NodesStay
=============================================================================
