---------------------------- MODULE ClientSession ----------------------------
(***************************************************************************)
(* Sign-in, token refresh and tenant switching in one tab of the web       *)
(* client: the reducer and effects of lib/store/appState.tsx, the axios    *)
(* interceptor of lib/api/apiClient.ts, the handlers of app/LoginRoute.tsx *)
(* and of useAuthManager / useTenantManager, against the session service   *)
(* of the server (services/auth.rs).                                       *)
(*                                                                         *)
(* Every asynchronous handler in progress is a record of reqs: it is sent, *)
(* served, answered, perhaps parked on the shared token refresh and sent   *)
(* once more, and finally settled.  What a handler does between two awaits *)
(* is one step, as JavaScript runs it, with the effects React flushes      *)
(* after its dispatches.  Answers settle in any order.                     *)
(*                                                                         *)
(* An access token is the number of the server session it was issued with; *)
(* 0 is no token.  Whether a token has expired when a request is served is *)
(* left open.                                                              *)
(***************************************************************************)
EXTENDS Integers, Sequences, FiniteSets

CONSTANTS
    Tenants,        \* the tenants the user belongs to
    NoTenant,       \* null
    LinkTenants,    \* the tenants a magic link may prefer
    MaxSessions,    \* bound: server sessions ever issued
    MaxInFlight,    \* bound: handlers in progress at once
    MaxActs         \* bound: what the user (or a link) does, in this tab and another

ASSUME SessionConstants ==
    /\ NoTenant \notin Tenants /\ LinkTenants \subseteq Tenants
    /\ MaxSessions \in Nat /\ MaxInFlight \in Nat \ {0} /\ MaxActs \in Nat

VARIABLES
    app,        \* AppState: status, token, tenant, selection, tenants
    header,     \* api.defaults.headers.common.Authorization
    login,      \* local state of LoginRoute: activeAction, attempted, preferred
    url,        \* the page's URL still carries magic_token
    reqs,       \* handlers in progress
    refresh,    \* refreshPromise and the request behind it
    sessions,   \* user_sessions of this user, in order of issue
    cookie,     \* the session the browser's refresh cookie names, 0: none
    acts        \* user actions so far

sessionVars == <<app, header, login, url, reqs, refresh, sessions, cookie, acts>>

-----------------------------------------------------------------------------
LoginStates == {"logged-out", "authenticating", "selecting-tenant"}
Selector == -1      \* the tenant-selection token, never a default header
Slots == 1..MaxInFlight
SessionIds == 0..MaxSessions

\* Requests that end by issuing a session, and those only LoginRoute makes.
SignInOps == {"magic", "passkey", "signup"}
LoginOps == SignInOps \cup {"passkeyStart", "signupStart", "select"}
AppOps == {"data", "tenants", "switch", "logout"}

IdleSlot == [op |-> "none", arg |-> NoTenant, auth |-> 0, retried |-> FALSE,
             phase |-> "none", ans |-> "none", got |-> 0, orphan |-> FALSE]
Sent(op, arg, auth) ==
    [IdleSlot EXCEPT !.op = op, !.arg = arg, !.auth = auth, !.phase = "sent"]

FreeSlots(r) == {s \in Slots : r[s].op = "none"}
\* Bound: beyond MaxInFlight a request an effect would send is left out.
Spawn(r, q) ==
    IF FreeSlots(r) = {} THEN r
    ELSE [r EXCEPT ![CHOOSE s \in FreeSlots(r) : \A u \in FreeSlots(r) : s <= u] = q]

NoRefresh == [phase |-> "none", cookie |-> 0, got |-> 0]

LoggedOut == [status |-> "logged-out", token |-> 0, tenant |-> NoTenant,
              selection |-> FALSE, tenants |-> FALSE]
LoginRequested ==
    [app EXCEPT !.status = "authenticating", !.tenant = NoTenant,
                !.selection = FALSE, !.tenants = FALSE]
LoginSucceeded(tok) ==
    [app EXCEPT !.status = "authenticated", !.token = tok,
                !.tenant = sessions[tok].tenant, !.selection = FALSE]
SelectionRequired ==
    [LoggedOut EXCEPT !.status = "selecting-tenant", !.selection = TRUE]
RefreshSucceeded(tok) ==
    [app EXCEPT !.token = tok, !.selection = FALSE, !.tenant = sessions[tok].tenant,
                !.status = IF @ = "logged-out" THEN "authenticated" ELSE @]

\* LoginRoute as it mounts: idle, nothing attempted; a link may name a tenant.
FreshLogin(preferred) == [action |-> "idle", attempted |-> FALSE, preferred |-> preferred]

\* Handlers of a LoginRoute that has unmounted still run, but set no state of it.
Orphaned(r) == [s \in Slots |-> IF r[s].op \in LoginOps THEN [r[s] EXCEPT !.orphan = TRUE]
                                ELSE r[s]]

\* TenantAwareLayout keys the whole workspace by tenant id: another tenant (or
\* leaving the login page) mounts it afresh and it loads its data.
Remounts(new) ==
    new.status \notin LoginStates
        /\ (app.status \in LoginStates \/ new.tenant # app.tenant)

\* The tenant listing effect runs when the status or the token changed.
Relists(new) == new.status # app.status \/ new.token # app.token
SignedIn(new) == new.status = "authenticated" /\ new.token # 0

HeaderAfter(new) == new.token

\* One dispatch with the effects React runs after it, children first: the
\* remounted workspace sends its first request with the header as the handler
\* left it (h), then AppStateProvider's effects set the header from the token
\* and list the tenants.  l is LoginRoute's state, r the handlers in progress,
\* o whether a handler of an unmounted LoginRoute dispatches over a workspace:
\* the data request of the workspace it mounts is marked with it.
CommitBy(o, new, h, l, r) ==
    LET left == new.status \notin LoginStates
        r1 == IF left THEN Orphaned(r) ELSE r
        r2 == IF Remounts(new) THEN Spawn(r1, [Sent("data", new.tenant, h) EXCEPT !.orphan = o]) ELSE r1
        r3 == IF Relists(new) /\ SignedIn(new)
              THEN Spawn(r2, Sent("tenants", NoTenant, new.token)) ELSE r2
    IN  /\ app' = [new EXCEPT !.tenants = @ /\ (~Relists(new) \/ SignedIn(new))]
        /\ header' = HeaderAfter(new)
        /\ reqs' = r3
        /\ login' = IF left THEN FreshLogin(NoTenant) ELSE l

Commit(new, h, l, r) == CommitBy(FALSE, new, h, l, r)

-----------------------------------------------------------------------------
SessionInit ==
    /\ app = LoggedOut /\ header = 0
    /\ \E p \in LinkTenants \cup {NoTenant} :
         login = FreshLogin(p) /\ url \in IF p = NoTenant THEN BOOLEAN ELSE {TRUE}
    /\ reqs = [s \in Slots |-> IdleSlot]
    /\ refresh = NoRefresh
    /\ sessions = <<>> /\ cookie = 0
    /\ acts = 0

UserActs == acts < MaxActs /\ acts' = acts + 1
CanSend == FreeSlots(reqs) # {}

\* --- LoginRoute -----------------------------------------------------------
\* LoginView shows the forms while no selection is offered; every button is
\* disabled while activeAction is not idle.
FormsEnabled == app.status \in LoginStates /\ ~app.selection /\ login.action = "idle"

\* The sign-in routes take no access token: what header such a request carries
\* makes no difference to its answer, and is left out.
SubmitMagicToken ==
    /\ FormsEnabled /\ UserActs /\ CanSend
    /\ Commit(LoginRequested, header, [login EXCEPT !.action = "magic"],
              Spawn(reqs, Sent("magic", NoTenant, 0)))
    /\ UNCHANGED <<url, refresh, sessions, cookie>>

\* useAutoMagicLogin: the effect of the mounted page, once per mount.
AutoMagicLogin ==
    /\ url /\ FormsEnabled /\ ~login.attempted /\ CanSend /\ UserActs
    /\ Commit(LoginRequested, header, [login EXCEPT !.action = "magic", !.attempted = TRUE],
              Spawn(reqs, Sent("magic", NoTenant, 0)))
    /\ UNCHANGED <<url, refresh, sessions, cookie>>

PasskeyLogin ==
    /\ FormsEnabled /\ UserActs /\ CanSend
    /\ Commit(LoginRequested, header, [login EXCEPT !.action = "passkey"],
              Spawn(reqs, Sent("passkeyStart", NoTenant, 0)))
    /\ UNCHANGED <<url, refresh, sessions, cookie>>

Signup ==
    /\ FormsEnabled /\ UserActs /\ CanSend
    /\ login' = [login EXCEPT !.action = "signup"]
    /\ reqs' = Spawn(reqs, Sent("signupStart", NoTenant, 0))
    /\ UNCHANGED <<app, header, url, refresh, sessions, cookie>>

SendSelect(t) ==
    /\ CanSend
    /\ reqs' = Spawn(reqs, Sent("select", t, Selector))

SelectTenant(t) ==
    /\ app.selection /\ login.action # "tenant" /\ UserActs
    /\ SendSelect(t)
    /\ login' = [login EXCEPT !.action = "tenant"]
    /\ UNCHANGED <<app, header, url, refresh, sessions, cookie>>

\* The link's preferred tenant, tried once when the selection is offered.
AutoSelectPreferred ==
    /\ app.selection /\ login.action # "tenant" /\ login.preferred # NoTenant
    /\ \/ /\ SendSelect(login.preferred)
          /\ login' = [login EXCEPT !.action = "tenant", !.preferred = NoTenant]
       \/ /\ login' = [login EXCEPT !.preferred = NoTenant]
          /\ UNCHANGED reqs
    /\ UNCHANGED <<app, header, url, refresh, sessions, cookie, acts>>

CancelSelection ==
    /\ app.selection /\ login.action # "tenant" /\ UserActs
    /\ Commit(LoggedOut, 0, [login EXCEPT !.action = "idle"], reqs)
    /\ UNCHANGED <<url, refresh, sessions, cookie>>

\* --- the signed-in application ---------------------------------------------
Send(op, arg) ==
    /\ app.status \notin LoginStates /\ UserActs /\ CanSend
    /\ reqs' = Spawn(reqs, [Sent(op, arg, header) EXCEPT !.got = IF op = "logout" THEN cookie ELSE 0])
    /\ UNCHANGED <<app, header, login, url, refresh, sessions, cookie>>

UseWorkspace == Send("data", app.tenant)
SwitchTenant(t) == t # app.tenant /\ Send("switch", t)
RefreshTenantList == Send("tenants", NoTenant)
Logout == Send("logout", NoTenant)

\* A page load: session storage holds the token and the tenant of the state,
\* for the effects of appState write both.  Requests in flight are lost.  A
\* magic link opened while signed in is only cleaned up.
LoadPage(link, preferred) ==
    LET fresh == [LoggedOut EXCEPT !.token = app.token, !.tenant = app.tenant,
                                   !.status = IF app.token # 0 THEN "authenticated" ELSE @]
        empty == [s \in Slots |-> IdleSlot]
    IN  /\ UserActs
        /\ app' = fresh /\ header' = fresh.token
        /\ url' = ((link \/ url) /\ fresh.token = 0)
        /\ login' = FreshLogin(IF url' THEN preferred ELSE NoTenant)
        /\ reqs' = IF SignedIn(fresh)
                   THEN Spawn(Spawn(empty, Sent("data", fresh.tenant, fresh.token)),
                              Sent("tenants", NoTenant, fresh.token))
                   ELSE empty
        /\ refresh' = NoRefresh
        /\ UNCHANGED <<sessions, cookie>>

\* --- the server -------------------------------------------------------------
Issue(t) ==
    /\ Len(sessions) < MaxSessions
    /\ sessions' = Append(sessions, [tenant |-> t, live |-> TRUE])

Answer(s, a, g) ==
    reqs' = [reqs EXCEPT ![s] = [@ EXCEPT !.phase = "answered", !.ans = a, !.got = g, !.auth = 0]]

ServeSession(s) ==
    /\ reqs[s].op \in SignInOps \cup {"select", "switch"}
    /\ reqs[s].op \in {"select", "switch"} => reqs[s].auth # 0
    /\ \E t \in IF reqs[s].arg # NoTenant THEN {reqs[s].arg} ELSE Tenants : Issue(t)
    /\ Answer(s, "ok", Len(sessions) + 1)

\* Revoke the session the cookie names or, when there is none to revoke, every
\* session of the user in the token's tenant.
Revoked(c, tok) ==
    IF c # 0 /\ sessions[c].live
    THEN [sessions EXCEPT ![c].live = FALSE]
    ELSE [i \in DOMAIN sessions |->
            [sessions[i] EXCEPT !.live = @ /\ sessions[i].tenant # sessions[tok].tenant]]

ServeLogout(s) ==
    /\ reqs[s].op = "logout" /\ reqs[s].auth # 0
    /\ sessions' = Revoked(reqs[s].got, reqs[s].auth)
    /\ Answer(s, "ok", 0)

\* A second 401 is an error like any other.
ServePlain(s) ==
    /\ \/ reqs[s].op \in {"data", "tenants"} /\ reqs[s].auth # 0 /\ Answer(s, "ok", 0)
       \/ reqs[s].op \in {"passkeyStart", "signupStart"} /\ Answer(s, "ok", 0)
       \/ reqs[s].op \in SignInOps /\ Answer(s, "selection", 0)
       \/ reqs[s].op \notin {"passkeyStart", "signupStart"} /\ ~reqs[s].retried /\ Answer(s, "unauthorized", reqs[s].got)
       \/ Answer(s, "error", reqs[s].got)
    /\ UNCHANGED sessions

Serve(s) ==
    /\ reqs[s].phase = "sent"
    /\ ServeSession(s) \/ ServeLogout(s) \/ ServePlain(s)
    /\ UNCHANGED <<app, header, login, url, refresh, cookie, acts>>

\* --- the response interceptor ------------------------------------------------
\* A first 401 parks the request on the refresh in flight, or starts one.
Unauthorized(s) ==
    /\ reqs[s].phase = "answered" /\ reqs[s].ans = "unauthorized"
    /\ reqs' = [reqs EXCEPT ![s].phase = "waiting", ![s].retried = TRUE, ![s].ans = "none"]
    /\ refresh' = IF refresh.phase = "none"
                  THEN [phase |-> "sent", cookie |-> cookie, got |-> 0] ELSE refresh
    /\ UNCHANGED <<app, header, login, url, sessions, cookie, acts>>

\* The server finds the cookie's session, and only then revokes and reissues it.
RefreshRead ==
    /\ refresh.phase = "sent"
    /\ \/ /\ refresh.cookie # 0 /\ sessions[refresh.cookie].live
          /\ refresh' = [refresh EXCEPT !.phase = "read"]
       \/ refresh' = [refresh EXCEPT !.phase = "answered"]
    /\ UNCHANGED <<app, header, login, url, reqs, sessions, cookie, acts>>

RefreshRotate ==
    /\ refresh.phase = "read"
    /\ \/ /\ Len(sessions) < MaxSessions
          /\ sessions' = Append([sessions EXCEPT ![refresh.cookie].live = FALSE],
                                [tenant |-> sessions[refresh.cookie].tenant, live |-> TRUE])
          /\ refresh' = [refresh EXCEPT !.phase = "answered", !.got = Len(sessions) + 1]
       \/ /\ refresh' = [refresh EXCEPT !.phase = "answered"]
          /\ UNCHANGED sessions
    /\ UNCHANGED <<app, header, login, url, reqs, cookie, acts>>

\* performTokenRefresh settles: everyone parked on it is sent again with the
\* new token, or fails with it.
\* Slip: nobody tells the parked requests that the refresh failed.
ReleasedOnSuccess(tok) ==
    [s \in Slots |->
       IF reqs[s].phase # "waiting" \/ tok = 0 THEN reqs[s]
       ELSE [reqs[s] EXCEPT !.phase = "sent", !.auth = tok]]
Released(tok) ==
    [s \in Slots |->
       IF reqs[s].phase # "waiting" THEN reqs[s]
       ELSE IF tok # 0 THEN [reqs[s] EXCEPT !.phase = "sent", !.auth = tok,
                                            !.got = IF reqs[s].op = "logout" THEN tok ELSE 0]
       ELSE [reqs[s] EXCEPT !.phase = "answered", !.ans = "error"]]

RefreshSettles ==
    /\ refresh.phase = "answered"
    /\ LET tok == refresh.got IN
         /\ Commit(IF tok # 0 THEN RefreshSucceeded(tok) ELSE LoggedOut, tok, login, Released(tok))
         /\ cookie' = IF tok # 0 THEN tok ELSE cookie
    /\ refresh' = NoRefresh
    /\ UNCHANGED <<url, sessions, acts>>

\* --- what the handlers do with their answers ----------------------------------
Final(s) == reqs[s].phase = "answered" /\ reqs[s].ans # "unauthorized"
Freed(s) == [reqs EXCEPT ![s] = IdleSlot]
Idled(s) == IF reqs[s].orphan THEN login ELSE [login EXCEPT !.action = "idle"]
SetCookie(s) == cookie' = IF reqs[s].got # 0 THEN reqs[s].got ELSE cookie

SettleWorkspace(s) ==
    /\ reqs[s].op \in {"data", "tenants"}
    /\ app' = IF reqs[s].op = "tenants" /\ reqs[s].ans = "ok"
              THEN [app EXCEPT !.tenants = TRUE] ELSE app
    /\ reqs' = Freed(s)
    /\ UNCHANGED <<header, login, cookie>>

\* useTenantManager sets the header itself before it dispatches: the workspace
\* of the new tenant asks for its data before AppStateProvider's effect runs.
\* Slip: the header is left to the provider's effect.
HeaderByEffect(s) == header
SwitchHeader(s) == reqs[s].got
SettleSwitch(s) ==
    /\ reqs[s].op = "switch"
    /\ IF reqs[s].ans = "ok"
       THEN Commit(LoginSucceeded(reqs[s].got), SwitchHeader(s), login, Freed(s)) /\ SetCookie(s)
       ELSE reqs' = Freed(s) /\ UNCHANGED <<app, header, login, cookie>>

\* LoginRoute only dispatches.  From the page itself the provider's effect has
\* set the header before the page gives way to a workspace; a late handler of a
\* page that is gone finds a workspace mounted, and the one it mounts instead
\* asks with the header still in force.
LateSignIn == app.status \notin LoginStates
HeaderAtMount(tok) == IF LateSignIn THEN header ELSE tok
SignIn(s, l) ==
    /\ CommitBy(LateSignIn, LoginSucceeded(reqs[s].got), HeaderAtMount(reqs[s].got), l, Freed(s))
    /\ SetCookie(s)

SettleSelect(s) ==
    /\ reqs[s].op = "select"
    /\ IF reqs[s].ans = "ok"
       THEN SignIn(s, Idled(s))
       ELSE /\ reqs' = Freed(s) /\ login' = Idled(s)
            /\ UNCHANGED <<app, header, cookie>>

\* handleAuthCompletion on success; a failed sign-in logs out, a failed signup
\* only reports.
AuthCompleted(s) ==
    \/ /\ reqs[s].ans = "ok"
       /\ SignIn(s, login)
    \/ /\ reqs[s].ans = "selection"
       /\ Commit(SelectionRequired, 0, Idled(s), Freed(s)) /\ UNCHANGED cookie

SettleSignIn(s) ==
    /\ reqs[s].op \in {"magic", "passkey"}
    /\ \/ AuthCompleted(s)
       \/ /\ reqs[s].ans = "error"
          /\ Commit(LoggedOut, 0, [Idled(s) EXCEPT !.preferred = IF reqs[s].orphan THEN @ ELSE NoTenant],
                    Freed(s))
          /\ UNCHANGED cookie

SettleSignup(s) ==
    /\ reqs[s].op = "signup"
    /\ \/ AuthCompleted(s)
       \/ /\ reqs[s].ans = "error"
          /\ reqs' = Freed(s) /\ login' = Idled(s)
          /\ UNCHANGED <<app, header, cookie>>

\* The challenge came back: the browser's prompt opens, or the attempt is over.
SettleStart(s) ==
    /\ reqs[s].op \in {"passkeyStart", "signupStart"}
    /\ \/ /\ reqs[s].ans = "ok"
          /\ reqs' = [reqs EXCEPT ![s].phase = "prompt"]
          /\ UNCHANGED <<app, header, login>>
       \/ /\ reqs[s].ans # "ok" /\ reqs[s].op = "passkeyStart"
          /\ Commit(LoggedOut, 0, Idled(s), Freed(s))
       \/ /\ reqs[s].ans # "ok" /\ reqs[s].op = "signupStart"
          /\ reqs' = Freed(s) /\ login' = Idled(s)
          /\ UNCHANGED <<app, header>>
    /\ UNCHANGED cookie

SettleLogout(s) ==
    /\ reqs[s].op = "logout"
    /\ Commit(LoggedOut, 0, login, Freed(s))
    /\ cookie' = IF reqs[s].ans = "ok" THEN 0 ELSE cookie

Settle(s) ==
    /\ Final(s)
    /\ \/ SettleWorkspace(s) \/ SettleSwitch(s) \/ SettleSelect(s) \/ SettleSignIn(s)
       \/ SettleSignup(s) \/ SettleStart(s) \/ SettleLogout(s)
    /\ UNCHANGED <<url, refresh, sessions, acts>>

ConfirmPrompt(s) ==
    /\ reqs[s].phase = "prompt"
    /\ reqs' = [reqs EXCEPT ![s] = [Sent(IF reqs[s].op = "passkeyStart" THEN "passkey" ELSE "signup",
                                         NoTenant, 0) EXCEPT !.orphan = reqs[s].orphan]]
    /\ UNCHANGED <<app, header, login, url, refresh, sessions, cookie, acts>>

\* Cancelled: the action is idle again; the app's status is left as it was.
CancelPrompt(s) ==
    /\ reqs[s].phase = "prompt"
    /\ reqs' = Freed(s) /\ login' = Idled(s)
    /\ UNCHANGED <<app, header, url, refresh, sessions, cookie, acts>>

\* --- another tab of the same browser: same cookie, its own session storage -----
OtherTabRefreshes ==
    /\ UserActs
    /\ cookie # 0 /\ sessions[cookie].live /\ Len(sessions) < MaxSessions
    /\ sessions' = Append([sessions EXCEPT ![cookie].live = FALSE],
                          [tenant |-> sessions[cookie].tenant, live |-> TRUE])
    /\ cookie' = Len(sessions) + 1
    /\ UNCHANGED <<app, header, login, url, reqs, refresh>>

OtherTabSwitches(t) ==
    /\ UserActs /\ cookie # 0 /\ Issue(t)
    /\ cookie' = Len(sessions) + 1
    /\ UNCHANGED <<app, header, login, url, reqs, refresh>>

-----------------------------------------------------------------------------
SessionNext ==
    \/ SubmitMagicToken \/ AutoMagicLogin \/ PasskeyLogin \/ Signup
    \/ \E t \in Tenants : SelectTenant(t) \/ SwitchTenant(t) \/ OtherTabSwitches(t)
    \/ AutoSelectPreferred \/ CancelSelection
    \/ UseWorkspace \/ RefreshTenantList \/ Logout
    \/ \E p \in LinkTenants \cup {NoTenant} : LoadPage(TRUE, p)
    \/ LoadPage(FALSE, NoTenant)
    \/ \E s \in Slots : Serve(s) \/ Unauthorized(s) \/ Settle(s)
                          \/ ConfirmPrompt(s) \/ CancelPrompt(s)
    \/ RefreshRead \/ RefreshRotate \/ RefreshSettles
    \/ OtherTabRefreshes

\* The network answers or fails, the browser's prompt ends by itself.
SessionFairness ==
    /\ \A s \in Slots : /\ WF_sessionVars(Serve(s)) /\ WF_sessionVars(Unauthorized(s))
                        /\ WF_sessionVars(Settle(s)) /\ WF_sessionVars(CancelPrompt(s))
    /\ WF_sessionVars(RefreshRead) /\ WF_sessionVars(RefreshRotate) /\ WF_sessionVars(RefreshSettles)

SessionSpec == SessionInit /\ [][SessionNext]_sessionVars /\ SessionFairness

-----------------------------------------------------------------------------
\* The shape of the state; a token, a cookie and an answer name issued sessions.
SessionTypeOK ==
    /\ app \in [status: LoginStates \cup {"authenticated"}, token: 0..Len(sessions),
                tenant: Tenants \cup {NoTenant}, selection: BOOLEAN, tenants: BOOLEAN]
    /\ header = app.token
    /\ login \in [action: {"idle", "magic", "passkey", "signup", "tenant"},
                  attempted: BOOLEAN, preferred: Tenants \cup {NoTenant}]
    /\ url \in BOOLEAN /\ acts \in 0..MaxActs /\ cookie \in 0..Len(sessions)
    /\ sessions \in Seq([tenant: Tenants, live: BOOLEAN]) /\ Len(sessions) <= MaxSessions
    /\ reqs \in [Slots -> [op: AppOps \cup LoginOps \cup {"none"}, arg: Tenants \cup {NoTenant},
                           auth: {Selector} \cup SessionIds, retried: BOOLEAN,
                           phase: {"none", "sent", "answered", "waiting", "prompt"},
                           ans: {"none", "ok", "selection", "unauthorized", "error"},
                           got: SessionIds, orphan: BOOLEAN]]
    /\ refresh \in [phase: {"none", "sent", "read", "answered"}, cookie: SessionIds, got: SessionIds]

\* The tenant the client shows is the tenant its token acts in, whatever mix of
\* sign-ins, switches, refreshes (of this tab or answered after another tab has
\* switched) and reloads led there (appState.tsx:93-164).
TenantMatchesToken ==
    app.tenant # NoTenant => app.token # 0 /\ sessions[app.token].tenant = app.tenant

\* A workspace asks for its data in the tenant it shows: the first try of its
\* request carries a token of the tenant it was made for, also right after a
\* switch, when the new workspace mounts before the provider's effect has set
\* the header (useTenantManager.ts:57-66).  A retry may not, nor the request of a
\* workspace that a late sign-in put in another one's place: see the README.
TriedFirst(s) ==
    reqs[s].op = "data" /\ reqs[s].phase = "sent" /\ ~reqs[s].retried /\ reqs[s].arg # NoTenant
CarriesItsTenant(s) == sessions[reqs[s].auth].tenant = reqs[s].arg
RequestsCarryTheirTenant == \A s \in Slots : TriedFirst(s) /\ ~reqs[s].orphan => CarriesItsTenant(s)

\* The same without the exception, which the code does not keep: a sign-up left
\* behind by a refresh that signed the user in, answered with another tenant,
\* mounts a workspace that asks with the earlier tenant's token
\* (LoginRoute.tsx:105-109, index.tsx:120-124, appState.tsx:190-199).
EveryFirstTryCarriesItsTenant == \A s \in Slots : TriedFirst(s) => CarriesItsTenant(s)

\* A tenant selection is only ever offered without a token: a refresh that
\* succeeds behind it withdraws it, so no session is replaced by a stale choice
\* (appState.tsx:113-125, 155-164).
SelectionIsExclusive ==
    app.selection => app.status = "selecting-tenant" /\ app.token = 0 /\ app.tenant = NoTenant

\* Every request ends: one refused with 401 is parked, sent at most once more,
\* and fails when the refresh fails (apiClient.ts:302-348).
RequestsSettle == \A s \in Slots : (reqs[s].op # "none") ~> (reqs[s].op = "none")

\* A sign-in attempt never leaves the page's buttons disabled for good: it ends
\* idle again or with the page left (LoginRoute.tsx:115-375).
SignInEnds == (login.action # "idle") ~> (login.action = "idle")

\* What the client holds of its session fits together, at every moment of a sign-in,
\* a switch, a refresh and a sign-out (appState.tsx:93-164, useTenantManager.ts:57-66).
SessionIsConsistent == TenantMatchesToken /\ RequestsCarryTheirTenant /\ SelectionIsExclusive
=============================================================================
