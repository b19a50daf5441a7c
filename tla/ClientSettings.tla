---------------------------- MODULE ClientSettings ----------------------------
(***************************************************************************)
(* The settings window of the web client: API tokens, capability sets,     *)
(* members, passkeys and the tenant's name, each a hook that keeps a list, *)
(* its busy flags and its requests, and a section that guards its buttons  *)
(* with them. One section is on the screen at a time.                      *)
(*                                                                         *)
(* A request, and the requests its handler still makes, is an errand.      *)
(***************************************************************************)
EXTENDS Integers, Sequences

CONSTANTS
    ApiTokens, SetIds, Members, Passkeys, Capabilities, TenantNames,    \* what may be listed
    NoItem,
    MaxErrands,         \* bound: handlers awaiting the server at once
    MaxSettingsActs     \* bound: user actions

ASSUME SettingsConstants == MaxErrands \in Nat \ {0} /\ MaxSettingsActs \in Nat

VARIABLES
    stored,     \* the server: not there yet, as first written, rewritten, gone
    shown,      \* the lists of the hooks
    busy,       \* loading, creating, saving and deleting of every hook
    section,    \* activeSection; "closed" once the window is
    editing,    \* the row an editor is open on
    chosen,     \* the capability set of the token form
    secret,     \* the token whose secret is displayed
    supported,  \* passkeysSupported
    errands,
    muddled,    \* history: items two requests met over, or whose listing failed
    settingsActs

settingsVars == <<stored, shown, busy, section, editing, chosen, secret, supported, errands, muddled, settingsActs>>

-----------------------------------------------------------------------------
Sections == {"tokens", "sets", "members", "passkeys"}
Hooks == Sections \cup {"capabilities", "tenant"}
ItemsOf(k) == CASE k = "tokens" -> ApiTokens [] k = "sets" -> SetIds [] k = "members" -> Members
                [] k = "passkeys" -> Passkeys [] k = "capabilities" -> Capabilities [] OTHER -> TenantNames
Items == UNION {ItemsOf(k) : k \in Hooks}
Edited == {"sets", "members"}           \* lists with an editor
ErrandIds == 1..MaxErrands
Unseen(n) == IF n = "gone" THEN "none" ELSE n
ShownOf(k) == {i \in ItemsOf(k) : shown[i] # "none"}

NoErrand == [op |-> "none", hook |-> "tokens", item |-> NoItem, stage |-> "free", ok |-> TRUE,
             told |-> <<>>, frees |-> "nothing", then |-> <<>>]
Errand(op, k, i) == [NoErrand EXCEPT !.op = op, !.hook = k, !.item = i, !.stage = "sent"]
Listing(k) == Errand("list", k, NoItem)
Freeing(flag, q) == [q EXCEPT !.frees = flag]

Touches(q) == IF q.op = "list" THEN ItemsOf(q.hook)
              ELSE IF q.op \in {"create", "save", "delete", "finish"} THEN {q.item} ELSE {}
Crossed(q, e) == IF q.op = "list" /\ e.op = "list" THEN {} ELSE Touches(q) \cap Touches(e)
Muddled(q, others) == muddled \cup UNION {Crossed(q, errands[e]) : e \in others}

Idlers == {c \in ErrandIds : errands[c].op = "none"}
RunErrand(q) ==
    /\ Idlers # {} /\ settingsActs < MaxSettingsActs
    /\ settingsActs' = settingsActs + 1
    /\ errands' = [errands EXCEPT ![CHOOSE c \in Idlers : \A e \in Idlers : c <= e] = q]
    /\ muddled' = Muddled(q, ErrandIds)

\* --- effects that follow every change of the lists ----------------------------------
\* An editor whose row left the list is closed, and a chosen set that left it is
\* replaced by the first one listed.
\* Slip: the editor stays.
EditorsKept(list, open) == open
EditorsAfter(list, open) ==
    [k \in Edited |-> IF open[k] # NoItem /\ list[open[k]] = "none" THEN NoItem ELSE open[k]]
ChoiceAfter(list, old) ==
    LET there == {s \in SetIds : list[s] # "none"}
    IN  IF there = {} THEN {NoItem} ELSE IF old \in there THEN {old} ELSE there
\* The token form exists only in its section.
FormOf(s, list, old) == IF s = "tokens" THEN ChoiceAfter(list, old) ELSE {NoItem}

-----------------------------------------------------------------------------
Nothing == [loading |-> {}, creating |-> {}, saving |-> [k \in Hooks |-> NoItem], deleting |-> [k \in Hooks |-> NoItem]]

\* The window has opened: each hook's first listing has been answered, or is under way.
SettingsInit ==
    /\ stored \in {f \in [Items -> {"none", "old"}] : \A i \in Members \cup Capabilities \cup TenantNames : f[i] = "old"}
    /\ \E late \in SUBSET (Sections \cup {"capabilities"}) :
         /\ errands \in {f \in [ErrandIds -> {NoErrand} \cup {Listing(k) : k \in late}] :
                           \A k \in late : \E c \in ErrandIds : f[c] = Listing(k)}
         /\ shown = [i \in Items |-> IF \E k \in late : i \in ItemsOf(k) THEN "none" ELSE stored[i]]
         /\ busy = [Nothing EXCEPT !.loading = late \ {"tokens"}]
    /\ section = "tokens"
    /\ editing = [k \in Edited |-> NoItem]
    /\ chosen \in FormOf("tokens", shown, NoItem)
    /\ secret = NoItem /\ supported = TRUE
    /\ muddled = {} /\ settingsActs = 0

\* --- the window ------------------------------------------------------------------------
SelectSection(s) ==
    /\ section \notin {"closed", s}
    /\ section' = s
    /\ editing' = [k \in Edited |-> NoItem]
    /\ chosen' \in FormOf(s, shown, NoItem)
    /\ UNCHANGED <<stored, shown, busy, secret, supported, errands, muddled, settingsActs>>

\* Everything is unmounted; requests under way are still served.
CloseSettings ==
    /\ section # "closed"
    /\ section' = "closed" /\ busy' = Nothing /\ secret' = NoItem
    /\ editing' = [k \in Edited |-> NoItem] /\ chosen' = NoItem
    /\ UNCHANGED <<stored, shown, supported, errands, muddled, settingsActs>>

\* The refresh button lists everything; the lists share no state, and the model
\* follows any one of them.
Relist(k) ==
    /\ section # "closed"
    /\ RunErrand(Listing(k))
    /\ busy' = [busy EXCEPT !.loading = @ \cup ({k} \ {"tokens", "tenant"})]
    /\ UNCHANGED <<stored, shown, section, editing, chosen, secret, supported>>

Stays == UNCHANGED <<stored, shown, section, editing, chosen, secret, supported>>

\* --- API tokens ----------------------------------------------------------------------
TokenFormReady == "tokens" \notin busy.creating /\ "sets" \notin busy.loading /\ chosen # NoItem
CreateToken(i) ==
    /\ section = "tokens" /\ TokenFormReady /\ i \in ApiTokens /\ stored[i] = "none"
    /\ RunErrand(Freeing("creating", Errand("create", "tokens", i)))
    /\ busy' = [busy EXCEPT !.creating = @ \cup {"tokens"}]
    /\ Stays

RowIsFree(k, i) == section = k /\ i \in ShownOf(k) /\ busy.deleting[k] # i

RegenerateToken(i) ==
    /\ RowIsFree("tokens", i) /\ busy.saving["tokens"] # i
    /\ RunErrand(Freeing("saving", Errand("save", "tokens", i)))
    /\ busy' = [busy EXCEPT !.saving["tokens"] = i]
    /\ Stays

\* A revoked token or passkey is known from the list that is read after it.
RevokeToken(i) ==
    /\ RowIsFree("tokens", i) /\ busy.saving["tokens"] # i
    /\ RunErrand([Freeing("deleting", Errand("delete", "tokens", i)) EXCEPT !.then = <<Listing("tokens")>>])
    /\ busy' = [busy EXCEPT !.deleting["tokens"] = i]
    /\ Stays

DismissSecret ==
    /\ secret # NoItem
    /\ secret' = NoItem
    /\ UNCHANGED <<stored, shown, busy, section, editing, chosen, supported, errands, muddled, settingsActs>>

\* --- capability sets and members -----------------------------------------------------
CapabilitiesReady == "capabilities" \notin busy.loading /\ ShownOf("capabilities") # {}

SetFormReady == "sets" \notin busy.creating \cup busy.loading /\ CapabilitiesReady
CreateSet(i) ==
    /\ section = "sets" /\ SetFormReady /\ i \in SetIds /\ stored[i] = "none"
    /\ RunErrand(Freeing("creating", Errand("create", "sets", i)))
    /\ busy' = [busy EXCEPT !.creating = @ \cup {"sets"}]
    /\ Stays

EditRow(k, i) ==
    /\ RowIsFree(k, i) /\ busy.saving[k] # i /\ k \notin busy.loading /\ editing[k] # i
    /\ editing' = [editing EXCEPT ![k] = i]
    /\ UNCHANGED <<stored, shown, busy, section, chosen, secret, supported, errands, muddled, settingsActs>>

LeaveRow(k) ==
    /\ editing[k] # NoItem /\ busy.saving[k] # editing[k]
    /\ editing' = [editing EXCEPT ![k] = NoItem]
    /\ UNCHANGED <<stored, shown, busy, section, chosen, secret, supported, errands, muddled, settingsActs>>

SaveRow(k) ==
    /\ editing[k] # NoItem /\ busy.saving[k] # editing[k]
    /\ k = "sets" => "sets" \notin busy.loading /\ CapabilitiesReady
    /\ RunErrand(Freeing("saving", Errand("save", k, editing[k])))
    /\ busy' = [busy EXCEPT !.saving[k] = editing[k]]
    /\ Stays
SaveSet == SaveRow("sets")
SaveMember == SaveRow("members")

DeleteRow(k, i) ==
    /\ RowIsFree(k, i) /\ busy.saving[k] # i /\ k \notin busy.loading
    /\ RunErrand(Freeing("deleting", Errand("delete", k, i)))
    /\ busy' = [busy EXCEPT !.deleting[k] = i]
    /\ Stays
DeleteSet(i) == DeleteRow("sets", i)
RemoveMember(i) == DeleteRow("members", i)

RenameTenant(i) ==
    /\ section = "members" /\ i \in TenantNames /\ busy.saving["tenant"] = NoItem
    /\ RunErrand([Freeing("saving", Errand("save", "tenant", i)) EXCEPT !.then = <<Listing("tenant")>>])
    /\ busy' = [busy EXCEPT !.saving["tenant"] = i]
    /\ Stays

\* --- passkeys ------------------------------------------------------------------------
\* A challenge, the browser's prompt, the answer to the challenge, and the list.
PasskeyFormReady == supported /\ "passkeys" \notin busy.creating
RegisterPasskey(i) ==
    /\ section = "passkeys" /\ PasskeyFormReady /\ i \in Passkeys /\ stored[i] = "none"
    /\ RunErrand([Freeing("creating", Errand("challenge", "passkeys", i)) EXCEPT
                    !.then = <<[Errand("prompt", "passkeys", i) EXCEPT !.stage = "asking"],
                               Errand("finish", "passkeys", i), Listing("passkeys")>>])
    /\ busy' = [busy EXCEPT !.creating = @ \cup {"passkeys"}]
    /\ Stays

\* The user agrees, or refuses or lets the prompt time out.
AnswerPrompt(c) ==
    /\ errands[c].stage = "asking"
    /\ \E yes \in BOOLEAN : errands' = [errands EXCEPT ![c].stage = "answered", ![c].ok = yes]
    /\ UNCHANGED <<stored, shown, busy, section, editing, chosen, secret, supported, muddled, settingsActs>>

RevokePasskey(i) ==
    /\ RowIsFree("passkeys", i) /\ supported
    /\ RunErrand([Freeing("deleting", Errand("delete", "passkeys", i)) EXCEPT !.then = <<Listing("passkeys")>>])
    /\ busy' = [busy EXCEPT !.deleting["passkeys"] = i]
    /\ Stays

\* --- the server ------------------------------------------------------------------------
Possible(q) == CASE q.op \in {"create", "finish"} -> stored[q.item] = "none"
                 [] q.op \in {"save", "delete"} -> stored[q.item] \in {"old", "new"}
                 [] OTHER -> TRUE
Writes(q) == CASE q.op \in {"create", "finish"} -> "old" [] q.op = "save" -> "new" [] OTHER -> "gone"

ServeErrand(c) ==
    LET q == errands[c]
    IN  /\ q.stage = "sent"
        /\ \/ /\ Possible(q)
              /\ stored' = IF q.op \in {"list", "challenge"} THEN stored ELSE [stored EXCEPT ![q.item] = Writes(q)]
              /\ errands' = [errands EXCEPT ![c].stage = "answered",
                               ![c].told = IF q.op = "list" THEN [i \in ItemsOf(q.hook) |-> Unseen(stored[i])] ELSE @]
           \/ /\ errands' = [errands EXCEPT ![c].stage = "answered", ![c].ok = FALSE]
              /\ UNCHANGED stored
        /\ UNCHANGED <<shown, busy, section, editing, chosen, secret, supported, muddled, settingsActs>>

\* --- the handlers resume -----------------------------------------------------------------
Put(list, i, v) == [list EXCEPT ![i] = v]
\* A listing that failed leaves the list, but for the capabilities, which it empties.
\* Slip: a member or set saved is shown from the next listing.
ShownIfListed(q) ==
    CASE q.op = "list" /\ q.ok -> [i \in Items |-> IF i \in ItemsOf(q.hook) THEN q.told[i] ELSE shown[i]]
      [] q.op = "create" /\ q.ok -> Put(shown, q.item, "old")
      [] q.op = "delete" /\ q.ok /\ q.hook \in Edited -> Put(shown, q.item, "none")
      [] OTHER -> shown
ShownAfter(q) ==
    CASE q.op = "list" /\ q.ok -> [i \in Items |-> IF i \in ItemsOf(q.hook) THEN q.told[i] ELSE shown[i]]
      [] q.op = "list" /\ ~q.ok /\ q.hook = "capabilities" ->
           [i \in Items |-> IF i \in Capabilities THEN "none" ELSE shown[i]]
      [] q.op = "create" /\ q.ok -> Put(shown, q.item, "old")
      [] q.op = "save" /\ q.ok /\ q.hook \in {"tokens", "sets"} -> Put(shown, q.item, "new")
      [] q.op = "save" /\ q.ok /\ q.hook = "members" /\ q.item \in ShownOf("members") -> Put(shown, q.item, "new")
      [] q.op = "delete" /\ q.ok /\ q.hook \in Edited -> Put(shown, q.item, "none")
      [] OTHER -> shown

\* A saved row closes the editor, whichever row it is on by now.
EditorsOf(q) == IF q.op = "save" /\ q.ok /\ q.hook \in Edited THEN [editing EXCEPT ![q.hook] = NoItem] ELSE editing

SecretAfter(q) == IF q.ok /\ q.hook = "tokens" /\ q.op \in {"create", "save"} THEN q.item ELSE secret

\* What a handler resets at its end, whether it failed or not (its finally).
Released(q, last) ==
    [loading |-> IF q.op = "list" THEN busy.loading \ {q.hook} ELSE busy.loading,
     creating |-> IF last /\ q.frees = "creating" THEN busy.creating \ {q.hook} ELSE busy.creating,
     saving |-> IF last /\ q.frees = "saving" THEN [busy.saving EXCEPT ![q.hook] = NoItem] ELSE busy.saving,
     deleting |-> IF last /\ q.frees = "deleting" THEN [busy.deleting EXCEPT ![q.hook] = NoItem] ELSE busy.deleting]

\* A refusal of the passkey routes with 400 or 404 says they are not offered.
SupportAfter(q, refused) ==
    IF q.hook # "passkeys" THEN supported
    ELSE IF q.op = "list" /\ (q.ok \/ q.frees = "creating") THEN TRUE
    ELSE IF ~q.ok /\ refused /\ q.op \in {"list", "challenge", "finish"} THEN FALSE ELSE supported

\* A failure ends the handler; so does the end of its listing, failed or not.
SettleErrand(c) ==
    LET q == errands[c]
        last == q.then = <<>> \/ ~q.ok
        next == IF last THEN NoErrand ELSE [Head(q.then) EXCEPT !.then = Tail(q.then), !.frees = q.frees]
        began == IF next.op = "list" /\ next.hook = "passkeys" THEN {"passkeys"} ELSE {}
    IN  /\ q.stage = "answered"
        /\ errands' = [errands EXCEPT ![c] = next]
        /\ muddled' = Muddled(next, ErrandIds \ {c}) \cup (IF q.op = "list" /\ ~q.ok THEN ItemsOf(q.hook) ELSE {})
        /\ IF section = "closed" THEN UNCHANGED <<shown, busy, editing, chosen, secret, supported>>
           ELSE /\ \E refused \in BOOLEAN : supported' = SupportAfter(q, refused)
                /\ shown' = IF q.hook = "passkeys" /\ q.op = "list" /\ ~q.ok /\ ~supported'
                            THEN [i \in Items |-> IF i \in Passkeys THEN "none" ELSE shown[i]] ELSE ShownAfter(q)
                /\ busy' = [Released(q, last) EXCEPT !.loading = @ \cup began]
                /\ editing' = EditorsAfter(shown', EditorsOf(q))
                /\ chosen' \in FormOf(section, shown', chosen)
                /\ secret' = SecretAfter(q)
        /\ UNCHANGED <<stored, section, settingsActs>>

-----------------------------------------------------------------------------
SettingsNext ==
    \/ \E s \in Sections : SelectSection(s)
    \/ CloseSettings \/ DismissSecret \/ SaveSet \/ SaveMember
    \/ \E k \in Hooks : Relist(k)
    \/ \E k \in Edited : LeaveRow(k) \/ \E i \in ItemsOf(k) : EditRow(k, i)
    \/ \E i \in Items : \/ CreateToken(i) \/ RegenerateToken(i) \/ RevokeToken(i) \/ CreateSet(i) \/ DeleteSet(i)
                        \/ RemoveMember(i) \/ RenameTenant(i) \/ RegisterPasskey(i) \/ RevokePasskey(i)
    \/ \E c \in ErrandIds : AnswerPrompt(c) \/ ServeErrand(c) \/ SettleErrand(c)

\* Requests are answered, and a prompt the user leaves alone times out.
SettingsFairness ==
    \A c \in ErrandIds : WF_settingsVars(AnswerPrompt(c) \/ ServeErrand(c) \/ SettleErrand(c))

SettingsSpec == SettingsInit /\ [][SettingsNext]_settingsVars /\ SettingsFairness

-----------------------------------------------------------------------------
AllSettled == \A c \in ErrandIds : errands[c].op = "none"

\* The shape of the state; an editor is open only in the section on the screen,
\* and on a row of its list (CapabilitySetsSection.tsx:329-337,
\* TenantSection.tsx:131-139).
SettingsTypeOK ==
    /\ stored \in [Items -> {"none", "old", "new", "gone"}] /\ shown \in [Items -> {"none", "old", "new"}]
    /\ section \in Sections \cup {"closed"} /\ secret \in ApiTokens \cup {NoItem} /\ supported \in BOOLEAN
    /\ busy.loading \cup busy.creating \subseteq Hooks
    /\ \A k \in Edited : editing[k] # NoItem => section = k /\ editing[k] \in ShownOf(k)

\* The token form never offers a set that is no longer listed, also when the
\* sets are listed again while it is open (ApiTokensSection.tsx:147-156).
ChosenSetIsListed == section = "tokens" => IF ShownOf("sets") = {} THEN chosen = NoItem ELSE chosen \in ShownOf("sets")

\* Whatever fails, and however handlers overlap, an open window in which nothing
\* is under way has all its buttons back.
SettingsRelease == AllSettled => busy = Nothing

\* Once all is answered every list is the server's, but for items two requests
\* met over and lists that could not be read (useApiTokens.ts:77-86, 130-149;
\* useCapabilitySets.ts:91-102, 151-170; useTenantUsers.ts:52-63, 83-87).
ListsAgree ==
    AllSettled /\ section # "closed" => \A i \in Items \ muddled : shown[i] = Unseen(stored[i])

\* Lists, the form's choice and the buttons, whatever requests were under way.
SettingsAreConsistent == ChosenSetIsListed /\ SettingsRelease /\ ListsAgree
=============================================================================
