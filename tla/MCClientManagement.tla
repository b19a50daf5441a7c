-------------------------- MODULE MCClientManagement --------------------------
\* What the user manages: the tags and correspondents and the settings; and the
\* pages of a PDF. Each behaviour is one of them, chosen at the start, the others
\* resting; the sections of the settings are looked at in three groups.
EXTENDS ClientCatalog, ClientSettings, ClientPdfViewer
CONSTANTS p1, p2, tk, s1, pk
VARIABLES part, group

Groups == {{"tokens", "sets", "capabilities"}, {"members", "tenant"}, {"passkeys"}}
InGroup(calls) == \A c \in ErrandIds : calls[c].op # "none" => calls[c].hook \in group

CatalogAtFirst ==
    /\ CatalogInit /\ links \subseteq {p1} \X Entries
    /\ \A d, e \in Entries : names[d] = names[e]
CatalogRests == CatalogInit /\ links = {} /\ filters = {} /\ panel = ClosedPanel /\ \A e \in Entries : names[e] = "none"
SettingsAtFirst ==
    /\ SettingsInit /\ InGroup(errands) /\ stored[tk] = stored[s1]
    /\ "passkeys" \in group \/ stored[pk] = "none"
    /\ "tokens" \in group \/ stored[tk] = "none"
SettingsRests ==
    /\ SettingsInit /\ stored[tk] = "none" /\ stored[s1] = "none" /\ stored[pk] = "none"
    /\ \A c \in ErrandIds : errands[c] = NoErrand

PdfRests ==
    /\ loads = <<[stage |-> "ended", cancelled |-> TRUE]>> /\ status = [kind |-> "closed", of |-> 1, prompt |-> 0]
    /\ pdf = 0 /\ opened = {} /\ broken = {} /\ visible = {} /\ skims = {} /\ wanted = {} /\ stack = <<>> /\ active = {}
    /\ canvas = [p \in PageNumbers |-> "none"] /\ task = [p \in PageNumbers |-> 0] /\ rendered = [p \in PageNumbers |-> FALSE] /\ runs = [r \in RunIds |-> NoRun]
    /\ overtaken = FALSE /\ scrolls = 0
PdfAtFirst == PdfInit /\ broken \in {{}, {2}}

MCInit ==
    /\ group \in Groups
    /\ \/ part = "catalog" /\ "passkeys" \in group /\ CatalogAtFirst /\ SettingsRests /\ PdfRests
       \/ part = "settings" /\ CatalogRests /\ SettingsAtFirst /\ PdfRests
       \/ part = "pdf" /\ "passkeys" \in group /\ CatalogRests /\ SettingsRests /\ PdfAtFirst
SettingsTurn ==
    /\ SettingsNext
    /\ section' \in group \cup {"closed", "tokens"} /\ InGroup(errands')
MCNext ==
    /\ UNCHANGED <<part, group>>
    /\ \/ part = "catalog" /\ CatalogNext /\ UNCHANGED <<settingsVars, pdfVars>>
       \/ part = "settings" /\ SettingsTurn /\ UNCHANGED <<catalogVars, pdfVars>>
       \/ part = "pdf" /\ PdfNext /\ UNCHANGED <<catalogVars, settingsVars>>
\* The fairness of each module, asked of the part it is about.
MCFairness ==
    /\ WF_catalogVars(part = "catalog" /\ ReportDrops)
    /\ \A c \in TaskIds : WF_catalogVars(part = "catalog" /\ (ServeTask(c) \/ SettleTask(c)))
    /\ \A p \in PageNumbers : WF_pdfVars(part = "pdf" /\ PageStep(p))
    /\ \A r \in RunIds : WF_pdfVars(part = "pdf" /\ RunStep(r))
    /\ \A l \in 1..MaxOpens : WF_pdfVars(part = "pdf" /\ l \in DOMAIN loads /\ LoadStep(l))
MCSpec == MCInit /\ [][MCNext]_<<part, group, catalogVars, settingsVars, pdfVars>> /\ MCFairness

\* The states of the three parts are well formed.
ManagementTypeOK == CatalogTypeOK /\ SettingsTypeOK /\ PdfTypeOK
\* Drops are reported, pages in reach are drawn and loading ends.
ManagementSettles == DropsAreReported /\ PagesGetDrawn /\ LoadingEnds
=============================================================================
