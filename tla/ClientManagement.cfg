SPECIFICATION MCSpec
CONSTANTS
    p1 = p1
    p2 = p2
    tk = tk
    s1 = s1
    pk = pk
    Papers = {p1, p2}
    Tags = {t}
    Correspondents = {k}
    Nobody = nobody
    MaxTasks = 2
    MaxCatalogActs = 2
    ApiTokens = {tk}
    SetIds = {s1}
    Members = {mb}
    Passkeys = {pk}
    Capabilities = {cp}
    TenantNames = {tn}
    NoItem = none
    MaxErrands = 2
    MaxSettingsActs = 2
    NumPages = 2
    Reach = 1
    MaxRenders = 1
    MaxRuns = 2
    MaxOpens = 2
    MaxScrolls = 2
INVARIANTS
    ManagementTypeOK
    CatalogIsConsistent
    SettingsAreConsistent
    SlotsAreSound
    SourceIsLatest
PROPERTIES
    ManagementSettles
CHECK_DEADLOCK FALSE
