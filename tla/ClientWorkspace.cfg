SPECIFICATION MCSpec
CONSTANTS
    Tenants = {t1, t2}
    NoTenant = NoTenant
    LinkTenants = {t1}
    MaxSessions = 3
    MaxInFlight = 2
    MaxActs = 2
    Docs = {d1, d2}
    Places = {root, f1}
    Root = root
    Trash = trash
    Queries = {q1, q2}
    None = None
    MaxCalls = 2
    MaxDocActs = 2
    Dirs = {a, b}
    Top = top
    Gone = gone
    MaxFolderCalls = 2
    MaxFolderActs = 3
    finger1 = finger1
    Papers = {p1, p2}
    Views = {inbox, bills}
    Pointers = {finger1, finger2}
    NoPaper = nopaper
    NoPointer = nopointer
    MaxPlace = 1
    MaxMounts = 2
    MaxRequests = 2
    MaxDeskActs = 2
INVARIANTS
    WorkspaceTypeOK
    SessionIsConsistent
    SearchResultsAreCurrent
    ClientTreeIsSound
    GroupsAreSound
    LayoutsAreSound
PROPERTIES
    WorkspaceStepsAreSound
    WorkspaceSettles
CHECK_DEADLOCK FALSE
