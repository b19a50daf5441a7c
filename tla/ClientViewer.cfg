SPECIFICATION MCSpec
CONSTANTS
    c1 = c1
    c0 = c0
    Leaflets = {d1, d2}
    Shelves = {root, f1}
    Origin = root
    Nil = none
    Windows = {12, 23, 48}
    Asks = {7, 12}
    MinWidth <- MCMinWidth
    MainWidth = 4
    SideWidth = 8
    MaxToasts = 2
    MaxNotices = 4
    MaxShellActs = 4
    Papers = {p1, p2}
    Drawers = {f}
    Blank = blank
    MaxCalls = 3
    MaxLoads = 2
    MaxPanelActs = 4
    Sheets = {a, b}
    Binders = {g}
    NoKey = nokey
    MaxRows = 3
    MaxPicks = 2
    MaxLists = 3
    Contents = {c1, c0}
    EmptyContents = {c0}
    Files <- MCFiles
    Bases = {root, f1}
    Here = root
    Path = path
    NoPath = nopath
    Absent = absent
    MaxBatches = 2
    MaxFiles = 2
    MaxClears = 1
INVARIANTS
    ViewerTypeOK
    ShellIsInStep
    PanelIsOfViewed
    UploadsAreAccounted
PROPERTIES
    ViewerStepsAreSound
    ViewerSettles
CHECK_DEADLOCK FALSE
