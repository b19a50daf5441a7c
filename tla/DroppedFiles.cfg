SPECIFICATION UploadsSpec
CONSTANTS
    c1 = c1
    c0 = c0
    Contents = {c1, c0}
    EmptyContents = {c0}
    Files <- MCFiles
    Bases = {root, f1}
    Here = root
    Path = path
    NoPath = nopath
    Absent = absent
    MaxBatches = 2
    MaxFiles = 2
    MaxClears = 1
INVARIANTS DroppedFilesLand
CHECK_DEADLOCK FALSE
