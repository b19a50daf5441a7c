CONSTANTS
  Folders = {f1, f2}
  Names = {n1, n2}
  Documents = {d1}
  FileName <- OneFileName
  Sessions = {s1, s2}
  Root = Root
  None = None
  Gone = Gone
SPECIFICATION FolderSpec
INVARIANTS
  Forest
CHECK_DEADLOCK FALSE
