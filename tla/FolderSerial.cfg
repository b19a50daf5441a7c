CONSTANTS
  Folders = {f1, f2, f3}
  Names = {n1, n2}
  Documents = {d1, d2}
  FileName <- OneFileName
  Sessions = {s1}
  Root = Root
  None = None
  Gone = Gone
SPECIFICATION FairFolderSpec
INVARIANTS
  FolderTypeOK
  Forest
  ReferencesResolve
PROPERTIES
  EmptyBeforeDeletion
  RequestsEnd
CHECK_DEADLOCK FALSE
