CONSTANTS
  Jobs = {j1, j2}
  Workers = {w1, w2}
  Tenants = {t1}
  Documents = {d1}
  None = None
  JobTypes = {"analyze-document", "purge-document"}
  Handlers = {"analyze-document", "purge-document"}
  RetryDelays = {1}
  MaxClock = 1
  MaxFaults = 0
  AssetIds = {a1}
  Content <- AllImages
  Claims = {"image"}
  MaxUndeletes = 0
  MaxEdits = 0
  MaxErrors = 1
SPECIFICATION FairStoreSpec
INVARIANTS
  PurgedContentIsGone
PROPERTIES
  PurgeHappens
CHECK_DEADLOCK FALSE
