CONSTANTS
  Jobs = {j1, j2, j3}
  Workers = {w1, w2}
  Tenants = {t1}
  Documents = {d1}
  None = None
  JobTypes = {"analyze-document", "purge-document"}
  Handlers = {"analyze-document", "purge-document"}
  RetryDelays = {1}
  MaxClock = 0
  MaxFaults = 0
  AssetIds = {a1, a2, a3}
  Content <- AllImages
  Claims = {"image"}
  MaxUndeletes = 0
  MaxEdits = 0
  MaxErrors = 0
SPECIFICATION StoreSpec
INVARIANTS
  PurgeRemovesEverything
CHECK_DEADLOCK FALSE
