CONSTANTS
  Jobs = {j1, j2, j3}
  Workers = {w1}
  Tenants = {t1}
  Documents = {d1}
  None = None
  JobTypes = {"analyze-document", "purge-document"}
  Handlers = {"analyze-document", "purge-document"}
  RetryDelays = {1}
  MaxClock = 1
  MaxFaults = 0
  AssetIds = {a1, a2, a3}
  Content <- AllPdfs
  Claims = {"pdf", "other"}
  MaxUndeletes = 1
  MaxEdits = 1
  MaxErrors = 0
SPECIFICATION StoreSpec
SYMMETRY Interchangeable
INVARIANTS
  DocumentStoreTypeOK
  PurgeRemovesEverything
CHECK_DEADLOCK FALSE
