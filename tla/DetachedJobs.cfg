CONSTANTS
  Jobs = {j1, j2}
  Workers = {w1, w2}
  Tenants = {t1}
  Documents = {d1}
  None = None
  JobTypes = {"analyze-document", "purge-document"}
  Handlers = {"analyze-document", "purge-document"}
  RetryDelays = {1}
  MaxClock = 2
  MaxFaults = 1
SPECIFICATION QueueSpec
INVARIANTS
  DetachedJobsAreRemoved
CHECK_DEADLOCK FALSE
