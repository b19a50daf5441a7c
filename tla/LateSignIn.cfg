SPECIFICATION SessionSpec
CONSTANTS
  Tenants = {t1, t2}
  NoTenant = NoTenant
  LinkTenants = {t1}
  MaxSessions = 3
  MaxInFlight = 2
  MaxActs = 2
INVARIANTS EveryFirstTryCarriesItsTenant
CHECK_DEADLOCK FALSE
