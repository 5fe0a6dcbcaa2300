SPECIFICATION Spec
CONSTANTS
  Thread = {t1, t2}
  Main = Main
  Tenant = {a}
  Default = Default
  Earlier = {a}
  None = None
  PoolSize = 1
  Multitenancy = TRUE
  MaxRequests = 2
  MaxFaults = 0
  MaxRestarts = 0
INVARIANT PostgresBeforeTenants
CHECK_DEADLOCK FALSE
