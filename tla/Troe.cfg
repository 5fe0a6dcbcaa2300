SPECIFICATION Spec
CONSTANTS
  Thread = {t1, t2}
  Main = Main
  Tenant = {a, b}
  Default = Default
  Earlier = {}
  None = None
  PoolSize = 1
  Multitenancy = FALSE
  MaxRequests = 3
  MaxFaults = 1
  MaxRestarts = 1
SYMMETRY Symmetry
INVARIANTS
  TypeOK
  ConnectionsAccountedFor
  TenantIsolation
  SomebodyProceeds
CHECK_DEADLOCK FALSE
