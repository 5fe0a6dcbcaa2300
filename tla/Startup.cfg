SPECIFICATION StartupFairSpec
CHECK_DEADLOCK FALSE
CONSTANTS
  Thread = {main, refresher, rest1, rest2}
  Main = main
  Refresher = refresher
  NumTenants = 2
  MaxDead = 0
  NULL = NULL
  PoolSize = 6
INVARIANTS
  StartupCostBounded
PROPERTIES
  StartupCompletes
  ServingPoolRecovers
