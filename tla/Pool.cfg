SPECIFICATION FairSpec
CHECK_DEADLOCK FALSE
CONSTANTS
  Thread = {t1, t2, t3}
  PoolSize = 3
  MaxDead = 2
  NULL = NULL
INVARIANTS
  TypeOK
  LiveConnectionExclusive
  NoLiveConnectionLost
  SemaphoreCountsFreeSlots
PROPERTIES
  PoolRecovers
  LendsConnections
