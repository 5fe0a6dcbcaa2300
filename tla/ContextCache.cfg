SPECIFICATION FairSpec
CONSTANTS
  Thread = {t1, t2}
  Url = {u1, u2}
  LongUrl = {u2}
  OwnUrl = {o1}
  InitialSlots = 1
  SlotsToAdd = 3
  MaxContexts = 2
  MaxRequests = 3
  MaxRestarts = 1
  NULL = NULL
INVARIANTS
  TypeOK
  MarksMatchDownloads
  CacheAndDatabaseAgree
PROPERTIES
  RequestsEnd
CHECK_DEADLOCK FALSE
