SPECIFICATION FairSpec
CONSTANTS
  Sub = {s1, s2}
  LdSub = {s2}
  InitialSubs = {s2}
  Request = {r1, r2}
  Operations = {"create", "update", "patchLD", "delete", "deleteLD"}
  Outcome = {}
  ThreadPool = TRUE
  ReqMutex = TRUE
  SubCacheInterval = 1
  Throttling <- NoThrottling
  StartTime = 3
  MaxTime = 3
  MaxSent = 0
  MaxVersion = 1
  MaxFaults = 1
  MaxCrashes = 0
  MaxPeer = 0
  NoOne = NoOne
PROPERTIES CacheCatchesUp RequestsEnd
