SPECIFICATION Spec
CONSTANTS
  Sub = {s1}
  LdSub = {}
  InitialSubs = {}
  Request = {r1, r2}
  Operations = {"create", "delete", "get", "notify"}
  Outcome = {"success"}
  ThreadPool = TRUE
  ReqMutex = TRUE
  SubCacheInterval = 1
  Throttling <- NoThrottling
  StartTime = 3
  MaxTime = 4
  MaxSent = 2
  MaxVersion = 0
  MaxFaults = 0
  MaxCrashes = 0
  MaxPeer = 1
  NoOne = NoOne
SYMMETRY RequestSymmetry
INVARIANTS TypeOK CountExact TimesSentNeverInflated
PROPERTIES StoredTimesMonotonic
