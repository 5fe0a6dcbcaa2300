SPECIFICATION Spec
CONSTANTS
  Sub = {s1, s2}
  LdSub = {s2}
  InitialSubs = {s2}
  Request = {r1, r2}
  Operations = {"create", "delete", "get", "notify"}
  Outcome = {}
  ThreadPool = TRUE
  ReqMutex = FALSE
  SubCacheInterval = 1
  Throttling <- NoThrottling
  StartTime = 3
  MaxTime = 3
  MaxSent = 2
  MaxVersion = 0
  MaxFaults = 2
  MaxCrashes = 1
  MaxPeer = 0
  NoOne = NoOne
SYMMETRY RequestSymmetry
INVARIANTS CountNeverInflated DeletedLeavesCache
