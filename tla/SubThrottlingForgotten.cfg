SPECIFICATION Spec
CONSTANTS
  Sub = {s1}
  LdSub = {}
  InitialSubs = {s1}
  Request = {r1}
  Operations = {"notify"}
  Outcome = {}
  ThreadPool = TRUE
  ReqMutex = TRUE
  SubCacheInterval = 1
  Throttling = 2
  StartTime = 3
  MaxTime = 6
  MaxSent = 2
  MaxVersion = 0
  MaxFaults = 0
  MaxCrashes = 0
  MaxPeer = 0
  NoOne = NoOne
PROPERTY ThrottlingRespected
