SPECIFICATION FairSpec
CONSTANTS
  Producer = {p1}
  Worker = {w1, w2}
  QueueSize = 2
  MaxVectors = 3
  MaxLength = 2
  MaxExits = 1
INVARIANTS TypeOK NoLostWakeup EnoughWakeups StatisticsBalance AttemptedOnce
PROPERTIES AcceptedIsAttempted
