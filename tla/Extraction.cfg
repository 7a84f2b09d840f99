SPECIFICATION BothSpec
CONSTANTS
  s1 = s1
  s2 = s2
  Sessions = {s1, s2}
  Contents = {c1, c2}
  Traffic <- MixedTraffic
  Near <- AllNear
  BoundaryMode = TRUE
  WorkerEnabled = TRUE
  MaxLocks = 1
  PoolLimit = 1
  MaxTasks = 3
  long = long
  short = short
  Paths = {long, short}
  EndsWith <- LongEndsWithShort
  Calls <- MixedCalls
  MaxEntries = 1
  MaxAge = 1
  MaxCalls = 4
  MaxFaults = 1
SYMMETRY ContentSymmetry
INVARIANTS LockHonoured NoDuplicateActive FreshWhenSettled
PROPERTIES ExtractionsInOrder
CHECK_DEADLOCK FALSE
