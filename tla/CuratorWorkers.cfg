SPECIFICATION FairSpec
CONSTANTS
  Sessions = {s1, s2}
  Kinds <- AllKinds
  MaxQueue = 2
  MaxWorkers = 2
  MaxEvents = 3
INVARIANTS NewestKept RegisteredNotCancelled
PROPERTIES PassIsForNewest EventServed QuietShutdownCompletes
CHECK_DEADLOCK FALSE
