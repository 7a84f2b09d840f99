SPECIFICATION FairSpec
CONSTANTS
  Sessions = {s1, s2}
  Kinds <- TurnsOnly
  MaxQueue = 1
  MaxWorkers = 2
  MaxEvents = 3
PROPERTIES ShutdownStopsAll
CHECK_DEADLOCK FALSE
