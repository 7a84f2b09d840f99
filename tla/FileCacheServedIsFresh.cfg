SPECIFICATION CacheSpec
CONSTANTS
  long = long
  short = short
  Paths = {long}
  EndsWith = {}
  Calls <- ReadsAndWrites
  MaxEntries = 1
  MaxAge = 1
  MaxCalls = 3
  MaxFaults = 0
INVARIANTS ServedIsFresh
CHECK_DEADLOCK FALSE
