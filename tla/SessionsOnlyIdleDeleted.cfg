CONSTANTS
  x = x
  p1 = p1
  None = None
  Queries <- MCQueries
  ExplicitIds = {x}
  Prints = {p1}
  Denied = {"denied"}
  MaxMinted = 2
  MaxArrivals = 2
  MaxCrashes = 1
  MaxMarks = 1
  MaxPast = 2
  MaxLost = 1
SPECIFICATION Spec
PROPERTY OnlyIdleDeleted
CHECK_DEADLOCK FALSE
