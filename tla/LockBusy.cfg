SPECIFICATION FairSpec
CONSTANTS
  Sessions <- MCSessions
  Callers = {c1, c2}
  None = None
  c1 = c1
  c2 = c2
  MaxOps = 1
  MaxFaults = 0
  MaxCrashes = 0
  Spent <- NothingSpent
PROPERTIES
  BusyMeansHeld
CHECK_DEADLOCK FALSE
