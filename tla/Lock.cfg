SPECIFICATION FairSpec
CONSTANTS
  Sessions <- MCSessions
  Callers = {c1, c2}
  None = None
  c1 = c1
  c2 = c2
  MaxOps = 1
  MaxFaults = 1
  MaxCrashes = 1
  Spent <- EachAlone
INVARIANTS
  Handover
  BusyAppliesNothing
  ExitRemembered
PROPERTIES
  LockIsServed
  ExitReconciled
CHECK_DEADLOCK FALSE
