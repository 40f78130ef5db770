SPECIFICATION AdmissionFairSpec
CONSTANTS
  Launches = {l1, l2, l3}
  NoLaunch = NoLaunch
  MaxActive = 1
INVARIANTS
  Ceiling
PROPERTIES
  AskedIsAnswered
CHECK_DEADLOCK FALSE
