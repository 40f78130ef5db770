SPECIFICATION AdmissionSpec
CONSTANTS
  Launches = {l1, l2, l3}
  NoLaunch = NoLaunch
  MaxActive = 1
INVARIANTS
  NoSlotLeaks
CHECK_DEADLOCK FALSE
