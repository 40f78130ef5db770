SPECIFICATION Spec
CONSTANTS
  None = None
  Id = {w1}
  Ref = {r1}
  Key = {k1}
  EndCall = {e1, e2}
  MaxArmed = 2
  Budgets <- KeptScenarios
INVARIANTS
  KeptOutlives
CHECK_DEADLOCK FALSE
