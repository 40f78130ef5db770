SPECIFICATION FairSpec
CONSTANTS
  None = None
  Id = {w1, w2, w3}
  Ref = {r1, r2}
  Key = {k1}
  EndCall = {e1, e2}
  MaxArmed = 2
  Budgets <- Scenarios
INVARIANTS
  KeysAndLimit
  ToldOnce
PROPERTIES
  ReadyIsSettled
CHECK_DEADLOCK FALSE
