SPECIFICATION Spec
CONSTANTS
  None = None
  Host = {1, 2}
  Key = {1, 2}
  RowKind <- TwoNotes
  Limit = 1
  MaxAhead = 20
  Retention = 100
  LateRestore = TRUE
  Budgets <- BothRestored
INVARIANTS
  Agree
CHECK_DEADLOCK FALSE
