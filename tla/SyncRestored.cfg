SPECIFICATION Spec
CONSTANTS
  None = None
  Host = {1, 2}
  Key = {1, 2, 3, 4, 5}
  RowKind <- Kinds
  Limit = 1
  MaxAhead = 20
  Retention = 100
  LateRestore = FALSE
  Budgets <- EarlyRestores
INVARIANTS
  Agree
CHECK_DEADLOCK FALSE
