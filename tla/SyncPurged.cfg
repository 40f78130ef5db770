SPECIFICATION Spec
CONSTANTS
  None = None
  Host = {1, 2}
  Key = {1}
  RowKind <- OneNote
  Limit = 1
  MaxAhead = 20
  Retention = 100
  LateRestore = TRUE
  Budgets <- EditedLate
INVARIANT
  NothingLost
CHECK_DEADLOCK FALSE
