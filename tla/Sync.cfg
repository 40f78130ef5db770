SPECIFICATION FairSpec
CONSTANTS
  None = None
  Host = {1, 2}
  Key = {1, 2, 3, 4, 5}
  RowKind <- Kinds
  Limit = 1
  MaxAhead = 20
  Retention = 100
  LateRestore = TRUE
  Budgets <- Scenarios
INVARIANTS
  NothingLost
  Agree
PROPERTIES
  NeverBack
  Settles
CHECK_DEADLOCK FALSE
