SPECIFICATION FairSpec
CONSTANTS
  None = None
  Root = root
  Launcher = launcher
  Others = {}
  Budgets <- Scenarios
INVARIANTS
  TurnsOnce
  ReachedWorkWakes
  EndIsHeard
PROPERTIES
  IdleIsReported
CHECK_DEADLOCK FALSE
