SPECIFICATION Spec
CONSTANTS
  None = None
  Root = root
  Launcher = launcher
  Others = {}
  Budgets <- Scenarios
INVARIANTS
  EveryReachWakes
CHECK_DEADLOCK FALSE
