SPECIFICATION Spec
CONSTANTS
  None = None
  Root = root
  Launcher = launcher
  Others = {}
  Budgets <- Scenarios
INVARIANTS
  NeverHidden
CHECK_DEADLOCK FALSE
