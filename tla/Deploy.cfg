SPECIFICATION FairSpec
CONSTANTS
  None = None
  web = web
  worker = worker
  c1 = c1
  c2 = c2
  c3 = c3
  side = side
  Unit = {web, worker}
  Backend = web
  Commit = {c1, c2, c3, side}
  Deploys = {1, 2, 3}
  Ancestors <- MCAncestors
  Before <- MCBefore
  Wants <- MCWants
  Budgets <- Scenarios
INVARIANTS
  Consistent
PROPERTIES
  KeepsContract
  DeployEnds
CHECK_DEADLOCK FALSE
