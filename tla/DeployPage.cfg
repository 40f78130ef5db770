SPECIFICATION Spec
CONSTANTS
  None = None
  web = web
  worker = worker
  c1 = c1
  c2 = c2
  c3 = c3
  side = side
  Unit = {web, worker}
  Backend = web
  Commit = {c1, c2, c3, side}
  Deploys = {1, 2, 3}
  Ancestors <- MCAncestors
  Before <- MCBefore
  Wants <- PageWants
  Budgets <- PageScenarios
PROPERTIES
  PageNeverOlder
CHECK_DEADLOCK FALSE
