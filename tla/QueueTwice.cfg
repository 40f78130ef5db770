SPECIFICATION Spec
CONSTANTS
  Sources = {a}
  AnswerSources = {}
  MaxTries = 1
  Passes = {p, q}
  MaxNotes = 1
  Budgets <- TwiceScenarios
INVARIANTS
  OneRelaunch
CHECK_DEADLOCK FALSE
