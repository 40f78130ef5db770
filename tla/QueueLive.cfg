SPECIFICATION FairSpec
CONSTANTS
  Sources = {a}
  AnswerSources = {}
  MaxTries = 1
  Passes = {p, q}
  MaxNotes = 1
  Budgets <- LiveScenarios
PROPERTIES
  QueueDrains
CHECK_DEADLOCK FALSE
