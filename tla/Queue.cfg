SPECIFICATION Spec
CONSTANTS
  Sources = {b}
  AnswerSources = {b}
  MaxTries = 1
  Passes = {p, q}
  MaxNotes = 2
  Budgets <- Scenarios
INVARIANTS
  OncePerNote
  NothingLost
  SettledStaysOut
PROPERTIES
  WakeStaysWake
  MayGo
SYMMETRY PassSymmetry
CHECK_DEADLOCK FALSE
