SPECIFICATION Spec
CONSTANTS
  None = None
  DryRun = DryRun
  local = local
  box = box
  vm = vm
  a = a
  b = b
  a1 = a1
  a2 = a2
  b1 = b1
  Request = {a, b}
  Attempt = {a1, a2, b1}
  Of <- Sent
  Host = {local, box, vm}
  Local = local
  Vm = {vm}
  Order <- MCOrder
  Rooms <- MCRooms
  Needs <- MCNeeds
  Budgets <- Scenarios
INVARIANTS
  RunningIsBooked
PROPERTIES
  NoRoomTwice
  NoneOverlooked
SYMMETRY AttemptSymmetry
CHECK_DEADLOCK FALSE
