SPECIFICATION Spec
CONSTANTS
  r1 = r1
  r2 = r2
  u1 = u1
  u2 = u2
  n1 = n1
  n2 = n2
  None = None
  NoRow = NoRow
  Request <- MCRequest
  User <- MCUser
  Id <- MCId
  Process <- Processes
  Seeding = {"auth"}
  Pooled = {"audit"}
  Plans <- MCPlans
  Half = 4
  DefaultLimit = 3
PROPERTY TrashIsReached
CHECK_DEADLOCK FALSE
