CONSTANTS
  c1 = c1
  c2 = c2
  c3 = c3
  t1 = t1
  Client <- MCClient
  Token <- MCToken
  NoSession = NoSession
  MaxAttempts = 3
SPECIFICATION Spec
PROPERTY LockedStaysShut
