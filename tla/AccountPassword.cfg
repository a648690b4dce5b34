CONSTANTS
  c1 = c1
  c2 = c2
  p1 = p1
  p2 = p2
  Client <- MCClient
  Password <- MCPassword
  TooLong <- MCTooLong
  NoRow = NoRow
  MaxAttempts = 3
  MaxCount = 4
SPECIFICATION Spec
INVARIANT PasswordUsable
