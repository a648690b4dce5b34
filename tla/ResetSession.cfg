CONSTANTS
  c1 = c1
  c2 = c2
  Client <- MCClient
  NoChallenge = NoChallenge
  NoSession = NoSession
  MaxAttempts = 2
SPECIFICATION Spec
INVARIANTS TypeOK ResetNeedsCode GuessesWithoutOverlap ResetsBounded GoneStaysGone OldTokensDoomed
