CONSTANTS
  MaxAdded = 4
  MaxLives = 2
  MaxCrashes = 1
  BatchSize = 2
SPECIFICATION Spec
INVARIANTS TypeOK NoSilentLoss
PROPERTIES InOrder EveryEntryTaken Delivers
CHECK_DEADLOCK FALSE
