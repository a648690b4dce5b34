CONSTANTS
  MaxEntries = 3
  MaxLives = 2
  MaxCrashes = 2
  Count = 2
SPECIFICATION Spec
INVARIANTS TypeOK NoSilentLoss
PROPERTIES InOrder EveryEntryTaken Delivers
CHECK_DEADLOCK FALSE
