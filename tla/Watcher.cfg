SPECIFICATION FairSpec
CONSTANTS
  Calls = {c1, c2}
  MaxRetries = 1
  MaxLive = 2
INVARIANTS UsableIsChecked LostHasTimer RecordedOnce
PROPERTY Resubscribes
CHECK_DEADLOCK FALSE
