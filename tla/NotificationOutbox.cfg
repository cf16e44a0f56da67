SPECIFICATION Spec
CONSTANTS
  Notes <- MCNotes
  Runs = {w1, w2}
  MaxAttempts = 2
  BatchSize = 2
  MaxCrashes = 1
  MaxOutages = 1
CHECK_DEADLOCK FALSE
INVARIANTS
  TypeOK
  DuplicateNeedsLostOutcome
PROPERTIES
  LifecycleHolds
  EverySettles
