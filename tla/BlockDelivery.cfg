CONSTANTS
  MaxHeight = 4
  MaxBuffer = 2
  MaxRetries = 1
  MaxTimeouts = 1
  MaxCrashes = 1
SPECIFICATION Spec
INVARIANTS
  TypeOK
  ReleasedInOrder
  NothingReadyIsHeld
  AppliedOnce
  InOrderWithoutTimeouts
PROPERTY EveryBlockApplied
CHECK_DEADLOCK FALSE
