CONSTANTS
  MaxHeight = 3
  MaxBuffer = 2
  MaxRetries = 1
  MaxTimeouts = 1
  MaxCrashes = 0
SPECIFICATION Spec
INVARIANT AppliedInOrder
CHECK_DEADLOCK FALSE
