CONSTANTS
  MaxHeight = 3
  MaxBuffer = 2
  MaxRetries = 1
  MaxTimeouts = 0
  MaxCrashes = 1
SPECIFICATION Spec
INVARIANT BufferFollowsChain
CHECK_DEADLOCK FALSE
