CONSTANTS
  s1 = s1
  t1 = t1
  c1 = c1
  c2 = c2
  Shards = {s1}
  TxIDs = {t1, c1, c2}
  Calls = {c1, c2}
  QueueSize = 1
  MaxRequests = 2
  CrossShardTx <- MCCrossShardTx
  VoteTimeout = 1
  MaxHeight = 4
SPECIFICATION Spec
INVARIANTS
  TypeOK
  StatusTruthful
  KnownToService
  RefusedNotOrdered
PROPERTY QueuedCallDecided
CHECK_DEADLOCK FALSE
