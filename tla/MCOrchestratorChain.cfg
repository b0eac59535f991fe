SPECIFICATION ChainSpec
CONSTANTS
  s1 = s1
  s2 = s2
  s3 = s3
  t1 = t1
  t2 = t2
  Shards <- MCShards
  TxIDs <- MCTxIDs
  CrossShardTx <- MCCrossShardTx
  VoteTimeout = 2
  MaxHeight = 6
INVARIANTS
  ChainTypeOK
  BookkeepingInStep
  CommitUnanimous
  DecidedOnce
  AbortJustified
  NoOverdueTx
PROPERTIES
  EveryTxDecided
  KeepsPromise
