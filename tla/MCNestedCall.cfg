CONSTANTS
  s1 = s1
  s2 = s2
  t1 = t1
  Shards = {s1, s2}
  TxIDs = {t1}
  Addrs <- MCAddrs
  Slots <- MCSlots
  AddressToShard <- MCAddressToShard
  InitBalance <- MCInitBalance
  Requests <- MCRequests
  LocalTxs <- MCLocalTxs
  CrossShardTx <- MCCrossShardTx
  CanFail = {t1}
  VoteTimeout = 1
  MaxHeight = 4
SPECIFICATION Spec
INVARIANT LocalRespectsLocks
CHECK_DEADLOCK FALSE
