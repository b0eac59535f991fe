CONSTANTS
  s1 = s1
  s2 = s2
  t1 = t1
  Shards = {s1, s2}
  TxIDs = {t1}
  Addrs <- MCAddrs
  Slots <- MCSlots
  AddressToShard <- MCAddressToShard
  InitBalance <- MCInitBalance
  Requests <- MCRequests
  LocalTxs = {}
  CrossShardTx <- MCCrossShardTx
  CanFail = {}
  VoteTimeout = 0
  MaxHeight = 4
  MaxCrashes = 1
SPECIFICATION CrashSpec
INVARIANT ValueConserved
CHECK_DEADLOCK FALSE
