CONSTANTS
  s1 = s1
  s2 = s2
  t1 = t1
  t2 = t2
  Shards = {s1, s2}
  TxIDs = {t1, t2}
  Addrs <- MCAddrs
  Slots <- MCSlots
  AddressToShard <- MCAddressToShard
  InitBalance <- MCInitBalance
  Requests <- MCRequests
  LocalTxs = {}
  CrossShardTx <- MCCrossShardTx
  CanFail = {}
  VoteTimeout = 0
  MaxHeight = 4
SPECIFICATION Spec
INVARIANTS
  CommitFindsLocks
  FundsBacked
  NoStrayReservation
  ValueConserved
PROPERTY SerialExecution
ACTION_CONSTRAINTS
  NoEmptyBlock
  LargeLast
SYMMETRY MCSymmetry
CHECK_DEADLOCK FALSE
