-------------------------- MODULE MCCrashRecovery --------------------------
(***************************************************************************)
(* A call of a contract of shard s2 with a value, from a sender of s1; one *)
(* of the shards crashes once.                                             *)
(***************************************************************************)
EXTENDS CrashRecovery

CONSTANTS s1, s2, t1

MCAddrs == {"a", "c"}
MCSlots == {"x"}
MCAddressToShard == [addr \in MCAddrs |-> IF addr = "a" THEN s1 ELSE s2]
MCInitBalance == [addr \in MCAddrs |-> IF addr = "a" THEN 1 ELSE 0]
MCKeys == {<<"c", "x">>}
Call == [from |-> "a", to |-> "c", value |-> 1, data |-> TRUE,
         reads |-> MCKeys, writes |-> MCKeys]
MCRequests == {Call}
MCCrossShardTx ==
  {Tx(id, Call, BuildRwSet(Call, reads), "success") : id \in TxIDs, reads \in [MCKeys -> 0..1]}
=============================================================================
