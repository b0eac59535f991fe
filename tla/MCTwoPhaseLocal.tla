-------------------------- MODULE MCTwoPhaseLocal --------------------------
(***************************************************************************)
(* One cross-shard call, from a contract of shard s1 to one of shard s2,   *)
(* among local transactions that use the same contracts and accounts; one  *)
(* of them calls a contract of its shard that writes to another one.       *)
(***************************************************************************)
EXTENDS TwoPhase

CONSTANTS s1, s2, t1

MCAddrs == {"a", "c", "d", "e"}
MCSlots == {"x"}
MCAddressToShard == [addr \in MCAddrs |-> IF addr \in {"d", "e"} THEN s2 ELSE s1]
MCInitBalance == [addr \in MCAddrs |-> IF addr = "a" THEN 1 ELSE 0]
\* The slots that a request reads and increments, and the most they can hold.
MCKeys == {<<"c", "x">>, <<"d", "x">>}
MCMaxValue == 3
Call == [from |-> "a", to |-> "c", value |-> 1, data |-> TRUE,
         reads |-> MCKeys, writes |-> MCKeys]
MCRequests == {Call}
LocalCall(from, to, writes) ==
  [type |-> "", from |-> from, to |-> to, value |-> 0, writes |-> writes]
Transfer(from, to, value) ==
  [type |-> "", from |-> from, to |-> to, value |-> value, writes |-> {}]
MCLocalTxs == {LocalCall("d", "d", {<<"d", "x">>}), LocalCall("e", "e", {<<"d", "x">>})}
MCTransfers == {Transfer("a", "c", 1)}
MCCrossShardTx ==
  {Tx(id, Call, BuildRwSet(Call, reads), "success") :
     id \in TxIDs, reads \in [MCKeys -> 0..MCMaxValue]}
    \cup {Tx(id, Call, SubmittedRwSet({addr}), "failed") : id \in TxIDs, addr \in MCAddrs}
ASSUME SimulatedRwSets
=============================================================================
