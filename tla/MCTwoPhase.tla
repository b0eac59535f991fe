---------------------------- MODULE MCTwoPhase ----------------------------
(***************************************************************************)
(* Calls of a contract of shard s2 from one sender of shard s1, made by    *)
(* two clients.  A small request moves one coin and increments two slots,  *)
(* one on each shard; a large one moves both coins that the sender has and *)
(* uses no slot.  Two small ones fit in the balance and compete for the    *)
(* slots; a large one does not fit with another and competes for the       *)
(* funds.                                                                  *)
(***************************************************************************)
EXTENDS TwoPhase, TLC

CONSTANTS s1, s2, t1, t2

MCAddrs == {"a", "b", "c"}
MCSlots == {"x"}
MCAddressToShard == [addr \in MCAddrs |-> IF addr = "c" THEN s2 ELSE s1]
MCInitBalance == [addr \in MCAddrs |-> IF addr = "a" THEN 2 ELSE 0]
\* The most a slot can hold.
MCMaxValue == 2
Call(value, keys) ==
  [from |-> "a", to |-> "c", value |-> value, data |-> TRUE, reads |-> keys, writes |-> keys]
MCRequests == {Call(1, {<<"b", "x">>, <<"c", "x">>}), Call(2, {})}
MCCrossShardTx ==
  UNION {{Tx(id, req, BuildRwSet(req, reads), "success") :
            id \in TxIDs, reads \in [req.reads -> 0..MCMaxValue]} : req \in MCRequests}
    \cup {Tx(id, req, SubmittedRwSet({addr}), "failed") :
            id \in TxIDs, req \in MCRequests, addr \in MCAddrs}
ASSUME SimulatedRwSets
\* A block without results and new transactions changes nothing but the height
\* (with VoteTimeout = 0, nothing waits for a vote when one is produced): leaving
\* such blocks out keeps MaxHeight for the others.
NoEmptyBlock ==
  height' > height =>
    DOMAIN blocks'[height'].tpcResult # {} \/ blocks'[height'].ctToOrder # <<>>
\* A client makes the large request last.
LargeLast ==
  \A id \in DOMAIN simulations' \ DOMAIN simulations :
    simulations'[id].request.value = 2 => \E other \in TxIDs : Submitted(other)
MCSymmetry == Permutations(TxIDs)
=============================================================================
