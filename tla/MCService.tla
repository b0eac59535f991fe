------------------------------ MODULE MCService ------------------------------
(***************************************************************************)
(* Two requests out of three: a transaction that is submitted as it is and *)
(* two calls, which compete for a queue of one.  The chain has one shard:  *)
(* how it counts votes is checked with MCOrchestratorChain.                *)
(***************************************************************************)
EXTENDS Service

CONSTANTS s1, t1, c1, c2

MCCrossShardTx == {[id |-> id, fromShard |-> s1, rwSet |-> {}] : id \in {t1, c1, c2}}
=============================================================================
