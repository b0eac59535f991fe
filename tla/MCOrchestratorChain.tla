------------------------- MODULE MCOrchestratorChain -------------------------
(***************************************************************************)
(* OrchestratorChain with three shards and two transactions: one between   *)
(* s1 and s2, one between s2 and s3.  Each can be ordered in the same      *)
(* block as the other or in a different one.                               *)
(***************************************************************************)
EXTENDS OrchestratorChain

CONSTANTS s1, s2, s3, t1, t2

MCShards == {s1, s2, s3}
MCTxIDs == {t1, t2}
MCCrossShardTx ==
  {[id |-> t1, fromShard |-> s1, rwSet |-> {[shard |-> s2]}],
   [id |-> t2, fromShard |-> s2, rwSet |-> {[shard |-> s2], [shard |-> s3]}]}
=============================================================================
