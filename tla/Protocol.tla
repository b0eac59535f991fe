------------------------------ MODULE Protocol ------------------------------
(***************************************************************************)
(* The vocabulary shared by the orchestrator and the state shards:         *)
(* cross-shard transactions, the shards they involve, and the execution    *)
(* priority of the transaction types that a state shard queues             *)
(* (internal/protocol/types.go).                                           *)
(*                                                                         *)
(* A CrossShardTx is a record with at least the fields                     *)
(*   id         its transaction ID                                         *)
(*   fromShard  the shard of the sender                                    *)
(*   rwSet      a set of RwVariables, records with at least a field shard  *)
(* A Go map is a function whose domain is the set of keys present.         *)
(***************************************************************************)
EXTENDS Naturals, Folds

CONSTANTS
  Shards, \* shard IDs
  TxIDs   \* transaction IDs

\* TargetShards: the shards that some RwVariable refers to.
TargetShards(tx) == {rw.shard : rw \in tx.rwSet}

\* InvolvedShards: the sender's shard and every target shard.
InvolvedShards(tx) == {tx.fromShard} \cup TargetShards(tx)

\* The transaction types that a state shard queues; TxTypeLocal is "".
TxType == {"", "cross_debit", "cross_credit", "cross_writeset", "cross_abort",
           "lock", "unlock", "finalize", "sim_error"}

\* Priority: lower numbers run first in a block.  An abort has the priority
\* of a local transaction.
Priority(type) ==
  CASE type \in {"cross_debit", "cross_credit", "cross_writeset", "finalize"} -> 1
    [] type = "unlock"    -> 2
    [] type = "lock"      -> 3
    [] type = "sim_error" -> 5
    [] OTHER              -> 4

\* m[k] = v and delete(m, k) on a Go map.
Put(m, k, v) == [x \in DOMAIN m \cup {k} |-> IF x = k THEN v ELSE m[x]]
Del(m, k) == [x \in DOMAIN m \ {k} |-> m[x]]
EmptyMap == [x \in {} |-> {}]

\* A loop that adds up the amounts of a map.
SumOf(f) ==
  MapThenFoldSet(LAMBDA x, y : x + y, 0, LAMBDA x : f[x], LAMBDA T : CHOOSE t \in T : TRUE, DOMAIN f)
=============================================================================
