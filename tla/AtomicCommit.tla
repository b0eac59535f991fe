----------------------------- MODULE AtomicCommit -----------------------------
(***************************************************************************)
(* What the orchestrator promises about cross-shard transactions, without  *)
(* blocks, queues, heights or bookkeeping: a transaction is ordered once,  *)
(* then decided once, and the votes decide it.                             *)
(*                                                                         *)
(* OrchestratorChain implements this specification.                        *)
(***************************************************************************)
EXTENDS Protocol

CONSTANT CrossShardTx

VARIABLES
  ordered, \* the transactions ordered so far
  outcome, \* map txID -> "new", "open", "commit" or "abort"
  ballots  \* the votes that counted: records with an id, a shard and a vote

vars == <<ordered, outcome, ballots>>

Init ==
  /\ ordered = {}
  /\ outcome = [id \in TxIDs |-> "new"]
  /\ ballots = {}

\* New transactions are ordered, each under an ID of its own, and some of the
\* open ones are given up.
Order(txs, late) ==
  /\ \A tx \in txs : outcome[tx.id] = "new"
  /\ \A tx, ty \in txs : tx.id = ty.id => tx = ty
  /\ \A id \in late : outcome[id] = "open"
  /\ ordered' = ordered \cup txs
  /\ outcome' = [id \in TxIDs |-> IF \E tx \in txs : tx.id = id THEN "open"
                                  ELSE IF id \in late THEN "abort" ELSE outcome[id]]
  /\ UNCHANGED ballots

\* Every shard that the transaction involves has voted YES.
Agreed(tx) == \A s \in InvolvedShards(tx) : [id |-> tx.id, shard |-> s, vote |-> TRUE] \in ballots

\* The first vote of a shard on an open transaction counts: a NO aborts it, and
\* the YES that completes the agreement commits it.
Vote(tx, s, vote) ==
  /\ tx \in ordered
  /\ outcome[tx.id] = "open"
  /\ \A b \in ballots : b.id = tx.id => b.shard # s
  /\ ballots' = ballots \cup {[id |-> tx.id, shard |-> s, vote |-> vote]}
  /\ outcome' = [outcome EXCEPT ![tx.id] =
                   IF ~vote THEN "abort" ELSE IF Agreed(tx)' THEN "commit" ELSE "open"]
  /\ UNCHANGED ordered

Next ==
  \/ \E txs \in SUBSET CrossShardTx, late \in SUBSET TxIDs : Order(txs, late)
  \/ \E tx \in CrossShardTx, s \in Shards, vote \in BOOLEAN : Vote(tx, s, vote)

Spec == Init /\ [][Next]_vars
=============================================================================
