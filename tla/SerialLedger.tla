---------------------------- MODULE SerialLedger ----------------------------
(***************************************************************************)
(* What the cross-shard protocol promises to its clients, without shards,  *)
(* votes or locks: one ledger, on which each committed transaction runs    *)
(* once, at one instant, on the state left by those before it.             *)
(*                                                                         *)
(* TwoPhase implements this specification at the instant of the decision.  *)
(***************************************************************************)
EXTENDS Naturals

CONSTANTS TxIDs, Addrs, Slots, InitBalance,
  Requests \* what clients may ask for

VARIABLES
  balance, \* map address -> amount
  storage, \* map address -> (map slot -> value)
  executed \* the transactions that ran, as [id, from, to, value, writes]

vars == <<balance, storage, executed>>

Init ==
  /\ balance = InitBalance
  /\ storage = [a \in Addrs |-> [slot \in Slots |-> 0]]
  /\ executed = {}

\* The transaction moves its value, which the sender has, and increments the
\* slots it writes.
Execute(id, req) ==
  /\ \A tx \in executed : tx.id # id
  /\ executed' = executed \cup {[id |-> id, from |-> req.from, to |-> req.to,
                                value |-> req.value, writes |-> req.writes]}
  /\ balance[req.from] >= req.value
  /\ balance' = IF req.from = req.to THEN balance
                ELSE [balance EXCEPT ![req.from] = @ - req.value, ![req.to] = @ + req.value]
  /\ storage' = [a \in Addrs |-> [slot \in Slots |->
       IF <<a, slot>> \in req.writes THEN storage[a][slot] + 1 ELSE storage[a][slot]]]

Next == \E id \in TxIDs : \E req \in Requests : Execute(id, req)

Spec == Init /\ [][Next]_vars
=============================================================================
