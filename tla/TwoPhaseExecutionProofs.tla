---------------------- MODULE TwoPhaseExecutionProofs -----------------------
(***************************************************************************)
(* Proofs about the cross-shard protocol, second part: the block producer of *)
(* a shard keeps its invariant when it executes an entry and when it ends a *)
(* block, and what an entry does to the accounts.  A step of one shard leaves *)
(* the others alone (ShardActsOn).                                         *)
(***************************************************************************)
EXTENDS TwoPhaseHandlerProofs
-----------------------------------------------------------------------------
(* The block producer executes the queue.                                  *)

LEMMA EntryShape ==
  ASSUME NEW s, NEW e \in Entry(s)
  PROVE  /\ e.type \in TxType
         /\ e.type = "" => e \in LocalTxs /\ AddressToShard[e.to] = s
         /\ e.type # "" => e.id \in TxIDs
         /\ e.type = "cross_debit" => e.from \in Addrs /\ e.value \in Nat
         /\ e.type = "cross_credit" => e.to \in Addrs /\ e.value \in Nat
         /\ Writes(e) => \E tx \in CrossShardTx : e.rwSet = LocalRwSet(s, tx.rwSet)
         /\ e.type = "lock" => \E tx \in CrossShardTx : e = LockTx(s, tx)
<1>. DEFINE R == {LocalRwSet(s, tx.rwSet) : tx \in CrossShardTx}
<1>0. /\ "" \in TxType /\ "lock" \in TxType /\ "cross_debit" \in TxType /\ "cross_credit" \in TxType
      /\ "cross_writeset" \in TxType /\ "finalize" \in TxType
      /\ "unlock" \in TxType /\ "cross_abort" \in TxType
  BY DEF TxType
<1>1. CASE e \in LocalTxs /\ AddressToShard[e.to] = s
  BY <1>0, <1>1, TwoPhaseAssumption, ZenonT(60) DEF Writes
<1>2. CASE \E tx \in CrossShardTx : e = LockTx(s, tx)
  <2>1. PICK tx \in CrossShardTx : e = LockTx(s, tx)
    BY <1>2
  <2>2. e.type = "lock" /\ e.id = tx.id
    BY <2>1 DEF LockTx
  <2>3. e.id \in TxIDs
    BY <2>2, ChainAssumption
  <2>. QED  BY <1>0, <2>1, <2>2, <2>3, ZenonT(60) DEF Writes
<1>3. CASE e \in [type : {"cross_debit"}, id : TxIDs, from : Addrs, value : Nat]
  <2>1. e.type = "cross_debit" /\ e.id \in TxIDs /\ e.from \in Addrs /\ e.value \in Nat
    BY <1>3
  <2>. QED  BY <1>0, <2>1, ZenonT(60) DEF Writes
<1>4. CASE e \in [type : {"cross_credit"}, id : TxIDs, to : Addrs, value : Nat]
  <2>1. e.type = "cross_credit" /\ e.id \in TxIDs /\ e.to \in Addrs /\ e.value \in Nat
    BY <1>4
  <2>. QED  BY <1>0, <2>1, ZenonT(60) DEF Writes
<1>5. CASE e \in [type : {"cross_writeset", "finalize"}, id : TxIDs, rwSet : R]
  <2>0. \A r \in R : \E tx \in CrossShardTx : r = LocalRwSet(s, tx.rwSet)
    OBVIOUS
  <2>. HIDE DEF R
  <2>1. e.type \in {"cross_writeset", "finalize"} /\ e.id \in TxIDs /\ e.rwSet \in R
    BY <1>5, SMTT(60)
  <2>. QED  BY <1>0, <2>0, <2>1, ZenonT(60)
<1>6. CASE e \in [type : {"unlock", "cross_abort"}, id : TxIDs]
  <2>1. e.type \in {"unlock", "cross_abort"} /\ e.id \in TxIDs
    BY <1>6
  <2>. QED  BY <1>0, <2>1, ZenonT(60) DEF Writes
<1>7. \/ e \in LocalTxs /\ AddressToShard[e.to] = s
      \/ \E tx \in CrossShardTx : e = LockTx(s, tx)
      \/ e \in [type : {"cross_debit"}, id : TxIDs, from : Addrs, value : Nat]
      \/ e \in [type : {"cross_credit"}, id : TxIDs, to : Addrs, value : Nat]
      \/ e \in [type : {"cross_writeset", "finalize"}, id : TxIDs, rwSet : R]
      \/ e \in [type : {"unlock", "cross_abort"}, id : TxIDs]
  BY ZenonT(60) DEF Entry
<1>. HIDE DEF R
<1>. QED  BY <1>1, <1>2, <1>3, <1>4, <1>5, <1>6, <1>7, ZenonT(60)

\* The loop of ProduceBlock takes the first entry; nothing that should have come
\* before it is left.
TakesFirst(s, tx) ==
  /\ tx \in Entry(s) /\ EntryOK(s, tx)
  /\ Queues(s)'
  /\ \A f : Waiting(s, f)' => Waiting(s, f) /\ ~Bad(tx, f)
  /\ SameProgress(s)
  /\ processedCommits'[s] = processedCommits[s]

LEMMA ExecutesFirst ==
  ASSUME NEW s \in Shards, Domains, ShardInv(s), NEW type, Executes(s, type),
         NEW tx, tx = Head(sortedTxs[s])
  PROVE  TakesFirst(s, tx) /\ tx.type = type
<1>1. /\ executing[s] /\ sortedTxs[s] # <<>> /\ tx.type = type
      /\ sortedTxs'[s] = Tail(sortedTxs[s])
      /\ currentTxs' = currentTxs /\ executing' = executing /\ adding' = adding
      /\ processedCommits' = processedCommits /\ ordersDone' = ordersDone
      /\ lastOrchestratorHeight' = lastOrchestratorHeight
  BY Zenon DEF Executes, handlerVars, Domains
<1>. DEFINE S == Entry(s)
            q == sortedTxs[s]
<1>2. /\ q \in Seq(S) /\ InOrder(q)
      /\ currentTxs[s] \in Seq(S) /\ InOrder(currentTxs[s])
      /\ adding[s] \in Seq(S) /\ InOrder(adding[s])
      /\ Before(q, currentTxs[s]) /\ Before(q, adding[s]) /\ Before(currentTxs[s], adding[s])
  BY Zenon DEF ShardInv, Queues
<1>. HIDE DEF S
<1>3. /\ In(tx, q) /\ tx \in S /\ Tail(q) \in Seq(S) /\ InOrder(Tail(q))
      /\ \A f : In(f, Tail(q)) => In(f, q) /\ ~Bad(tx, f)
  BY <1>1, <1>2, InTail, SMTT(60)
<1>4. Before(Tail(q), currentTxs[s]) /\ Before(Tail(q), adding[s])
  BY <1>2, <1>3, BeforeElements, ZenonT(60)
<1>5. Queues(s)'
  BY <1>1, <1>2, <1>3, <1>4, ZenonT(60) DEF Queues, S
<1>6. \A f : Waiting(s, f)' => Waiting(s, f) /\ ~Bad(tx, f)
  <2>1. \A f : In(f, currentTxs[s]) \/ In(f, adding[s]) => ~Bad(tx, f)
    BY <1>2, <1>3, BeforeElements, SMTT(60)
  <2>. QED  BY <1>1, <1>3, <2>1, ZenonT(60) DEF Waiting
<1>7. EntryOK(s, tx)
  BY <1>3, SMTT(60) DEF ShardInv, Entries, Waiting
<1>. QED  BY <1>1, <1>3, <1>5, <1>6, <1>7, ZenonT(60) DEF TakesFirst, SameProgress, S

\* The step drops some of what the shard held for one transaction, the slots only
\* together with the RwSet.
Drops(s, id) ==
  /\ locked'[s] = locked[s] \/ locked'[s] = Del(locked[s], id)
  /\ pendingCalls'[s] = pendingCalls[s] \/ pendingCalls'[s] = Del(pendingCalls[s], id)
  /\ DOMAIN pendingCredits'[s] \subseteq DOMAIN pendingCredits[s]
  /\ \A x \in DOMAIN pendingCredits'[s] :
       x # id => pendingCredits'[s][x] = pendingCredits[s][x]
  /\ id \in processedCommits[s] \/ id \notin DOMAIN pendingCredits'[s]
  /\ \/ slotLocks'[s] = slotLocks[s] /\ pendingRwSets'[s] = pendingRwSets[s]
     \/ /\ slotLocks'[s] = UnlockAllSlotsForTx(slotLocks[s], id)
        /\ pendingRwSets'[s] = Del(pendingRwSets[s], id)

LEMMA DropsInv ==
  ASSUME NEW s, ShardInv(s), NEW id, Drops(s, id), blocks' = blocks,
         processedCommits'[s] = processedCommits[s],
         \A x : Handled(s, x) => Handled(s, x)',
         DOMAIN prepares'[s] \subseteq TxIDs, prepares'[s] \in [DOMAIN prepares'[s] -> BOOLEAN]
  PROVE  /\ Data(s)' /\ Calls(s)' /\ Locks(s)'
         /\ \A x : x # id => SameRwSet(s, x) /\ SameFunds(s, x)
<1>. USE DEF Drops
<1>1. /\ DOMAIN locked'[s] \subseteq TxIDs
      /\ locked'[s] \in [DOMAIN locked'[s] -> [addr : Addrs, amount : Nat]]
  <2>. DEFINE F == [addr : Addrs, amount : Nat]
  <2>1. DOMAIN locked[s] \subseteq TxIDs /\ locked[s] \in [DOMAIN locked[s] -> F]
    BY SMTT(60) DEF ShardInv, Data
  <2>. HIDE DEF F
  <2>2. DOMAIN locked'[s] \subseteq TxIDs /\ locked'[s] \in [DOMAIN locked'[s] -> F]
    BY <2>1, SMTT(60) DEF Del
  <2>. QED  BY <2>2, SMTT(60) DEF F
<1>2. DOMAIN pendingCalls'[s] \subseteq TxIDs
  BY DEF ShardInv, Data, Del
<1>3. \A x \in DOMAIN pendingCredits'[s] :
        x \notin processedCommits'[s] =>
          pendingCredits'[s][x] \in Seq([addr : Addrs, amount : Nat])
  BY ZenonT(60) DEF ShardInv, Data
<1>4. DOMAIN pendingCredits'[s] \subseteq TxIDs
  BY SMTT(60) DEF ShardInv, Data
<1>5. slotLocks'[s] \in [DOMAIN slotLocks'[s] -> TxIDs]
  BY SMTT(60) DEF ShardInv, Data, UnlockAllSlotsForTx
<1>6. DOMAIN pendingRwSets'[s] \subseteq TxIDs
  BY DEF ShardInv, Data, Del
<1>7. Data(s)'
  BY <1>1, <1>2, <1>3, <1>4, <1>5, <1>6, ZenonT(60) DEF ShardInv, Data
<1>8. Calls(s)'
  <2>1. \A x \in DOMAIN pendingCalls'[s] :
          x \in DOMAIN pendingCalls[s] /\ pendingCalls'[s][x] = pendingCalls[s][x]
    BY SMTT(60) DEF Del
  <2>2. ASSUME NEW x \in DOMAIN pendingCalls'[s]
        PROVE  \E tx \in CrossShardTx : /\ pendingCalls'[s][x] = tx /\ tx.id = x
                                        /\ OrderedFor(s, tx)'
    BY <2>1, <2>2, SameOrders, SMTT(60) DEF ShardInv, Calls
  <2>. QED  BY <2>2, SMTT(60) DEF Calls
<1>9. Locks(s)'
  <2>1. \A x \in DOMAIN pendingRwSets'[s] :
          x \in DOMAIN pendingRwSets[s] /\ pendingRwSets'[s][x] = pendingRwSets[s][x]
    BY ZenonT(60) DEF Del
  <2>2. \A k \in DOMAIN slotLocks[s] :
          slotLocks[s][k] \in DOMAIN pendingRwSets'[s] =>
            k \in DOMAIN slotLocks'[s] /\ slotLocks'[s][k] = slotLocks[s][k]
    BY SMTT(60) DEF Del, UnlockAllSlotsForTx
  <2>. QED  BY <2>1, <2>2, LocksKept, ZenonT(60) DEF ShardInv
<1>10. \A x : x # id => SameRwSet(s, x) /\ SameFunds(s, x)
  BY ZenonT(60) DEF SameRwSet, SameFunds, Del
<1>. QED  BY <1>7, <1>8, <1>9, <1>10, SMTT(60)

\* The effects of a result: each drops only what belongs to its transaction, and
\* the RwSet goes last.
LEMMA EffectInv ==
  ASSUME NEW s, ShardInv(s), NEW tx, TakesFirst(s, tx), tx.type \notin {"", "lock"},
         Drops(s, tx.id), blocks' = blocks, ballots' = ballots, voteNet' = voteNet,
         prepares'[s] = prepares[s],
         \/ pendingRwSets'[s] = pendingRwSets[s]
         \/ tx.type \in {"unlock", "cross_abort", "finalize"}
  PROVE  ShardInv(s)'
<1>1. /\ tx.id \in processedCommits[s] /\ processedCommits'[s] = processedCommits[s]
      /\ SameProgress(s) /\ Queues(s)'
      /\ \A f : Waiting(s, f)' => Waiting(s, f) /\ ~Bad(tx, f)
  BY Zenon DEF TakesFirst, EntryOK
<1>2. Keeps(s) /\ Progress(s)'
  BY <1>1, KeepsAll, ZenonT(60) DEF ShardInv
<1>3. DOMAIN prepares'[s] \subseteq TxIDs /\ prepares'[s] \in [DOMAIN prepares'[s] -> BOOLEAN]
  BY Zenon DEF ShardInv, Data
<1>4. /\ Data(s)' /\ Calls(s)' /\ Locks(s)'
      /\ \A x : x # tx.id => SameRwSet(s, x) /\ SameFunds(s, x)
  BY <1>1, <1>2, <1>3, DropsInv, ZenonT(60) DEF Keeps
<1>5. ASSUME NEW e, Waiting(s, e)', Writes(e) PROVE SameRwSet(s, e.id)
  <2>1. CASE e.id # tx.id
    BY <1>4, <2>1, ZenonT(60)
  <2>2. CASE e.id = tx.id
    <3>1. ~Bad(tx, e) /\ e.type # ""
      BY <1>1, <1>5, ZenonT(60) DEF Writes
    <3>2. tx.type \notin {"unlock", "cross_abort", "finalize"}
      BY <1>5, <2>2, <3>1, ZenonT(60) DEF Bad
    <3>. QED  BY <3>2, ZenonT(60) DEF SameRwSet
  <2>. QED  BY <2>1, <2>2, ZenonT(60)
<1>. QED  BY <1>1, <1>2, <1>4, <1>5, ShardStep, ZenonT(60)

LEMMA ClearDrops ==
  ASSUME NEW s \in Shards, Domains, NEW id, ClearAllMetadata(s, id)
  PROVE  Drops(s, id)
<1>1. /\ locked'[s] = Del(locked[s], id)
      /\ pendingCredits'[s] = Del(pendingCredits[s], id)
      /\ pendingCalls'[s] = Del(pendingCalls[s], id)
      /\ slotLocks'[s] = UnlockAllSlotsForTx(slotLocks[s], id)
      /\ pendingRwSets'[s] = Del(pendingRwSets[s], id)
  BY Zenon DEF ClearAllMetadata, Domains
<1>2. /\ DOMAIN pendingCredits'[s] \subseteq DOMAIN pendingCredits[s]
      /\ \A x \in DOMAIN pendingCredits'[s] :
           x # id => pendingCredits'[s][x] = pendingCredits[s][x]
      /\ id \notin DOMAIN pendingCredits'[s]
  BY <1>1, SMTT(60) DEF Del
<1>. QED  BY <1>1, <1>2, SMTT(60) DEF Drops

MapOf(m, S, R) == DOMAIN m \subseteq S /\ m \in [DOMAIN m -> R]

LEMMA PutMap ==
  ASSUME NEW S, NEW R, NEW m, MapOf(m, S, R), NEW k \in S, NEW v \in R
  PROVE  MapOf(Put(m, k, v), S, R)
  BY DEF MapOf, Put

LEMMA NewVote ==
  ASSUME NEW s, Data(s), NEW id \in TxIDs, NEW vote \in BOOLEAN,
         prepares'[s] = Put(prepares[s], id, vote)
  PROVE  DOMAIN prepares'[s] \subseteq TxIDs /\ prepares'[s] \in [DOMAIN prepares'[s] -> BOOLEAN]
<1>1. MapOf(prepares[s], TxIDs, BOOLEAN)
  BY DEF Data, MapOf
<1>2. MapOf(Put(prepares[s], id, vote), TxIDs, BOOLEAN)
  BY <1>1, PutMap, ZenonT(60)
<1>. QED  BY <1>2, ZenonT(60) DEF MapOf

\* A Lock that succeeds: its vote is a promise that the shard keeps.
LEMMA LockSucceedsInv ==
  ASSUME NEW s \in Shards, Domains, OrdersSound, ShardInv(s), NEW tx, TakesFirst(s, tx),
         tx.type = "lock", LockSucceeds(s, tx),
         blocks' = blocks, ballots' = ballots, voteNet' = voteNet
  PROVE  ShardInv(s)'
<1>. DEFINE id == tx.id
<1>1. /\ tx \in Entry(s) /\ EntryOK(s, tx) /\ Queues(s)' /\ SameProgress(s)
      /\ processedCommits'[s] = processedCommits[s]
      /\ \A f : Waiting(s, f)' => Waiting(s, f) /\ ~Bad(tx, f)
  BY Zenon DEF TakesFirst
<1>2. PICK t \in CrossShardTx : tx = LockTx(s, t) /\ OrderedFor(s, t)
  BY <1>1, SMTT(60) DEF EntryOK
<1>3. /\ id = t.id /\ tx.rwSet = LocalRwSet(s, t.rwSet) /\ tx.from = t.from
      /\ tx.value = IF t.fromShard = s THEN t.value ELSE 0
      /\ id \in TxIDs /\ t.from \in Addrs /\ t.value \in Nat
  <2>1. /\ id = t.id /\ tx.rwSet = LocalRwSet(s, t.rwSet) /\ tx.from = t.from
        /\ tx.value = IF t.fromShard = s THEN t.value ELSE 0
    BY <1>2, SMTT(60) DEF LockTx
  <2>2. t.id \in TxIDs
    BY ChainAssumption, SMTT(60)
  <2>3. t.from \in Addrs /\ t.value \in Nat
    BY TwoPhaseAssumption, ZenonT(60)
  <2>. QED  BY <2>1, <2>2, <2>3, ZenonT(60)
<1>4. Handled(s, id) /\ ~VotedYes(s, id)
  BY <1>1, ZenonT(60) DEF EntryOK
<1>5. /\ locked'[s] = IF tx.value > 0 THEN Put(locked[s], id, [addr |-> t.from, amount |-> tx.value])
                      ELSE locked[s]
      /\ slotLocks'[s] = [k \in DOMAIN slotLocks[s] \cup ReadSlots(tx.rwSet) |->
                            IF k \in ReadSlots(tx.rwSet) THEN id ELSE slotLocks[s][k]]
      /\ pendingRwSets'[s] = Put(pendingRwSets[s], id, tx.rwSet)
      /\ prepares'[s] = Put(prepares[s], id, TRUE)
      /\ pendingCredits' = pendingCredits /\ pendingCalls' = pendingCalls
  BY <1>3, SMTT(60) DEF LockSucceeds, Domains
<1>6. \A k \in ReadSlots(tx.rwSet) : k \in DOMAIN slotLocks[s] => slotLocks[s][k] = id
  BY Zenon DEF LockSucceeds, CanLock, CanLockReadSet
<1>. HIDE DEF id
<1>7. \A x : Handled(s, x) => Handled(s, x)'
  BY <1>1, SameHandled, ZenonT(60) DEF SameProgress
<1>8. \A x : VotedYes(s, x)' => VotedYes(s, x) \/ x = id
  BY <1>5, ZenonT(60) DEF VotedYes, Put
<1>9. Progress(s)'
  BY <1>1, SameOrders, ZenonT(60) DEF ShardInv, Progress, SameProgress
<1>10. \A x : x # id => SameRwSet(s, x) /\ SameFunds(s, x)
  <2>1. \A x : x # id => SameRwSet(s, x)
    BY <1>5, ZenonT(60) DEF SameRwSet, Put
  <2>2. \A x : x # id => SameFunds(s, x)
    BY <1>5, SMTT(60) DEF SameFunds, Put
  <2>. QED  BY <2>1, <2>2, SMTT(60)
<1>11. Data(s)'
  <2>. DEFINE F == [addr : Addrs, amount : Nat]
              new == [addr |-> t.from, amount |-> tx.value]
  <2>1. DOMAIN locked[s] \subseteq TxIDs /\ locked[s] \in [DOMAIN locked[s] -> F]
    BY Zenon DEF ShardInv, Data
  <2>2. new \in F
    BY <1>3, SMTT(60)
  <2>. HIDE DEF F, new
  <2>3. locked'[s] = locked[s] \/ locked'[s] = Put(locked[s], id, new)
    BY <1>5, SMTT(60) DEF new
  <2>4. DOMAIN locked'[s] \subseteq TxIDs /\ locked'[s] \in [DOMAIN locked'[s] -> F]
    BY <1>3, <2>1, <2>2, <2>3, SMTT(60) DEF Put
  <2>5. slotLocks'[s] \in [DOMAIN slotLocks'[s] -> TxIDs]
    BY <1>3, <1>5, ZenonT(60) DEF ShardInv, Data
  <2>6. DOMAIN prepares'[s] \subseteq TxIDs /\ prepares'[s] \in [DOMAIN prepares'[s] -> BOOLEAN]
    BY <1>3, <1>5, NewVote, Zenon DEF ShardInv
  <2>7. DOMAIN pendingRwSets'[s] \subseteq TxIDs
    BY <1>3, <1>5, ZenonT(60) DEF ShardInv, Data, Put
  <2>. QED  BY <1>1, <1>5, <2>4, <2>5, <2>6, <2>7, ZenonT(60) DEF ShardInv, Data, F
<1>12. Calls(s)'
  BY <1>5, SameOrders, ZenonT(60) DEF ShardInv, Calls
<1>13. Locks(s)'
  <2>1. ASSUME NEW x \in DOMAIN pendingRwSets'[s]
        PROVE  /\ Handled(s, x)'
               /\ \E ty \in CrossShardTx : pendingRwSets'[s][x] = LocalRwSet(s, ty.rwSet)
               /\ \A k \in ReadSlots(pendingRwSets'[s][x]) :
                    k \in DOMAIN slotLocks'[s] /\ slotLocks'[s][k] = x
    <3>1. CASE x = id
      <4>1. pendingRwSets'[s][x] = tx.rwSet
        BY <1>5, <3>1, ZenonT(60) DEF Put
      <4>. QED  BY <1>3, <1>4, <1>5, <1>7, <3>1, <4>1, ZenonT(60)
    <3>2. CASE x # id
      <4>1. x \in DOMAIN pendingRwSets[s] /\ pendingRwSets'[s][x] = pendingRwSets[s][x]
        BY <1>5, <2>1, <3>2, ZenonT(60) DEF Put
      <4>2. /\ Handled(s, x)
            /\ \E ty \in CrossShardTx : pendingRwSets[s][x] = LocalRwSet(s, ty.rwSet)
            /\ \A k \in ReadSlots(pendingRwSets[s][x]) :
                 k \in DOMAIN slotLocks[s] /\ slotLocks[s][k] = x
        BY <4>1, SMTT(60) DEF ShardInv, Locks
      <4>. QED  BY <1>5, <1>6, <1>7, <3>2, <4>1, <4>2, ZenonT(60)
    <3>. QED  BY <3>1, <3>2, ZenonT(60)
  <2>. QED  BY <2>1, SMTT(60) DEF Locks
<1>14. Entries(s)'
  <2>1. ASSUME NEW e, Waiting(s, e)' PROVE EntryOK(s, e)'
    <3>1. Waiting(s, e) /\ ~Bad(tx, e) /\ EntryOK(s, e)
      BY <1>1, <2>1, ZenonT(60) DEF ShardInv, Entries
    <3>2. e.type = "lock" \/ Writes(e) => e.id # id
      BY <3>1, ZenonT(60) DEF Bad, Writes, id
    <3>3. ASSUME e.type = "lock"
          PROVE  /\ \E ty \in CrossShardTx : e = LockTx(s, ty) /\ OrderedFor(s, ty)'
                 /\ Handled(s, e.id)' /\ ~VotedYes(s, e.id)'
      <4>1. Handled(s, e.id)' /\ ~VotedYes(s, e.id)'
        BY <1>7, <1>8, <3>1, <3>2, <3>3, ZenonT(60) DEF EntryOK
      <4>2. \E ty \in CrossShardTx : e = LockTx(s, ty) /\ OrderedFor(s, ty)'
        BY <3>1, <3>3, SameOrders, ZenonT(60) DEF EntryOK
      <4>. QED  BY <4>1, <4>2, ZenonT(60)
    <3>4. e.type \notin {"", "lock"} => e.id \in processedCommits'[s]
      BY <1>1, <3>1, ZenonT(60) DEF EntryOK
    <3>5. Writes(e) => e.id \in DOMAIN pendingRwSets'[s] /\ pendingRwSets'[s][e.id] = e.rwSet
      BY <1>10, <3>1, <3>2, ZenonT(60) DEF EntryOK, SameRwSet
    <3>. QED  BY <3>3, <3>4, <3>5, ZenonT(60) DEF EntryOK
  <2>. QED  BY <2>1, ZenonT(60) DEF Entries
<1>15. Promises(s)'
  <2>1. \A x : VotedYes(s, x)' => Handled(s, x)'
    BY <1>4, <1>7, <1>8, SMTT(60) DEF ShardInv, Promises
  <2>2. ASSUME NEW ty \in CrossShardTx, NEW h \in 1..height', OrderedIn(ty, h)',
               s \in InvolvedShards(ty), VotedYes(s, ty.id)', ty.id \notin processedCommits'[s]
        PROVE  Holds(s, ty)'
    <3>0. h \in 1..height /\ OrderedIn(ty, h)
      BY <2>2, SameOrders, ZenonT(60)
    <3>1. CASE ty.id # id
      <4>1. Holds(s, ty)
        BY <1>1, <1>8, <2>2, <3>0, <3>1, ZenonT(60) DEF ShardInv, Promises
      <4>2. SameRwSet(s, ty.id) /\ SameFunds(s, ty.id)
        BY <1>10, <3>1, ZenonT(60)
      <4>. QED  BY <4>1, <4>2, ZenonT(60) DEF Holds, SameRwSet, SameFunds
    <3>2. CASE ty.id = id
      <4>1. ty = t
        BY <1>2, <1>3, <3>0, <3>2, ZenonT(60) DEF OrderedFor, OrdersSound
      <4>2. id \in DOMAIN pendingRwSets'[s] /\ pendingRwSets'[s][id] = LocalRwSet(s, t.rwSet)
        BY <1>3, <1>5, ZenonT(60) DEF Put
      <4>3. (s = t.fromShard /\ t.value > 0) =>
               id \in DOMAIN locked'[s] /\ locked'[s][id] = [addr |-> t.from, amount |-> t.value]
        BY <1>3, <1>5 DEF Put
      <4>. QED  BY <1>3, <4>1, <4>2, <4>3, ZenonT(60) DEF Holds
    <3>. QED  BY <3>1, <3>2, ZenonT(60)
  <2>. QED  BY <2>1, <2>2, ZenonT(60) DEF Promises
<1>. QED  BY <1>1, <1>9, <1>11, <1>12, <1>13, <1>14, <1>15, ZenonT(60) DEF ShardInv

\* A Lock that fails keeps nothing, and votes NO.
LEMMA LockFailsInv ==
  ASSUME NEW s \in Shards, Domains, ShardInv(s), NEW tx, TakesFirst(s, tx),
         tx.type = "lock", LockFails(s, tx),
         blocks' = blocks, ballots' = ballots, voteNet' = voteNet
  PROVE  ShardInv(s)'
<1>1. /\ tx \in Entry(s) /\ EntryOK(s, tx) /\ Queues(s)' /\ SameProgress(s)
      /\ processedCommits'[s] = processedCommits[s]
      /\ \A f : Waiting(s, f)' => Waiting(s, f) /\ ~Bad(tx, f)
  BY Zenon DEF TakesFirst
<1>2. Drops(s, tx.id)
  BY ClearDrops, ZenonT(60) DEF LockFails
<1>3. prepares'[s] = Put(prepares[s], tx.id, FALSE) /\ tx.id \in TxIDs
  BY <1>1, EntryShape, ZenonT(60) DEF LockFails, Domains
<1>4. ~VotedYes(s, tx.id)
  BY <1>1, Zenon DEF EntryOK
<1>5. \A x : VotedYes(s, x)' => VotedYes(s, x) /\ x # tx.id
  BY <1>3, <1>4, ZenonT(60) DEF VotedYes, Put
<1>6. \A x : Handled(s, x) => Handled(s, x)'
  BY <1>1, SameHandled, ZenonT(60) DEF SameProgress
<1>7. Keeps(s)
  BY <1>1, <1>5, <1>6, SameOrders, ZenonT(60) DEF Keeps
<1>8. Progress(s)'
  BY <1>1, SameOrders, ZenonT(60) DEF ShardInv, Progress, SameProgress
<1>9. DOMAIN prepares'[s] \subseteq TxIDs /\ prepares'[s] \in [DOMAIN prepares'[s] -> BOOLEAN]
  BY <1>3, NewVote, ZenonT(60) DEF ShardInv
<1>10. /\ Data(s)' /\ Calls(s)' /\ Locks(s)'
       /\ \A x : x # tx.id => SameRwSet(s, x) /\ SameFunds(s, x)
  BY <1>1, <1>2, <1>6, <1>9, DropsInv, ZenonT(60)
<1>11. ASSUME NEW e, Waiting(s, e)', Writes(e) PROVE SameRwSet(s, e.id)
  <2>1. ~Bad(tx, e) /\ e.type # ""
    BY <1>1, <1>11, ZenonT(60) DEF Writes
  <2>2. e.id # tx.id
    BY <1>11, <2>1, ZenonT(60) DEF Bad
  <2>. QED  BY <1>10, <2>2, ZenonT(60)
<1>12. Entries(s)'
  BY <1>1, <1>7, <1>11, EntriesKept, ZenonT(60) DEF ShardInv
<1>13. Promises(s)'
  <2>1. \A x : VotedYes(s, x)' => Handled(s, x)'
    BY <1>5, <1>6, ZenonT(60) DEF ShardInv, Promises
  <2>2. ASSUME NEW ty \in CrossShardTx, NEW h \in 1..height', OrderedIn(ty, h)',
               s \in InvolvedShards(ty), VotedYes(s, ty.id)', ty.id \notin processedCommits'[s]
        PROVE  Holds(s, ty)'
    <3>1. h \in 1..height /\ OrderedIn(ty, h)
      BY <2>2, SameOrders, ZenonT(60)
    <3>2. Holds(s, ty)
      BY <1>1, <1>5, <2>2, <3>1, ZenonT(60) DEF ShardInv, Promises
    <3>3. SameRwSet(s, ty.id) /\ SameFunds(s, ty.id)
      BY <1>5, <1>10, <2>2, ZenonT(60)
    <3>. QED  BY <3>2, <3>3, ZenonT(60) DEF Holds, SameRwSet, SameFunds
  <2>. QED  BY <2>1, <2>2, ZenonT(60) DEF Promises
<1>. QED  BY <1>1, <1>8, <1>10, <1>12, <1>13, ZenonT(60) DEF ShardInv

LEMMA CreditDrops ==
  ASSUME NEW credits, NEW id, NEW addr, NEW after, after = ClearCreditFor(credits, id, addr)
  PROVE  /\ DOMAIN after \subseteq DOMAIN credits
         /\ \A x \in DOMAIN after : x # id => after[x] = credits[x]
<1>1. CASE after = credits
  BY <1>1
<1>2. CASE id \in DOMAIN credits /\ after = Del(credits, id)
  BY <1>2 DEF Del
<1>3. CASE id \in DOMAIN credits /\ \E v : after = Put(credits, id, v)
  BY <1>3, SMTT(60) DEF Put
<1>. QED  BY <1>1, <1>2, <1>3, ZenonT(60) DEF ClearCreditFor

\* One step of the loop of ProduceBlock.
LEMMA RunTxInv ==
  ASSUME NEW s \in Shards, Domains, OrdersSound, ShardInv(s), RunTx(s)
  PROVE  ShardInv(s)'
<1>1. /\ ExecuteTx(s)
      /\ blocks' = blocks /\ ballots' = ballots /\ voteNet' = voteNet
  BY Zenon DEF RunTx, chainVars
<1>2. PICK tx : tx = Head(sortedTxs[s])
  BY Zenon
<1>3. ASSUME ExecuteCrossDebit(s) PROVE ShardInv(s)'
  <2>1. /\ Executes(s, "cross_debit")
        /\ locked' = locked \/ locked' = [locked EXCEPT ![s] = Del(@, tx.id)]
        /\ pendingCredits' = pendingCredits /\ pendingCalls' = pendingCalls
        /\ slotLocks' = slotLocks /\ pendingRwSets' = pendingRwSets /\ prepares' = prepares
    BY <1>2, <1>3, ZenonT(60) DEF ExecuteCrossDebit
  <2>2. TakesFirst(s, tx) /\ tx.type = "cross_debit"
    BY <1>2, <2>1, ExecutesFirst, ZenonT(60)
  <2>3. tx.id \in processedCommits[s]
    BY <2>2, ZenonT(60) DEF TakesFirst, EntryOK
  <2>4. Drops(s, tx.id)
    BY <2>1, <2>3, ZenonT(60) DEF Drops, Domains
  <2>. QED  BY <1>1, <2>1, <2>2, <2>4, EffectInv, ZenonT(60)
<1>4. ASSUME ExecuteCrossCredit(s) PROVE ShardInv(s)'
  <2>1. /\ Executes(s, "cross_credit")
        /\ pendingCredits'[s] = ClearCreditFor(pendingCredits[s], tx.id, tx.to)
        /\ locked' = locked /\ pendingCalls' = pendingCalls
        /\ slotLocks' = slotLocks /\ pendingRwSets' = pendingRwSets /\ prepares' = prepares
    BY <1>2, <1>4, ZenonT(60) DEF ExecuteCrossCredit, Domains
  <2>2. TakesFirst(s, tx) /\ tx.type = "cross_credit"
    BY <1>2, <2>1, ExecutesFirst, ZenonT(60)
  <2>3. tx.id \in processedCommits[s]
    BY <2>2, SMTT(60) DEF TakesFirst, EntryOK
  <2>4. /\ DOMAIN pendingCredits'[s] \subseteq DOMAIN pendingCredits[s]
        /\ \A x \in DOMAIN pendingCredits'[s] :
             x # tx.id => pendingCredits'[s][x] = pendingCredits[s][x]
    BY <2>1, CreditDrops, SMTT(60)
  <2>5. Drops(s, tx.id)
    BY <2>1, <2>3, <2>4, ZenonT(60) DEF Drops
  <2>. QED  BY <1>1, <2>1, <2>2, <2>5, EffectInv, ZenonT(60)
<1>5. ASSUME ExecuteCrossWriteSet(s) PROVE ShardInv(s)'
  <2>1. /\ Executes(s, "cross_writeset")
        /\ pendingCalls'[s] = Del(pendingCalls[s], tx.id)
        /\ locked' = locked /\ pendingCredits' = pendingCredits
        /\ slotLocks' = slotLocks /\ pendingRwSets' = pendingRwSets /\ prepares' = prepares
    BY <1>2, <1>5, ZenonT(60) DEF ExecuteCrossWriteSet, Domains
  <2>2. TakesFirst(s, tx) /\ tx.type = "cross_writeset"
    BY <1>2, <2>1, ExecutesFirst, ZenonT(60)
  <2>3. tx.id \in processedCommits[s]
    BY <2>2, ZenonT(60) DEF TakesFirst, EntryOK
  <2>4. Drops(s, tx.id)
    BY <2>1, <2>3, ZenonT(60) DEF Drops
  <2>. QED  BY <1>1, <2>1, <2>2, <2>4, EffectInv, ZenonT(60)
<1>6. ASSUME ExecuteFinalize(s) PROVE ShardInv(s)'
  <2>1. /\ Executes(s, "finalize")
        /\ slotLocks'[s] = UnlockAllSlotsForTx(slotLocks[s], tx.id)
        /\ pendingRwSets'[s] = Del(pendingRwSets[s], tx.id)
        /\ locked' = locked /\ pendingCredits' = pendingCredits
        /\ pendingCalls' = pendingCalls /\ prepares' = prepares
    BY <1>2, <1>6, ZenonT(60) DEF ExecuteFinalize, Domains
  <2>2. TakesFirst(s, tx) /\ tx.type = "finalize"
    BY <1>2, <2>1, ExecutesFirst, ZenonT(60)
  <2>3. tx.id \in processedCommits[s]
    BY <2>2, ZenonT(60) DEF TakesFirst, EntryOK
  <2>4. Drops(s, tx.id)
    BY <2>1, <2>3, ZenonT(60) DEF Drops
  <2>. QED  BY <1>1, <2>1, <2>2, <2>4, EffectInv, ZenonT(60)
<1>7. ASSUME ExecuteUnlock(s) \/ ExecuteCrossAbort(s) PROVE ShardInv(s)'
  <2>1. PICK type \in {"unlock", "cross_abort"} :
          Executes(s, type) /\ ClearAllMetadata(s, tx.id) /\ prepares' = prepares
    BY <1>2, <1>7, SMTT(60) DEF ExecuteUnlock, ExecuteCrossAbort
  <2>2. TakesFirst(s, tx) /\ tx.type = type
    BY <1>2, <2>1, ExecutesFirst, SMTT(60)
  <2>3. Drops(s, tx.id)
    BY <2>1, ClearDrops, SMTT(60)
  <2>. QED  BY <1>1, <2>1, <2>2, <2>3, EffectInv, ZenonT(60)
<1>8. ASSUME ExecuteLock(s) PROVE ShardInv(s)'
  <2>1. Executes(s, "lock") /\ (LockSucceeds(s, tx) \/ LockFails(s, tx))
    BY <1>2, <1>8, SMTT(60) DEF ExecuteLock
  <2>2. TakesFirst(s, tx) /\ tx.type = "lock"
    BY <1>2, <2>1, ExecutesFirst, ZenonT(60)
  <2>. QED  BY <1>1, <2>1, <2>2, LockSucceedsInv, LockFailsInv, ZenonT(60)
<1>9. ASSUME ExecuteLocal(s) PROVE ShardInv(s)'
  <2>1. /\ Executes(s, "") /\ prepares' = prepares
        /\ locked' = locked /\ pendingCredits' = pendingCredits /\ pendingCalls' = pendingCalls
        /\ slotLocks' = slotLocks /\ pendingRwSets' = pendingRwSets
    BY <1>9, ZenonT(60) DEF ExecuteLocal, metadata
  <2>2. TakesFirst(s, tx)
    BY <1>2, <2>1, ExecutesFirst, ZenonT(60)
  <2>3. /\ Queues(s)' /\ SameProgress(s) /\ processedCommits'[s] = processedCommits[s]
        /\ \A f : Waiting(s, f)' => Waiting(s, f)
    BY <2>2, ZenonT(60) DEF TakesFirst
  <2>4. Keeps(s) /\ Progress(s)'
    BY <1>1, <2>1, <2>3, KeepsAll, ZenonT(60) DEF ShardInv
  <2>5. Data(s)' /\ Calls(s)' /\ Locks(s)' /\ \A id : SameRwSet(s, id) /\ SameFunds(s, id)
    BY <1>1, <2>1, <2>3, <2>4, DataSame, ZenonT(60) DEF SameData, Keeps
  <2>. QED  BY <1>1, <2>3, <2>4, <2>5, ShardStep, ZenonT(60)
<1>. QED  BY <1>1, <1>3, <1>4, <1>5, <1>6, <1>7, <1>8, <1>9, ZenonT(60) DEF ExecuteTx

\* A finished block sends its votes.
LEMMA EndBlockInv ==
  ASSUME NEW s \in Shards, Domains, ShardInv(s), EndShardBlock(s)
  PROVE  ShardInv(s)'
<1>1. /\ sortedTxs[s] = <<>> /\ executing'[s] = FALSE /\ prepares'[s] = EmptyMap
      /\ voteNet' = voteNet \cup
           {[id |-> id, shard |-> s, vote |-> prepares[s][id]] : id \in DOMAIN prepares[s]}
  BY Zenon DEF EndShardBlock, FinishBlock, Domains
<1>2. /\ processedCommits' = processedCommits /\ adding' = adding
      /\ currentTxs' = currentTxs /\ sortedTxs' = sortedTxs
      /\ lastOrchestratorHeight' = lastOrchestratorHeight /\ ordersDone' = ordersDone
      /\ locked' = locked /\ pendingCredits' = pendingCredits /\ pendingCalls' = pendingCalls
      /\ slotLocks' = slotLocks /\ pendingRwSets' = pendingRwSets
      /\ blocks' = blocks /\ ballots' = ballots
  BY Zenon DEF EndShardBlock, FinishBlock, handlerVars, metadata, chainVars
<1>3. ASSUME NEW x, VotedYes(s, x)' PROVE VotedYes(s, x)
  <2>1. DOMAIN prepares'[s] = {}
    BY <1>1, ZenonT(60) DEF EmptyMap
  <2>2. [id |-> x, shard |-> s, vote |-> TRUE] \in voteNet' \cup ballots
    BY <1>2, <1>3, <2>1, ZenonT(60) DEF VotedYes
  <2>3. CASE [id |-> x, shard |-> s, vote |-> TRUE] \in voteNet \cup ballots
    BY <2>3, SMTT(60) DEF VotedYes
  <2>4. CASE \E id \in DOMAIN prepares[s] :
               [id |-> x, shard |-> s, vote |-> TRUE] = [id |-> id, shard |-> s, vote |-> prepares[s][id]]
    <3>1. PICK id \in DOMAIN prepares[s] :
            [id |-> x, shard |-> s, vote |-> TRUE] = [id |-> id, shard |-> s, vote |-> prepares[s][id]]
      BY <2>4, ZenonT(60)
    <3>2. x = id /\ prepares[s][id] = TRUE
      BY <3>1, ZenonT(60)
    <3>. QED  BY <3>2, ZenonT(60) DEF VotedYes
  <2>. QED  BY <1>1, <2>2, <2>3, <2>4, ZenonT(60)
<1>4. \A x : Handled(s, x) => Handled(s, x)'
  BY <1>2, SameHandled, ZenonT(60)
<1>5. Keeps(s)
  BY <1>2, <1>3, <1>4, SameOrders, ZenonT(60) DEF Keeps
<1>6. Progress(s)'
  BY <1>2, SameOrders, ZenonT(60) DEF ShardInv, Progress
<1>7. \A x : SameRwSet(s, x) /\ SameFunds(s, x)
  BY <1>2, ZenonT(60) DEF SameRwSet, SameFunds
<1>8. Locks(s)'
  BY <1>2, <1>4, LocksKept, ZenonT(60) DEF ShardInv
<1>9. Calls(s)'
  BY <1>2, SameOrders, ZenonT(60) DEF ShardInv, Calls
<1>10. Data(s)'
  <2>1. DOMAIN prepares'[s] \subseteq TxIDs /\ prepares'[s] \in [DOMAIN prepares'[s] -> BOOLEAN]
    BY <1>1 DEF EmptyMap
  <2>. QED  BY <1>2, <2>1, ZenonT(60) DEF ShardInv, Data
<1>11. Queues(s)'
  BY <1>1, <1>2, ZenonT(60) DEF ShardInv, Queues
<1>12. \A e : Waiting(s, e)' => Waiting(s, e)
  BY <1>2, SMTT(60) DEF Waiting
<1>. QED  BY <1>2, <1>5, <1>6, <1>7, <1>8, <1>9, <1>10, <1>11, <1>12, ShardStep, ZenonT(60)
-----------------------------------------------------------------------------
(* The other shards.                                                       *)

OnlyAt(s, f, g) == DOMAIN g = DOMAIN f /\ \A r \in DOMAIN f : r # s => g[r] = f[r]

\* The step is one of shard s.
ActsOn(s) ==
  /\ OnlyAt(s, currentTxs, currentTxs') /\ OnlyAt(s, adding, adding')
  /\ OnlyAt(s, sortedTxs, sortedTxs') /\ OnlyAt(s, executing, executing')
  /\ OnlyAt(s, prepares, prepares') /\ OnlyAt(s, locked, locked')
  /\ OnlyAt(s, pendingCredits, pendingCredits') /\ OnlyAt(s, pendingCalls, pendingCalls')
  /\ OnlyAt(s, slotLocks, slotLocks') /\ OnlyAt(s, pendingRwSets, pendingRwSets')
  /\ OnlyAt(s, processedCommits, processedCommits')
  /\ OnlyAt(s, lastOrchestratorHeight, lastOrchestratorHeight')
  /\ OnlyAt(s, ordersDone, ordersDone')

LEMMA OthersUntouched ==
  ASSUME NEW s, ActsOn(s), Domains
  PROVE  Domains' /\ \A r \in Shards : r # s => SameShard(r)
<1>1. Domains'
  BY Zenon DEF ActsOn, OnlyAt, Domains
<1>2. \A r \in Shards : r # s => SameShard(r)
  BY ZenonT(60) DEF ActsOn, OnlyAt, Domains, SameShard, SameQueues, SameData, SameProgress
<1>. QED  BY <1>1, <1>2, ZenonT(60)

LEMMA OnlyAtExcept ==
  ASSUME NEW s, NEW f, NEW v
  PROVE  OnlyAt(s, f, [f EXCEPT ![s] = v]) /\ OnlyAt(s, f, f)
  BY DEF OnlyAt

LEMMA ExecuteActsOn ==
  ASSUME NEW s, ExecuteTx(s)
  PROVE  ActsOn(s)
<1>0. \A f : OnlyAt(s, f, f)
  BY OnlyAtExcept, ZenonT(60)
<1>1. ASSUME NEW type, Executes(s, type)
      PROVE  /\ OnlyAt(s, sortedTxs, sortedTxs') /\ OnlyAt(s, currentTxs, currentTxs')
             /\ OnlyAt(s, executing, executing') /\ OnlyAt(s, adding, adding')
             /\ OnlyAt(s, processedCommits, processedCommits')
             /\ OnlyAt(s, lastOrchestratorHeight, lastOrchestratorHeight')
             /\ OnlyAt(s, ordersDone, ordersDone')
  BY <1>0, <1>1, OnlyAtExcept, ZenonT(60) DEF Executes, handlerVars
<1>2. ASSUME NEW id, ClearAllMetadata(s, id)
      PROVE  /\ OnlyAt(s, locked, locked') /\ OnlyAt(s, pendingCredits, pendingCredits')
             /\ OnlyAt(s, pendingCalls, pendingCalls') /\ OnlyAt(s, slotLocks, slotLocks')
             /\ OnlyAt(s, pendingRwSets, pendingRwSets')
  BY <1>2, OnlyAtExcept, ZenonT(60) DEF ClearAllMetadata
<1>3. ASSUME ExecuteCrossDebit(s) PROVE ActsOn(s)
  BY <1>0, <1>1, <1>3, OnlyAtExcept DEF ExecuteCrossDebit, ActsOn
<1>4. ASSUME ExecuteCrossCredit(s) PROVE ActsOn(s)
  BY <1>0, <1>1, <1>4, OnlyAtExcept, ZenonT(60) DEF ExecuteCrossCredit, ActsOn
<1>5. ASSUME ExecuteCrossWriteSet(s) PROVE ActsOn(s)
  BY <1>0, <1>1, <1>5, OnlyAtExcept, ZenonT(60) DEF ExecuteCrossWriteSet, ActsOn
<1>6. ASSUME ExecuteFinalize(s) PROVE ActsOn(s)
  BY <1>0, <1>1, <1>6, OnlyAtExcept, ZenonT(60) DEF ExecuteFinalize, ActsOn
<1>7. ASSUME ExecuteUnlock(s) PROVE ActsOn(s)
  BY <1>0, <1>1, <1>2, <1>7 DEF ExecuteUnlock, ActsOn
<1>8. ASSUME ExecuteCrossAbort(s) PROVE ActsOn(s)
  BY <1>0, <1>1, <1>2, <1>8, ZenonT(60) DEF ExecuteCrossAbort, ActsOn
<1>9. ASSUME ExecuteLock(s) PROVE ActsOn(s)
  <2>1. PICK tx : Executes(s, "lock") /\ (LockSucceeds(s, tx) \/ LockFails(s, tx))
    BY <1>9, ZenonT(60) DEF ExecuteLock
  <2>2. CASE LockSucceeds(s, tx)
    BY <1>0, <1>1, <2>1, <2>2, OnlyAtExcept, ZenonT(60) DEF LockSucceeds, ActsOn
  <2>3. CASE LockFails(s, tx)
    BY <1>0, <1>1, <1>2, <2>1, <2>3, OnlyAtExcept, ZenonT(60) DEF LockFails, ActsOn
  <2>. QED  BY <2>1, <2>2, <2>3, SMTT(60)
<1>10. ASSUME ExecuteLocal(s) PROVE ActsOn(s)
  BY <1>0, <1>1, <1>10 DEF ExecuteLocal, ActsOn, metadata
<1>. QED  BY <1>3, <1>4, <1>5, <1>6, <1>7, <1>8, <1>9, <1>10 DEF ExecuteTx

LEMMA ShardActsOn ==
  ASSUME NEW s,
         \/ HandleResult(s) \/ HandleOrder(s) \/ HandleEnd(s) \/ HandlerAddsTx(s)
         \/ BeginShardBlock(s) \/ RunTx(s) \/ EndShardBlock(s)
         \/ \E tx \in LocalTxs : ClientQueuesLocal(s, tx)
  PROVE  ActsOn(s)
<1>0. \A f : OnlyAt(s, f, f)
  BY OnlyAtExcept, ZenonT(60)
<1>1. ASSUME HandleResult(s) PROVE ActsOn(s)
  <2>1. PICK id, c : ProcessResult(s, id, c)
    BY <1>1, ZenonT(60) DEF HandleResult
  <2>. QED  BY <1>0, <2>1, OnlyAtExcept, ZenonT(60) DEF ProcessResult, ActsOn, metadata, blockVars
<1>2. ASSUME HandleOrder(s) PROVE ActsOn(s)
  <2>1. PICK tx : ProcessOrder(s, tx)
    BY <1>2, ZenonT(60) DEF HandleOrder
  <2>. QED  BY <1>0, <2>1, OnlyAtExcept, ZenonT(60) DEF ProcessOrder, ActsOn, blockVars
<1>3. ASSUME HandleEnd(s) PROVE ActsOn(s)
  BY <1>0, <1>3, OnlyAtExcept, ZenonT(60) DEF HandleEnd, EndOrchestratorBlock, ActsOn, metadata, blockVars
<1>4. ASSUME HandlerAddsTx(s) PROVE ActsOn(s)
  BY <1>0, <1>4, OnlyAtExcept, ZenonT(60) DEF HandlerAddsTx, AddTx, ActsOn, metadata
<1>5. ASSUME BeginShardBlock(s) PROVE ActsOn(s)
  BY <1>0, <1>5, OnlyAtExcept, ZenonT(60) DEF BeginShardBlock, StartBlock, ActsOn, metadata, handlerVars
<1>6. ASSUME RunTx(s) PROVE ActsOn(s)
  BY <1>6, ExecuteActsOn, ZenonT(60) DEF RunTx
<1>7. ASSUME EndShardBlock(s) PROVE ActsOn(s)
  BY <1>0, <1>7, OnlyAtExcept, ZenonT(60) DEF EndShardBlock, FinishBlock, ActsOn, metadata, handlerVars
<1>8. ASSUME NEW tx \in LocalTxs, ClientQueuesLocal(s, tx) PROVE ActsOn(s)
  BY <1>0, <1>8, OnlyAtExcept, ZenonT(60) DEF ClientQueuesLocal, QueueLocal, ActsOn, metadata, handlerVars
<1>. QED  BY <1>1, <1>2, <1>3, <1>4, <1>5, <1>6, <1>7, <1>8, ZenonT(60)
-----------------------------------------------------------------------------
(* The accounts.                                                           *)

\* A step of the system is one of a shard, one of the orchestrator's chain, or one
\* of the simulator or a client.
LEMMA StepCases ==
  ASSUME ShardsInv, [Next]_vars
  PROVE  \/ \E s \in Shards :
              \/ HandleResult(s) \/ HandleOrder(s) \/ HandleEnd(s) \/ HandlerAddsTx(s)
              \/ BeginShardBlock(s) \/ RunTx(s) \/ EndShardBlock(s)
              \/ \E tx \in LocalTxs : ClientQueuesLocal(s, tx)
         \/ Produce
         \/ \E b \in voteNet : DeliverVote(b)
         \/ /\ UNCHANGED shardVars /\ voteNet' = voteNet
            /\ UNCHANGED chainVars \/ \E tx : Submit(tx)
            /\ \A tx \in localChecked' : AddressToShard[tx.to] = AddressToShard[tx.from]
<1>. DEFINE Quiet == /\ UNCHANGED shardVars /\ voteNet' = voteNet
                     /\ UNCHANGED chainVars \/ \E tx : Submit(tx)
                     /\ \A tx \in localChecked' : AddressToShard[tx.to] = AddressToShard[tx.from]
<1>0. \A tx \in localChecked : AddressToShard[tx.to] = AddressToShard[tx.from]
  BY Zenon DEF ShardsInv
<1>1. ASSUME NEW id, NEW k, FetchSlot(id, k) PROVE Quiet
  BY <1>0, <1>1, ZenonT(60) DEF FetchSlot, localVars
<1>2. ASSUME NEW id, NEW req, StartSimulation(id, req) PROVE Quiet
  BY <1>0, <1>2, ZenonT(60) DEF StartSimulation, localVars
<1>3. ASSUME NEW id, SimulationSucceeds(id) PROVE Quiet
  BY <1>0, <1>3, ZenonT(60) DEF SimulationSucceeds, localVars
<1>4. ASSUME NEW id, SimulationFails(id) PROVE Quiet
  BY <1>0, <1>4, ZenonT(60) DEF SimulationFails, localVars
<1>5. ASSUME NEW s, NEW tx, ClientChecksLocal(s, tx) PROVE Quiet
  BY <1>0, <1>5, ZenonT(60) DEF ClientChecksLocal, CheckLocal
<1>6. ASSUME UNCHANGED vars PROVE Quiet
  BY <1>0, <1>6, SMTT(60) DEF vars, localVars
<1>7. \A b \in StaleVotes : b \in voteNet
  BY DEF StaleVotes
<1>. HIDE DEF Quiet
<1>8. CASE \E id \in DOMAIN simulations : \E k \in simulations[id].request.reads : FetchSlot(id, k)
  BY <1>1, <1>8, ZenonT(60) DEF Quiet
<1>9. CASE \E s \in Shards : Busy(s) /\ BusyStep(s)
  BY <1>9, ZenonT(60) DEF BusyStep
<1>10. CASE \E b \in StaleVotes : DeliverVote(b)
  BY <1>7, <1>10, ZenonT(60)
<1>11. CASE IdleStep
  BY <1>2, <1>3, <1>4, <1>5, <1>11, ZenonT(60) DEF IdleStep, Quiet
<1>12. CASE UNCHANGED vars
  BY <1>6, <1>12, ZenonT(60) DEF Quiet
<1>. QED  BY <1>8, <1>9, <1>10, <1>11, <1>12, ZenonT(60) DEF Next

\* Only the loop of ProduceBlock touches the accounts, or what a Lock keeps; the
\* set of processed results grows.
LEMMA AccountsChange ==
  ASSUME ShardsInv, [Next]_vars
  PROVE  \/ \E s \in Shards : RunTx(s)
         \/ /\ UNCHANGED accounts /\ pendingRwSets' = pendingRwSets
            /\ \A s \in Shards : processedCommits[s] \subseteq processedCommits'[s]
<1>. DEFINE Same == UNCHANGED accounts /\ pendingRwSets' = pendingRwSets
            Grows == \A s \in Shards : processedCommits[s] \subseteq processedCommits'[s]
<1>0. DOMAIN processedCommits = Shards
  BY Zenon DEF ShardsInv, Domains
<1>1. ASSUME NEW s \in Shards, HandleResult(s) PROVE Same /\ Grows
  <2>1. PICK id, c : ProcessResult(s, id, c)
    BY <1>1, ZenonT(60) DEF HandleResult
  <2>. QED  BY <1>0, <2>1, SMTT(60) DEF ProcessResult, metadata, accounts
<1>2. ASSUME NEW s, HandleOrder(s) PROVE Same /\ Grows
  <2>1. PICK tx : ProcessOrder(s, tx)
    BY <1>2, ZenonT(60) DEF HandleOrder
  <2>. QED  BY <2>1, ZenonT(60) DEF ProcessOrder, accounts
<1>3. ASSUME NEW s, HandleEnd(s) PROVE Same /\ Grows
  BY <1>3, ZenonT(60) DEF HandleEnd, EndOrchestratorBlock, metadata, accounts
<1>4. ASSUME NEW s, HandlerAddsTx(s) PROVE Same /\ Grows
  BY <1>4, ZenonT(60) DEF HandlerAddsTx, AddTx, metadata, accounts
<1>5. ASSUME NEW s, BeginShardBlock(s) PROVE Same /\ Grows
  BY <1>5, ZenonT(60) DEF BeginShardBlock, StartBlock, metadata, accounts, handlerVars
<1>6. ASSUME NEW s, EndShardBlock(s) PROVE Same /\ Grows
  BY <1>6, ZenonT(60) DEF EndShardBlock, FinishBlock, metadata, accounts, handlerVars
<1>7. ASSUME NEW s, NEW tx, ClientQueuesLocal(s, tx) PROVE Same /\ Grows
  BY <1>7, SMTT(60) DEF ClientQueuesLocal, QueueLocal, metadata, accounts, handlerVars
<1>8. ASSUME UNCHANGED shardVars PROVE Same /\ Grows
  BY <1>8, SMTT(60) DEF shardVars, metadata, accounts, handlerVars
<1>9. Produce \/ (\E b : DeliverVote(b)) => UNCHANGED shardVars
  BY ZenonT(60) DEF Produce, DeliverVote
<1>. HIDE DEF Same, Grows
<1>10. (\E s \in Shards : RunTx(s)) \/ (Same /\ Grows)
  BY StepCases, <1>1, <1>2, <1>3, <1>4, <1>5, <1>6, <1>7, <1>8, <1>9, ZenonT(60)
<1>. QED  BY <1>10, Zenon DEF Same, Grows

\* What the next entry of the block does to the accounts.
LEMMA RunTxCases ==
  ASSUME ShardsInv, NEW s \in Shards, RunTx(s)
  PROVE  \E tx \in Entry(s) :
           /\ EntryOK(s, tx) /\ processedCommits' = processedCommits
           /\ \A r \in Shards : r # s => pendingRwSets'[r] = pendingRwSets[r]
           /\ \/ /\ tx.type = "cross_debit"
                 /\ \/ balance' = balance
                    \/ /\ balance[tx.from] >= tx.value
                       /\ balance' = [balance EXCEPT ![tx.from] = @ - tx.value]
                 /\ storage' = storage /\ pendingRwSets' = pendingRwSets
              \/ /\ tx.type = "cross_credit"
                 /\ balance' = [balance EXCEPT ![tx.to] = @ + tx.value]
                 /\ storage' = storage /\ pendingRwSets' = pendingRwSets
              \/ /\ Writes(tx) /\ ApplyWriteSet(tx.rwSet) /\ balance' = balance
                 /\ pendingRwSets'[s] \in {pendingRwSets[s], Del(pendingRwSets[s], tx.id)}
              \/ UNCHANGED accounts /\ pendingRwSets'[s] = Del(pendingRwSets[s], tx.id)
              \/ /\ tx.type = "lock" /\ CanLockReadSet(s, tx.id, tx.rwSet) /\ UNCHANGED accounts
                 /\ pendingRwSets'[s] = Put(pendingRwSets[s], tx.id, tx.rwSet)
              \/ /\ tx.type = "" /\ pendingRwSets' = pendingRwSets
                 /\ \/ UNCHANGED accounts
                    \/ /\ LocalTxRuns(s, tx) /\ ExecuteLocalTx(tx)
                       /\ bypassed' = bypassed \cup NestedWrites(s, tx)
<1>1. PICK tx : tx = Head(sortedTxs[s])
  BY Zenon
<1>2. ExecuteTx(s)
  BY Zenon DEF RunTx
<1>3. PICK type : Executes(s, type)
  BY <1>2, ZenonT(60) DEF ExecuteTx, ExecuteCrossDebit, ExecuteCrossCredit, ExecuteCrossWriteSet,
              ExecuteFinalize, ExecuteUnlock, ExecuteLock, ExecuteCrossAbort, ExecuteLocal
<1>4. Domains /\ ShardInv(s)
  BY Zenon DEF ShardsInv
<1>5. tx \in Entry(s) /\ EntryOK(s, tx) /\ processedCommits' = processedCommits
  BY <1>1, <1>3, <1>4, ExecutesFirst, ZenonT(60) DEF TakesFirst, Executes, handlerVars
<1>6. DOMAIN pendingRwSets = Shards
  BY <1>4, ZenonT(60) DEF Domains
<1>7. \A r \in Shards : r # s => pendingRwSets'[r] = pendingRwSets[r]
  BY <1>2, <1>6, ExecuteActsOn, ZenonT(60) DEF ActsOn, OnlyAt
<1>. DEFINE Debit == /\ tx.type = "cross_debit"
                     /\ \/ balance' = balance
                        \/ /\ balance[tx.from] >= tx.value
                           /\ balance' = [balance EXCEPT ![tx.from] = @ - tx.value]
                     /\ storage' = storage /\ pendingRwSets' = pendingRwSets
            Credit == /\ tx.type = "cross_credit"
                      /\ balance' = [balance EXCEPT ![tx.to] = @ + tx.value]
                      /\ storage' = storage /\ pendingRwSets' = pendingRwSets
            Write == /\ Writes(tx) /\ ApplyWriteSet(tx.rwSet) /\ balance' = balance
                     /\ pendingRwSets'[s] \in {pendingRwSets[s], Del(pendingRwSets[s], tx.id)}
            Drop == UNCHANGED accounts /\ pendingRwSets'[s] = Del(pendingRwSets[s], tx.id)
            Lock == /\ tx.type = "lock" /\ CanLockReadSet(s, tx.id, tx.rwSet) /\ UNCHANGED accounts
                    /\ pendingRwSets'[s] = Put(pendingRwSets[s], tx.id, tx.rwSet)
            Local == /\ tx.type = "" /\ pendingRwSets' = pendingRwSets
                     /\ \/ UNCHANGED accounts
                        \/ /\ LocalTxRuns(s, tx) /\ ExecuteLocalTx(tx)
                           /\ bypassed' = bypassed \cup NestedWrites(s, tx)
<1>8. ExecuteCrossDebit(s) => Debit
  BY <1>1, ZenonT(60) DEF ExecuteCrossDebit, Executes
<1>9. ExecuteCrossCredit(s) => Credit
  BY <1>1, ZenonT(60) DEF ExecuteCrossCredit, Executes
<1>10. ExecuteCrossWriteSet(s) => Write
  BY <1>1, ZenonT(60) DEF ExecuteCrossWriteSet, Executes, Writes
<1>11. ExecuteFinalize(s) => Write
  BY <1>1, <1>6, ZenonT(60) DEF ExecuteFinalize, Executes, Writes
<1>12. ExecuteUnlock(s) \/ ExecuteCrossAbort(s) => Drop
  BY <1>1, <1>6, ZenonT(60) DEF ExecuteUnlock, ExecuteCrossAbort, ClearAllMetadata
<1>13. ExecuteLock(s) => Lock \/ Drop
  BY <1>1, <1>6, ZenonT(60) DEF ExecuteLock, Executes, LockSucceeds, LockFails, CanLock, ClearAllMetadata
<1>14. ExecuteLocal(s) => Local
  <2>1. tx.type = "" /\ LocalTxRuns(s, tx) => bypassed' = bypassed \cup NestedWrites(s, tx)
    BY <1>1, ZenonT(60) DEF RunTx
  <2>. QED  BY <1>1, <2>1, ZenonT(60) DEF ExecuteLocal, Executes, metadata
<1>15. Debit \/ Credit \/ Write \/ Drop \/ Lock \/ Local
  <2>. HIDE DEF Debit, Credit, Write, Drop, Lock, Local
  <2>. QED  BY <1>2, <1>8, <1>9, <1>10, <1>11, <1>12, <1>13, <1>14, ZenonT(60) DEF ExecuteTx
<1>. QED  BY <1>5, <1>7, <1>15, ZenonT(60)

AccountTypes == balance \in [Addrs -> Nat] /\ storage \in [Addrs -> [Slots -> Nat]]

\* What a shard keeps of an RwSet: entries of its own addresses.
RwSetOK(s, rwSet) ==
  \A rw \in rwSet :
    /\ rw.addr \in Addrs /\ AddressToShard[rw.addr] = s
    /\ DOMAIN rw.reads \subseteq Slots
    /\ \A slot \in DOMAIN rw.writes : rw.writes[slot] \in Nat

LEMMA RwSetShape ==
  ASSUME NEW s, NEW tx \in CrossShardTx
  PROVE  RwSetOK(s, LocalRwSet(s, tx.rwSet))
<1>1. \A rw \in LocalRwSet(s, tx.rwSet) : rw \in tx.rwSet /\ rw.shard = s
  BY Zenon DEF LocalRwSet
<1>. QED  BY <1>1, TwoPhaseAssumption, ZenonT(60) DEF RwSetOK

\* One entry per address, and what it writes was read.
Simulated(rwSet) ==
  \A rw \in rwSet :
    /\ DOMAIN rw.writes \subseteq DOMAIN rw.reads
    /\ \A other \in rwSet : other.addr = rw.addr => other = rw

LEMMA SimulatedShape ==
  ASSUME SimulatedRwSets, NEW s, NEW tx \in CrossShardTx
  PROVE  Simulated(LocalRwSet(s, tx.rwSet))
<1>1. \A rw \in LocalRwSet(s, tx.rwSet) : rw \in tx.rwSet
  BY Zenon DEF LocalRwSet
<1>. QED  BY <1>1, ZenonT(60) DEF SimulatedRwSets, Simulated

\* What applyWriteSet leaves in a slot.
LEMMA WriteSetResult ==
  ASSUME NEW rwSet, ApplyWriteSet(rwSet), NEW a \in Addrs, NEW slot \in Slots
  PROVE  \/ storage'[a][slot] = storage[a][slot]
         \/ \E rw \in rwSet : /\ rw.addr = a /\ slot \in DOMAIN rw.writes
                              /\ storage'[a][slot] = rw.writes[slot]
<1>. DEFINE written == {rw \in rwSet : rw.addr = a /\ slot \in DOMAIN rw.writes}
            chosen == CHOOSE rw \in written : TRUE
<1>1. storage'[a][slot] = IF written = {} THEN storage[a][slot] ELSE chosen.writes[slot]
  BY Zenon DEF ApplyWriteSet
<1>2. written # {} => chosen \in written
  BY Zenon
<1>. QED  BY <1>1, <1>2, ZenonT(60)

LEMMA AccountTypesNext ==
  ASSUME ShardsInv, AccountTypes, [Next]_vars
  PROVE  AccountTypes'
<1>1. CASE UNCHANGED accounts
  BY <1>1, ZenonT(60) DEF accounts, AccountTypes
<1>2. ASSUME NEW s \in Shards, RunTx(s) PROVE AccountTypes'
  <2>. USE DEF AccountTypes
  <2>1. PICK tx \in Entry(s) :
           \/ UNCHANGED accounts
           \/ /\ tx.type = "cross_debit" /\ storage' = storage
              /\ \/ balance' = balance
                 \/ /\ balance[tx.from] >= tx.value
                    /\ balance' = [balance EXCEPT ![tx.from] = @ - tx.value]
           \/ /\ tx.type = "cross_credit" /\ storage' = storage
              /\ balance' = [balance EXCEPT ![tx.to] = @ + tx.value]
           \/ Writes(tx) /\ ApplyWriteSet(tx.rwSet) /\ balance' = balance
           \/ tx.type = "" /\ LocalTxRuns(s, tx) /\ ExecuteLocalTx(tx)
    BY <1>2, RunTxCases, ZenonT(60)
  <2>2. CASE tx.type = "cross_debit" /\ storage' = storage
              /\ \/ balance' = balance
                 \/ /\ balance[tx.from] >= tx.value
                    /\ balance' = [balance EXCEPT ![tx.from] = @ - tx.value]
    <3>1. tx.from \in Addrs /\ tx.value \in Nat
      BY <2>2, EntryShape, ZenonT(60)
    <3>2. balance[tx.from] >= tx.value => balance[tx.from] - tx.value \in Nat
      BY <3>1, SMTT(60)
    <3>. QED  BY <2>2, <3>1, <3>2, ZenonT(60)
  <2>3. CASE tx.type = "cross_credit" /\ storage' = storage
              /\ balance' = [balance EXCEPT ![tx.to] = @ + tx.value]
    <3>1. tx.to \in Addrs /\ tx.value \in Nat
      BY <2>3, EntryShape, ZenonT(60)
    <3>. QED  BY <2>3, <3>1, SMTT(60)
  <2>4. CASE Writes(tx) /\ ApplyWriteSet(tx.rwSet) /\ balance' = balance
    <3>1. RwSetOK(s, tx.rwSet)
      <4>1. \E t \in CrossShardTx : tx.rwSet = LocalRwSet(s, t.rwSet)
        BY <2>4, EntryShape, ZenonT(60)
      <4>. QED  BY <4>1, RwSetShape, ZenonT(60)
    <3>2. ASSUME NEW a \in Addrs, NEW slot \in Slots PROVE storage'[a][slot] \in Nat
      <4>1. \A rw \in tx.rwSet : \A k \in DOMAIN rw.writes : rw.writes[k] \in Nat
        BY <3>1, ZenonT(60) DEF RwSetOK
      <4>. QED  BY <2>4, <4>1, WriteSetResult
    <3>3. storage' = [a \in Addrs |-> [slot \in Slots |-> storage'[a][slot]]]
      BY <2>4 DEF ApplyWriteSet
    <3>. QED  BY <2>4, <3>2, <3>3, SMTT(60)
  <2>5. CASE tx.type = "" /\ LocalTxRuns(s, tx) /\ ExecuteLocalTx(tx)
    <3>1. tx.from \in Addrs /\ tx.to \in Addrs /\ tx.value \in Nat
      BY <2>5, EntryShape, TwoPhaseAssumption, ZenonT(60)
    <3>2. balance[tx.from] >= tx.value
      BY <2>5, ZenonT(60) DEF LocalTxRuns
    <3>3. balance' \in [Addrs -> Nat]
      <4>1. balance[tx.from] - tx.value \in Nat /\ balance[tx.to] + tx.value \in Nat
        BY <3>1, <3>2, SMTT(60)
      <4>2. CASE tx.from = tx.to
        BY <2>5, <4>2, ZenonT(60) DEF ExecuteLocalTx
      <4>3. CASE tx.from # tx.to
        <5>1. balance' = [a \in Addrs |-> IF a = tx.to THEN balance[tx.to] + tx.value
                                          ELSE IF a = tx.from THEN balance[tx.from] - tx.value
                                          ELSE balance[a]]
          BY <2>5, <3>1, <4>3, ZenonT(60) DEF ExecuteLocalTx
        <5>. QED  BY <4>1, <5>1, ZenonT(60)
      <4>. QED  BY <4>2, <4>3, ZenonT(60)
    <3>4. storage' \in [Addrs -> [Slots -> Nat]]
      <4>1. ASSUME NEW a \in Addrs, NEW slot \in Slots
            PROVE  storage[a][slot] \in Nat /\ storage[a][slot] + 1 \in Nat
        BY SMTT(60)
      <4>. QED  BY <2>5, <4>1, ZenonT(60) DEF ExecuteLocalTx
    <3>. QED  BY <3>3, <3>4
  <2>. QED  BY <1>1, <2>1, <2>2, <2>3, <2>4, <2>5, ZenonT(60)
<1>. QED  BY <1>1, <1>2, AccountsChange, SMTT(60)

\* The slot has the value that the transaction read, or wrote, unless a nested call
\* wrote it.
Stable(s, id, rw, slot) ==
  \/ <<rw.addr, slot>> \in bypassed
  \/ storage[rw.addr][slot] = rw.reads[slot]
  \/ /\ id \in processedCommits[s]
     /\ slot \in DOMAIN rw.writes
     /\ storage[rw.addr][slot] = rw.writes[slot]

\* A kept entry belongs to an address of the shard, and its slots are locked.
LEMMA KeptIsLocked ==
  ASSUME ShardsInv, NEW s \in Shards, NEW id \in DOMAIN pendingRwSets[s],
         NEW rw \in pendingRwSets[s][id], NEW slot \in DOMAIN rw.reads
  PROVE  /\ rw.addr \in Addrs /\ AddressToShard[rw.addr] = s /\ slot \in Slots
         /\ <<rw.addr, slot>> \in DOMAIN slotLocks[s]
         /\ slotLocks[s][<<rw.addr, slot>>] = id
<1>1. Locks(s)
  BY Zenon DEF ShardsInv, ShardInv
<1>2. <<rw.addr, slot>> \in ReadSlots(pendingRwSets[s][id])
  BY DEF ReadSlots
<1>3. RwSetOK(s, pendingRwSets[s][id])
  BY <1>1, RwSetShape DEF Locks
<1>4. rw.addr \in Addrs /\ AddressToShard[rw.addr] = s /\ DOMAIN rw.reads \subseteq Slots
  BY <1>3, ZenonT(60) DEF RwSetOK
<1>. QED  BY <1>1, <1>2, <1>4, ZenonT(60) DEF Locks

\* A write set touches only what its own transaction has locked.
LEMMA WritesKeepReads ==
  ASSUME SimulatedRwSets, ShardsInv, NEW s \in Shards, NEW tx, EntryOK(s, tx), Writes(tx),
         ApplyWriteSet(tx.rwSet), processedCommits' = processedCommits,
         bypassed \subseteq bypassed',
         NEW r \in Shards, NEW id \in DOMAIN pendingRwSets[r],
         NEW rw \in pendingRwSets[r][id], NEW slot \in DOMAIN rw.reads,
         Stable(r, id, rw, slot)
  PROVE  Stable(r, id, rw, slot)'
<1>1. /\ rw.addr \in Addrs /\ AddressToShard[rw.addr] = r /\ slot \in Slots
      /\ slotLocks[r][<<rw.addr, slot>>] = id
  BY KeptIsLocked, SMTT(60)
<1>2. /\ tx.id \in DOMAIN pendingRwSets[s] /\ pendingRwSets[s][tx.id] = tx.rwSet
      /\ tx.id \in processedCommits[s]
  BY ZenonT(60) DEF EntryOK, Writes
<1>3. Simulated(tx.rwSet)
  <2>1. Locks(s)
    BY ZenonT(60) DEF ShardsInv, ShardInv
  <2>2. \E t \in CrossShardTx : tx.rwSet = LocalRwSet(s, t.rwSet)
    BY <1>2, <2>1 DEF Locks
  <2>. QED  BY <2>2, SimulatedShape, Zenon
<1>4. CASE storage'[rw.addr][slot] = storage[rw.addr][slot]
  BY <1>4, ZenonT(60) DEF Stable
<1>5. ASSUME NEW w \in tx.rwSet, w.addr = rw.addr, slot \in DOMAIN w.writes,
             storage'[rw.addr][slot] = w.writes[slot]
      PROVE  Stable(r, id, rw, slot)'
  <2>1. slot \in DOMAIN w.reads
    BY <1>3, <1>5, ZenonT(60) DEF Simulated
  <2>2. AddressToShard[w.addr] = s /\ slotLocks[s][<<w.addr, slot>>] = tx.id
    BY <1>2, <2>1, KeptIsLocked
  <2>3. r = s /\ id = tx.id
    BY <1>1, <1>5, <2>2, ZenonT(60)
  <2>4. rw \in tx.rwSet
    BY <1>2, <2>3, ZenonT(60)
  <2>5. w = rw
    BY <1>3, <1>5, <2>4, ZenonT(60) DEF Simulated
  <2>. QED  BY <1>2, <1>5, <2>3, <2>5, ZenonT(60) DEF Stable
<1>6. \/ storage'[rw.addr][slot] = storage[rw.addr][slot]
      \/ \E w \in tx.rwSet : /\ w.addr = rw.addr /\ slot \in DOMAIN w.writes
                            /\ storage'[rw.addr][slot] = w.writes[slot]
  BY <1>1, WriteSetResult, SMTT(60)
<1>. QED  BY <1>4, <1>5, <1>6, ZenonT(60)

\* A local transaction writes no locked slot of the two addresses that it names, and
\* those that a nested call writes are in bypassed.
LEMMA LocalKeepsReads ==
  ASSUME ShardsInv, AccountTypes, NEW s \in Shards, NEW tx \in Entry(s), tx.type = "",
         LocalTxRuns(s, tx), ExecuteLocalTx(tx), processedCommits' = processedCommits,
         bypassed' = bypassed \cup NestedWrites(s, tx),
         NEW r \in Shards, NEW id \in DOMAIN pendingRwSets[r],
         NEW rw \in pendingRwSets[r][id], NEW slot \in DOMAIN rw.reads,
         Stable(r, id, rw, slot)
  PROVE  Stable(r, id, rw, slot)'
<1>1. /\ rw.addr \in Addrs /\ AddressToShard[rw.addr] = r /\ slot \in Slots
      /\ <<rw.addr, slot>> \in DOMAIN slotLocks[r]
  BY KeptIsLocked, ZenonT(60)
<1>. DEFINE k == <<rw.addr, slot>>
<1>2. k[1] = rw.addr
  BY Zenon
<1>3. CASE k \in tx.writes
  <2>1. tx \in LocalTxs /\ AddressToShard[tx.to] = s
    BY EntryShape, ZenonT(60)
  <2>2. AddressToShard[k[1]] = AddressToShard[tx.to]
    BY <1>3, <2>1, TwoPhaseAssumption, ZenonT(60)
  <2>3. r = s /\ k \in DOMAIN slotLocks[s]
    BY <1>1, <1>2, <2>1, <2>2, ZenonT(60)
  <2>4. IsAddressLocked(s, k[1])
    BY <2>3, ZenonT(60) DEF IsAddressLocked
  <2>5. k[1] # tx.from /\ k[1] # tx.to
    BY <2>4, ZenonT(60) DEF LocalTxRuns
  <2>. HIDE DEF k
  <2>6. k \in bypassed'
    BY <1>3, <2>3, <2>5, ZenonT(60) DEF NestedWrites
  <2>. QED  BY <2>6, ZenonT(60) DEF Stable, k
<1>4. CASE k \notin tx.writes
  <2>1. storage'[rw.addr][slot] = storage[rw.addr][slot]
    BY <1>1, <1>4, ZenonT(60) DEF ExecuteLocalTx
  <2>. QED  BY <2>1, ZenonT(60) DEF Stable
<1>. QED  BY <1>3, <1>4, ZenonT(60)

\* The history of bypassed locks grows.
LEMMA BypassedGrows ==
  ASSUME [Next]_vars
  PROVE  bypassed \subseteq bypassed'
<1>1. ASSUME NEW id, NEW req, StartSimulation(id, req) PROVE bypassed' = bypassed
  BY <1>1, ZenonT(60) DEF StartSimulation, localVars
<1>2. ASSUME NEW id, SimulationSucceeds(id) \/ SimulationFails(id) PROVE bypassed' = bypassed
  BY <1>2, ZenonT(60) DEF SimulationSucceeds, SimulationFails, localVars
<1>3. ASSUME NEW id, NEW k, FetchSlot(id, k) PROVE bypassed' = bypassed
  BY <1>3, ZenonT(60) DEF FetchSlot, localVars
<1>4. ASSUME NEW b, Produce \/ DeliverVote(b) PROVE bypassed' = bypassed
  BY <1>4, ZenonT(60) DEF Produce, DeliverVote, localVars
<1>5. ASSUME NEW s, HandleResult(s) \/ HandleOrder(s) \/ HandleEnd(s) \/ HandlerAddsTx(s)
                      \/ BeginShardBlock(s) \/ EndShardBlock(s)
      PROVE  bypassed' = bypassed
  BY <1>5, ZenonT(60) DEF HandleResult, HandleOrder, HandleEnd, HandlerAddsTx, BeginShardBlock,
         EndShardBlock, localVars
<1>6. ASSUME NEW s, NEW tx, ClientChecksLocal(s, tx) \/ ClientQueuesLocal(s, tx)
      PROVE  bypassed' = bypassed
  BY <1>6, ZenonT(60) DEF ClientChecksLocal, ClientQueuesLocal
<1>7. ASSUME NEW s, RunTx(s) PROVE bypassed \subseteq bypassed'
  BY <1>7, ZenonT(60) DEF RunTx
<1>8. UNCHANGED vars => bypassed' = bypassed
  BY ZenonT(60) DEF vars, localVars
<1>9. ASSUME NEW s, BusyStep(s) PROVE bypassed \subseteq bypassed'
  BY <1>5, <1>6, <1>7, <1>9, ZenonT(60) DEF BusyStep
<1>10. IdleStep => bypassed \subseteq bypassed'
  BY <1>1, <1>2, <1>4, <1>5, <1>6, ZenonT(60) DEF IdleStep
<1>. QED  BY <1>3, <1>4, <1>8, <1>9, <1>10, ZenonT(60) DEF Next

LEMMA LockedReadsNext ==
  ASSUME SimulatedRwSets, ShardsInv, AccountTypes, LockedReadsStable, [Next]_vars
  PROVE  LockedReadsStable'
<1>0. \A s \in Shards : \A id \in DOMAIN pendingRwSets[s] :
        \A rw \in pendingRwSets[s][id] : \A slot \in DOMAIN rw.reads : Stable(s, id, rw, slot)
  BY Zenon DEF LockedReadsStable, Stable
<1>. SUFFICES ASSUME NEW r \in Shards, NEW id \in DOMAIN pendingRwSets'[r],
                     NEW rw \in pendingRwSets'[r][id], NEW slot \in DOMAIN rw.reads
              PROVE  Stable(r, id, rw, slot)'
  BY Zenon DEF LockedReadsStable, Stable
<1>. DEFINE Kept == id \in DOMAIN pendingRwSets[r] /\ pendingRwSets'[r][id] = pendingRwSets[r][id]
<1>1. Kept => id \in DOMAIN pendingRwSets[r] /\ rw \in pendingRwSets[r][id] /\ Stable(r, id, rw, slot)
  BY <1>0, ZenonT(60)
<1>b. bypassed \subseteq bypassed'
  BY BypassedGrows
<1>2. ASSUME Kept, UNCHANGED accounts, processedCommits[r] \subseteq processedCommits'[r]
      PROVE  Stable(r, id, rw, slot)'
  BY <1>1, <1>2, <1>b, ZenonT(60) DEF Stable, accounts
<1>3. ASSUME NEW s \in Shards, RunTx(s) PROVE Stable(r, id, rw, slot)'
  <2>1. PICK tx \in Entry(s) :
          /\ EntryOK(s, tx) /\ processedCommits' = processedCommits
          /\ \A q \in Shards : q # s => pendingRwSets'[q] = pendingRwSets[q]
          /\ \/ storage' = storage /\ pendingRwSets'[s] = pendingRwSets[s]
             \/ /\ Writes(tx) /\ ApplyWriteSet(tx.rwSet)
                /\ pendingRwSets'[s] \in {pendingRwSets[s], Del(pendingRwSets[s], tx.id)}
             \/ storage' = storage /\ pendingRwSets'[s] = Del(pendingRwSets[s], tx.id)
             \/ /\ CanLockReadSet(s, tx.id, tx.rwSet) /\ storage' = storage
                /\ pendingRwSets'[s] = Put(pendingRwSets[s], tx.id, tx.rwSet)
             \/ /\ tx.type = "" /\ pendingRwSets'[s] = pendingRwSets[s]
                /\ LocalTxRuns(s, tx) /\ ExecuteLocalTx(tx)
                /\ bypassed' = bypassed \cup NestedWrites(s, tx)
    BY <1>3, RunTxCases, ZenonT(60) DEF accounts
  <2>2. ASSUME Kept, storage' = storage PROVE Stable(r, id, rw, slot)'
    BY <1>1, <1>b, <2>1, <2>2, ZenonT(60) DEF Stable
  <2>3. pendingRwSets'[s] \in {pendingRwSets[s], Del(pendingRwSets[s], tx.id)} => Kept
    BY <2>1, ZenonT(60) DEF Del
  <2>4. CASE Writes(tx) /\ ApplyWriteSet(tx.rwSet)
              /\ pendingRwSets'[s] \in {pendingRwSets[s], Del(pendingRwSets[s], tx.id)}
    BY <1>1, <1>b, <2>1, <2>3, <2>4, WritesKeepReads, ZenonT(60)
  <2>5. CASE /\ CanLockReadSet(s, tx.id, tx.rwSet) /\ storage' = storage
             /\ pendingRwSets'[s] = Put(pendingRwSets[s], tx.id, tx.rwSet)
    <3>1. CASE r = s /\ id = tx.id
      <4>1. rw \in tx.rwSet
        BY <2>5, <3>1, ZenonT(60) DEF Put
      <4>. QED  BY <2>5, <4>1, ZenonT(60) DEF CanLockReadSet, Stable
    <3>2. CASE ~(r = s /\ id = tx.id)
      <4>1. Kept
        BY <2>1, <2>5, <3>2, SMTT(60) DEF Put
      <4>. QED  BY <2>2, <2>5, <4>1, ZenonT(60)
    <3>. QED  BY <3>1, <3>2, ZenonT(60)
  <2>6. CASE /\ tx.type = "" /\ pendingRwSets'[s] = pendingRwSets[s]
             /\ LocalTxRuns(s, tx) /\ ExecuteLocalTx(tx)
             /\ bypassed' = bypassed \cup NestedWrites(s, tx)
    BY <1>1, <2>1, <2>3, <2>6, LocalKeepsReads, ZenonT(60)
  <2>. QED  BY <2>1, <2>2, <2>3, <2>4, <2>5, <2>6, ZenonT(60)
<1>. QED  BY <1>2, <1>3, AccountsChange, ZenonT(60)
=============================================================================
