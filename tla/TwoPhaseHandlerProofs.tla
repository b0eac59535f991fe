----------------------- MODULE TwoPhaseHandlerProofs ------------------------
(***************************************************************************)
(* Proofs about the cross-shard protocol, first part: the invariant of a   *)
(* shard, and that the handler of orchestrator blocks and the clients keep *)
(* it.                                                                     *)
(*                                                                         *)
(* ShardInv says of a shard in which order the entries of a transaction are *)
(* queued (Queues), that every RwSet that is kept is locked (Locks), what  *)
(* each queued entry relies on (Entries), and what a YES vote promises until *)
(* its result is processed (Promises).  It needs little of the             *)
(* orchestrator's chain, OrdersSound, and nothing of the other shards.     *)
(***************************************************************************)
EXTENDS TwoPhase, TLAPS
-----------------------------------------------------------------------------
(* The invariant.                                                          *)

\* What a shard may have queued: a Lock of a transaction, the effects of a result, a
\* local transaction.
Entry(s) ==
  {tx \in LocalTxs : AddressToShard[tx.to] = s}
    \cup {LockTx(s, tx) : tx \in CrossShardTx}
    \cup [type : {"cross_debit"}, id : TxIDs, from : Addrs, value : Nat]
    \cup [type : {"cross_credit"}, id : TxIDs, to : Addrs, value : Nat]
    \cup [type : {"cross_writeset", "finalize"}, id : TxIDs,
          rwSet : {LocalRwSet(s, tx.rwSet) : tx \in CrossShardTx}]
    \cup [type : {"unlock", "cross_abort"}, id : TxIDs]

In(e, q) == \E i \in 1..Len(q) : q[i] = e

\* The entry is queued, or about to be.
Waiting(s, e) == In(e, sortedTxs[s]) \/ In(e, currentTxs[s]) \/ In(e, adding[s])

\* Entry e must not come before entry f.  A Lock is queued once and not together
\* with the write set that it validated, which is applied before the locks are
\* dropped.
Writes(e) == e.type \in {"cross_writeset", "finalize"}
Bad(e, f) ==
  /\ e.type # "" /\ f.type # "" /\ e.id = f.id
  /\ \/ e.type = "lock" /\ (f.type = "lock" \/ Writes(f))
     \/ Writes(e) /\ f.type = "lock"
     \/ e.type \in {"unlock", "cross_abort", "finalize"} /\ Writes(f)

InOrder(q) == \A i, j \in 1..Len(q) : i < j => ~Bad(q[i], q[j])
Before(p, q) == \A i \in 1..Len(p), j \in 1..Len(q) : ~Bad(p[i], q[j])

\* The shard has gone through the order of the transaction.
Handled(s, id) ==
  \E h \in 1..height : \E i \in 1..Len(blocks[h].ctToOrder) :
    /\ blocks[h].ctToOrder[i].id = id
    /\ \/ h <= lastOrchestratorHeight[s]
       \/ h = lastOrchestratorHeight[s] + 1 /\ i <= ordersDone[s]

\* The shard has voted YES, whether or not the vote has been delivered.
VotedYes(s, id) ==
  \/ id \in DOMAIN prepares[s] /\ prepares[s][id] = TRUE
  \/ [id |-> id, shard |-> s, vote |-> TRUE] \in voteNet \cup ballots

\* What a YES vote promises.
Holds(s, tx) ==
  /\ tx.id \in DOMAIN pendingRwSets[s]
  /\ pendingRwSets[s][tx.id] = LocalRwSet(s, tx.rwSet)
  /\ (s = tx.fromShard /\ tx.value > 0) =>
       tx.id \in DOMAIN locked[s] /\ locked[s][tx.id] = [addr |-> tx.from, amount |-> tx.value]

Domains ==
  /\ DOMAIN currentTxs = Shards /\ DOMAIN adding = Shards /\ DOMAIN sortedTxs = Shards
  /\ DOMAIN executing = Shards /\ DOMAIN prepares = Shards /\ DOMAIN locked = Shards
  /\ DOMAIN pendingCredits = Shards /\ DOMAIN pendingCalls = Shards
  /\ DOMAIN slotLocks = Shards /\ DOMAIN pendingRwSets = Shards
  /\ DOMAIN processedCommits = Shards /\ DOMAIN lastOrchestratorHeight = Shards
  /\ DOMAIN ordersDone = Shards

\* What a shard relies on: a block orders no ID that another block orders, and a
\* commit had the YES of every involved shard.
OrdersSound ==
  /\ ChainTypeOK
  /\ \A h, k \in 1..height : \A tx, ty \in CrossShardTx :
       OrderedIn(tx, h) /\ OrderedIn(ty, k) /\ tx.id = ty.id => h = k /\ tx = ty
  /\ \A h \in 1..height : \A tx \in CrossShardTx :
       OrderedIn(tx, h) /\ Result(tx.id, TRUE) => Unanimous(tx)

\* Blocks order no ID twice.
OrderedOnce ==
  \A h \in 1..height : \A i, j \in 1..Len(blocks[h].ctToOrder) :
    blocks[h].ctToOrder[i].id = blocks[h].ctToOrder[j].id => i = j

Queues(s) ==
  /\ sortedTxs[s] \in Seq(Entry(s))
  /\ currentTxs[s] \in Seq(Entry(s))
  /\ adding[s] \in Seq(Entry(s))
  /\ ~executing[s] => sortedTxs[s] = <<>>
  /\ InOrder(sortedTxs[s]) /\ InOrder(currentTxs[s]) /\ InOrder(adding[s])
  /\ Before(sortedTxs[s], currentTxs[s])
  /\ Before(sortedTxs[s], adding[s])
  /\ Before(currentTxs[s], adding[s])

\* What is held for transactions.
Data(s) ==
  /\ processedCommits[s] \subseteq TxIDs
  /\ DOMAIN prepares[s] \subseteq TxIDs /\ prepares[s] \in [DOMAIN prepares[s] -> BOOLEAN]
  /\ DOMAIN locked[s] \subseteq TxIDs
  /\ locked[s] \in [DOMAIN locked[s] -> [addr : Addrs, amount : Nat]]
  /\ DOMAIN pendingCredits[s] \subseteq TxIDs
  /\ \A id \in DOMAIN pendingCredits[s] :
       id \notin processedCommits[s] =>
         pendingCredits[s][id] \in Seq([addr : Addrs, amount : Nat])
  /\ DOMAIN pendingCalls[s] \subseteq TxIDs
  /\ slotLocks[s] \in [DOMAIN slotLocks[s] -> TxIDs]
  /\ DOMAIN pendingRwSets[s] \subseteq TxIDs

\* A call is kept for a transaction that was ordered and involves the shard.
OrderedFor(s, tx) == s \in InvolvedShards(tx) /\ \E h \in 1..height : OrderedIn(tx, h)

Calls(s) ==
  \A id \in DOMAIN pendingCalls[s] :
    \E tx \in CrossShardTx : pendingCalls[s][id] = tx /\ tx.id = id /\ OrderedFor(s, tx)

\* Every RwSet that is kept is locked.
Locks(s) ==
  \A id \in DOMAIN pendingRwSets[s] :
    /\ Handled(s, id)
    /\ \E tx \in CrossShardTx : pendingRwSets[s][id] = LocalRwSet(s, tx.rwSet)
    /\ \A k \in ReadSlots(pendingRwSets[s][id]) :
         k \in DOMAIN slotLocks[s] /\ slotLocks[s][k] = id

Progress(s) ==
  /\ lastOrchestratorHeight[s] \in 0..height
  /\ ordersDone[s] \in Nat
  /\ lastOrchestratorHeight[s] = height => ordersDone[s] = 0

\* A Lock is waiting for a transaction that was ordered and on which the shard has
\* not voted; whatever else is queued for a transaction belongs to its result, and
\* the writes are those that the Lock validated.
EntryOK(s, e) ==
  /\ e.type = "lock" =>
       /\ \E tx \in CrossShardTx : e = LockTx(s, tx) /\ OrderedFor(s, tx)
       /\ Handled(s, e.id) /\ ~VotedYes(s, e.id)
  /\ e.type \notin {"", "lock"} => e.id \in processedCommits[s]
  /\ Writes(e) => e.id \in DOMAIN pendingRwSets[s] /\ pendingRwSets[s][e.id] = e.rwSet

Entries(s) == \A e : Waiting(s, e) => EntryOK(s, e)

Promises(s) ==
  /\ \A id : VotedYes(s, id) => Handled(s, id)
  /\ \A tx \in CrossShardTx : \A h \in 1..height :
       OrderedIn(tx, h) /\ s \in InvolvedShards(tx) /\ VotedYes(s, tx.id)
         /\ tx.id \notin processedCommits[s] => Holds(s, tx)

ShardInv(s) ==
  Queues(s) /\ Data(s) /\ Calls(s) /\ Locks(s) /\ Progress(s) /\ Entries(s) /\ Promises(s)

ShardsInv ==
  /\ Domains
  /\ \A tx \in localChecked : AddressToShard[tx.to] = AddressToShard[tx.from]
  /\ \A s \in Shards : ShardInv(s)
-----------------------------------------------------------------------------
(* Queues.                                                                 *)

LEMMA BeforeElements ==
  ASSUME NEW p, NEW q
  PROVE  Before(p, q) <=> \A e, f : In(e, p) /\ In(f, q) => ~Bad(e, f)
  BY Zenon DEF Before, In

LEMMA InTail ==
  ASSUME NEW S, NEW q \in Seq(S), q # <<>>, InOrder(q)
  PROVE  /\ In(Head(q), q) /\ Head(q) \in S
         /\ Tail(q) \in Seq(S) /\ InOrder(Tail(q))
         /\ \A f : In(f, Tail(q)) => In(f, q) /\ ~Bad(Head(q), f)
<1>1. Len(q) \in Nat /\ Len(q) >= 1 /\ Head(q) = q[1] /\ Head(q) \in S
  OBVIOUS
<1>2. /\ Tail(q) \in Seq(S) /\ Len(Tail(q)) = Len(q) - 1
      /\ \A i \in 1..Len(Tail(q)) : Tail(q)[i] = q[i + 1]
  OBVIOUS
<1>3. InOrder(Tail(q))
  BY <1>1, <1>2 DEF InOrder
<1>4. ASSUME NEW f, In(f, Tail(q)) PROVE In(f, q) /\ ~Bad(Head(q), f)
  <2>1. PICK i \in 1..Len(Tail(q)) : Tail(q)[i] = f
    BY <1>4 DEF In
  <2>2. i + 1 \in 1..Len(q) /\ 1 \in 1..Len(q) /\ 1 < i + 1 /\ q[i + 1] = f
    BY <1>1, <1>2, <2>1
  <2>. QED  BY <1>1, <2>2 DEF In, InOrder
<1>. QED  BY <1>1, <1>2, <1>3, <1>4 DEF In

LEMMA InConcat ==
  ASSUME NEW S, NEW p \in Seq(S), NEW q \in Seq(S), InOrder(p), InOrder(q), Before(p, q)
  PROVE  /\ p \o q \in Seq(S) /\ InOrder(p \o q)
         /\ \A f : In(f, p \o q) => In(f, p) \/ In(f, q)
<1>1. /\ p \o q \in Seq(S) /\ Len(p \o q) = Len(p) + Len(q)
      /\ Len(p) \in Nat /\ Len(q) \in Nat
  OBVIOUS
<1>2. ASSUME NEW i \in 1..Len(p \o q)
      PROVE  \/ i \in 1..Len(p) /\ (p \o q)[i] = p[i]
             \/ i - Len(p) \in 1..Len(q) /\ (p \o q)[i] = q[i - Len(p)]
  BY <1>1
<1>3. ASSUME NEW i \in 1..Len(p \o q), NEW j \in 1..Len(p \o q), i < j
      PROVE  ~Bad((p \o q)[i], (p \o q)[j])
  <2>1. CASE j \in 1..Len(p)
    BY <1>1, <1>2, <1>3, <2>1 DEF InOrder
  <2>2. CASE j \notin 1..Len(p) /\ i \in 1..Len(p)
    <3>1. j - Len(p) \in 1..Len(q) /\ (p \o q)[j] = q[j - Len(p)] /\ (p \o q)[i] = p[i]
      BY <1>1, <1>2, <2>2
    <3>. QED  BY <2>2, <3>1 DEF Before
  <2>3. CASE i \notin 1..Len(p)
    <3>1. /\ j - Len(p) \in 1..Len(q) /\ (p \o q)[j] = q[j - Len(p)]
          /\ i - Len(p) \in 1..Len(q) /\ (p \o q)[i] = q[i - Len(p)]
      BY <1>1, <1>2, <1>3, <2>3, SMTT(60)
    <3>2. i - Len(p) < j - Len(p)
      BY <1>1, <1>3
    <3>. QED  BY <3>1, <3>2, Zenon DEF InOrder
  <2>. QED  BY <2>1, <2>2, <2>3
<1>4. InOrder(p \o q)
  BY <1>3 DEF InOrder
<1>5. \A f : In(f, p \o q) => In(f, p) \/ In(f, q)
  BY <1>2 DEF In
<1>. QED  BY <1>1, <1>4, <1>5

LEMMA InSingle ==
  ASSUME NEW S, NEW x \in S
  PROVE  /\ <<x>> \in Seq(S) /\ InOrder(<<x>>)
         /\ \A f : In(f, <<x>>) <=> f = x
  BY DEF InOrder, In

LEMMA InEmpty ==
  ASSUME NEW S
  PROVE  <<>> \in Seq(S) /\ InOrder(<<>>) /\ \A f : ~In(f, <<>>)
  BY DEF InOrder, In

LEMMA InAppend ==
  ASSUME NEW S, NEW q \in Seq(S), NEW x \in S, InOrder(q), \A e : In(e, q) => ~Bad(e, x)
  PROVE  /\ Append(q, x) \in Seq(S) /\ InOrder(Append(q, x))
         /\ \A f : In(f, Append(q, x)) => In(f, q) \/ f = x
<1>1. <<x>> \in Seq(S) /\ InOrder(<<x>>) /\ \A f : In(f, <<x>>) <=> f = x
  BY InSingle
<1>2. Before(q, <<x>>)
  BY <1>1, BeforeElements, Zenon
<1>3. Append(q, x) = q \o <<x>>
  OBVIOUS
<1>4. /\ q \o <<x>> \in Seq(S) /\ InOrder(q \o <<x>>)
      /\ \A f : In(f, q \o <<x>>) => In(f, q) \/ In(f, <<x>>)
  BY <1>1, <1>2, InConcat, ZenonT(60)
<1>. QED  BY <1>1, <1>3, <1>4, Zenon

LEMMA PriorityIsNat ==
  ASSUME NEW type
  PROVE  Priority(type) \in 1..5
  BY DEF Priority

\* What must not come first does not: where the sort swaps two entries, the one of
\* higher priority may come first.
LEMMA BadSwapped ==
  ASSUME NEW e, NEW f, Bad(e, f), Priority(e.type) < Priority(f.type)
  PROVE  Bad(f, e)
<1>1. \A x : Writes(x) => Priority(x.type) = 1
  BY DEF Writes, Priority
<1>2. \A x : x.type = "lock" => Priority(x.type) = 3
  BY DEF Priority
<1>3. Priority(e.type) \in 1..5 /\ Priority(f.type) \in 1..5
  BY PriorityIsNat
<1>4. ~(e.type = "lock" /\ (f.type = "lock" \/ Writes(f)))
  BY <1>1, <1>2
<1>5. ~Writes(f)
  BY <1>1, <1>3
<1>. QED  BY <1>4, <1>5 DEF Bad

-----------------------------------------------------------------------------
(* What a step keeps.                                                      *)

LEMMA SameHandled ==
  ASSUME NEW s, blocks' = blocks,
         lastOrchestratorHeight'[s] = lastOrchestratorHeight[s], ordersDone'[s] = ordersDone[s]
  PROVE  \A id : Handled(s, id) <=> Handled(s, id)'
  BY DEF Handled, height

LEMMA SameVotes ==
  ASSUME NEW s, prepares'[s] = prepares[s], voteNet' = voteNet, ballots' = ballots
  PROVE  \A id : VotedYes(s, id) <=> VotedYes(s, id)'
  BY DEF VotedYes

LEMMA SameOrders ==
  ASSUME blocks' = blocks
  PROVE  /\ height' = height
         /\ \A tx, h : OrderedIn(tx, h) <=> OrderedIn(tx, h)'
         /\ \A s, tx : OrderedFor(s, tx) <=> OrderedFor(s, tx)'
<1>1. height' = height
  BY DEF height
<1>2. \A tx, h : OrderedIn(tx, h) <=> OrderedIn(tx, h)'
  BY <1>1, Zenon DEF OrderedIn
<1>. QED  BY <1>1, <1>2, Zenon DEF OrderedFor

\* The step takes back nothing that the shard has handled, and gives no vote.
Keeps(s) ==
  /\ \A id : Handled(s, id) => Handled(s, id)'
  /\ \A id : VotedYes(s, id)' => VotedYes(s, id)
  /\ \A tx : OrderedFor(s, tx) => OrderedFor(s, tx)'
  /\ processedCommits[s] \subseteq processedCommits'[s]

SameRwSet(s, id) ==
  id \in DOMAIN pendingRwSets[s] =>
    id \in DOMAIN pendingRwSets'[s] /\ pendingRwSets'[s][id] = pendingRwSets[s][id]

SameFunds(s, id) ==
  id \in DOMAIN locked[s] => id \in DOMAIN locked'[s] /\ locked'[s][id] = locked[s][id]

LEMMA EntryKept ==
  ASSUME NEW s, NEW e, EntryOK(s, e), Keeps(s), Writes(e) => SameRwSet(s, e.id)
  PROVE  EntryOK(s, e)'
<1>1. ASSUME e.type = "lock"
      PROVE  /\ \E tx \in CrossShardTx : e = LockTx(s, tx) /\ OrderedFor(s, tx)'
             /\ Handled(s, e.id)' /\ ~VotedYes(s, e.id)'
  BY <1>1, Zenon DEF EntryOK, Keeps
<1>2. e.type \notin {"", "lock"} => e.id \in processedCommits'[s]
  BY Zenon DEF EntryOK, Keeps
<1>3. Writes(e) => e.id \in DOMAIN pendingRwSets'[s] /\ pendingRwSets'[s][e.id] = e.rwSet
  BY DEF EntryOK, SameRwSet
<1>. QED  BY <1>1, <1>2, <1>3, ZenonT(60) DEF EntryOK

LEMMA EntriesKept ==
  ASSUME NEW s, Entries(s), Keeps(s),
         \A e : Waiting(s, e)' => Waiting(s, e) /\ (Writes(e) => SameRwSet(s, e.id))
  PROVE  Entries(s)'
<1>1. ASSUME NEW e, Waiting(s, e)' PROVE EntryOK(s, e)'
  BY <1>1, EntryKept, Zenon DEF Entries
<1>. QED  BY <1>1, Zenon DEF Entries

LEMMA PromisesKept ==
  ASSUME NEW s, Promises(s), Keeps(s),
         \A tx \in CrossShardTx : \A h \in 1..height' :
           OrderedIn(tx, h)' /\ VotedYes(s, tx.id) => h \in 1..height /\ OrderedIn(tx, h),
         \A id : id \notin processedCommits'[s] => SameRwSet(s, id) /\ SameFunds(s, id)
  PROVE  Promises(s)'
<1>1. \A id : VotedYes(s, id)' => Handled(s, id)'
  BY Zenon DEF Promises, Keeps
<1>2. ASSUME NEW tx \in CrossShardTx, NEW h \in 1..height', OrderedIn(tx, h)',
             s \in InvolvedShards(tx), VotedYes(s, tx.id)', tx.id \notin processedCommits'[s]
      PROVE  Holds(s, tx)'
  <2>1. /\ VotedYes(s, tx.id) /\ tx.id \notin processedCommits[s]
        /\ SameRwSet(s, tx.id) /\ SameFunds(s, tx.id)
    BY <1>2, Zenon DEF Keeps
  <2>2. Holds(s, tx)
    BY <1>2, <2>1, Zenon DEF Promises
  <2>. QED  BY <2>1, <2>2, ZenonT(60) DEF Holds, SameRwSet, SameFunds
<1>. QED  BY <1>1, <1>2, Zenon DEF Promises

LEMMA LocksKept ==
  ASSUME NEW s, Locks(s), \A id : Handled(s, id) => Handled(s, id)',
         \A id \in DOMAIN pendingRwSets'[s] :
           id \in DOMAIN pendingRwSets[s] /\ pendingRwSets'[s][id] = pendingRwSets[s][id],
         \A k \in DOMAIN slotLocks[s] :
           slotLocks[s][k] \in DOMAIN pendingRwSets'[s] =>
             k \in DOMAIN slotLocks'[s] /\ slotLocks'[s][k] = slotLocks[s][k]
  PROVE  Locks(s)'
<1>1. ASSUME NEW id \in DOMAIN pendingRwSets'[s]
      PROVE  /\ Handled(s, id)'
             /\ \E tx \in CrossShardTx : pendingRwSets'[s][id] = LocalRwSet(s, tx.rwSet)
             /\ \A k \in ReadSlots(pendingRwSets'[s][id]) :
                  k \in DOMAIN slotLocks'[s] /\ slotLocks'[s][k] = id
  BY <1>1 DEF Locks
<1>. QED  BY <1>1, Zenon DEF Locks

\* The shard takes no part in the step.
SameQueues(s) ==
  /\ sortedTxs'[s] = sortedTxs[s] /\ currentTxs'[s] = currentTxs[s]
  /\ adding'[s] = adding[s] /\ executing'[s] = executing[s]

SameData(s) ==
  /\ locked'[s] = locked[s] /\ pendingCredits'[s] = pendingCredits[s]
  /\ pendingCalls'[s] = pendingCalls[s] /\ slotLocks'[s] = slotLocks[s]
  /\ pendingRwSets'[s] = pendingRwSets[s]

SameProgress(s) ==
  /\ lastOrchestratorHeight'[s] = lastOrchestratorHeight[s] /\ ordersDone'[s] = ordersDone[s]

SameShard(s) ==
  /\ SameQueues(s) /\ SameData(s) /\ SameProgress(s)
  /\ processedCommits'[s] = processedCommits[s] /\ prepares'[s] = prepares[s]

LEMMA QueuesSame ==
  ASSUME NEW s, Queues(s), SameQueues(s)
  PROVE  Queues(s)' /\ \A e : Waiting(s, e)' <=> Waiting(s, e)
<1>1. Queues(s)'
  BY Zenon DEF Queues, SameQueues
<1>2. \A e : Waiting(s, e)' <=> Waiting(s, e)
  BY Zenon DEF Waiting, SameQueues, In
<1>. QED  BY <1>1, <1>2

LEMMA ShardUntouched ==
  ASSUME NEW s, ShardInv(s), SameShard(s), blocks' = blocks,
         \A id : VotedYes(s, id)' => VotedYes(s, id)
  PROVE  ShardInv(s)'
<1>1. /\ SameQueues(s) /\ SameData(s) /\ SameProgress(s)
      /\ processedCommits'[s] = processedCommits[s] /\ prepares'[s] = prepares[s]
  BY Zenon DEF SameShard
<1>2. Queues(s)' /\ \A e : Waiting(s, e)' <=> Waiting(s, e)
  BY <1>1, QueuesSame DEF ShardInv
<1>3. Data(s)'
  BY <1>1, Zenon DEF ShardInv, Data, SameData
<1>4. Calls(s)'
  BY <1>1, SameOrders, SMTT(60) DEF ShardInv, Calls, SameData
<1>5. \A id : Handled(s, id) <=> Handled(s, id)'
  BY <1>1, SameHandled, Zenon DEF SameProgress
<1>6. Locks(s)'
  BY <1>1, <1>5, LocksKept, ZenonT(60) DEF ShardInv, SameData
<1>7. Progress(s)'
  BY <1>1, SameOrders, ZenonT(60) DEF ShardInv, Progress, SameProgress
<1>8. Keeps(s)
  BY <1>1, <1>5, SameOrders, SMTT(60) DEF Keeps
<1>9. \A id : SameRwSet(s, id) /\ SameFunds(s, id)
  BY <1>1, Zenon DEF SameRwSet, SameFunds, SameData
<1>10. Entries(s)'
  BY <1>2, <1>8, <1>9, EntriesKept, ZenonT(60) DEF ShardInv
<1>11. Promises(s)'
  BY <1>8, <1>9, SameOrders, PromisesKept, ZenonT(60) DEF ShardInv
<1>. QED  BY <1>2, <1>3, <1>4, <1>6, <1>7, <1>10, <1>11, ZenonT(60) DEF ShardInv

LEMMA DataSame ==
  ASSUME NEW s, ShardInv(s), SameData(s), blocks' = blocks, prepares'[s] = prepares[s],
         processedCommits'[s] = processedCommits[s],
         \A id : Handled(s, id) => Handled(s, id)'
  PROVE  /\ Data(s)' /\ Calls(s)' /\ Locks(s)'
         /\ \A id : SameRwSet(s, id) /\ SameFunds(s, id)
<1>1. Data(s)'
  BY Zenon DEF ShardInv, Data, SameData
<1>2. Calls(s)'
  BY SameOrders, SMTT(60) DEF ShardInv, Calls, SameData
<1>3. Locks(s)'
  BY LocksKept, Zenon DEF ShardInv, SameData
<1>4. \A id : SameRwSet(s, id) /\ SameFunds(s, id)
  BY Zenon DEF SameRwSet, SameFunds, SameData
<1>. QED  BY <1>1, <1>2, <1>3, <1>4, SMTT(60)

\* A step of the shard that gives no vote.
LEMMA ShardStep ==
  ASSUME NEW s, ShardInv(s), blocks' = blocks, Keeps(s),
         Queues(s)', Data(s)', Calls(s)', Locks(s)', Progress(s)',
         \A e : Waiting(s, e)' =>
           (Waiting(s, e) /\ (Writes(e) => SameRwSet(s, e.id))) \/ EntryOK(s, e)',
         \A id : id \notin processedCommits'[s] => SameRwSet(s, id) /\ SameFunds(s, id)
  PROVE  ShardInv(s)'
<1>1. Entries(s)'
  <2>1. ASSUME NEW e, Waiting(s, e)' PROVE EntryOK(s, e)'
    BY <2>1, EntryKept, ZenonT(60) DEF ShardInv, Entries
  <2>. QED  BY <2>1, Zenon DEF Entries
<1>2. Promises(s)'
  BY SameOrders, PromisesKept, ZenonT(60) DEF ShardInv
<1>. QED  BY <1>1, <1>2, ZenonT(60) DEF ShardInv

\* The step leaves the chain and the votes alone, and this shard's progress.
LEMMA KeepsAll ==
  ASSUME NEW s, blocks' = blocks, ballots' = ballots, voteNet' = voteNet,
         prepares'[s] = prepares[s], SameProgress(s),
         processedCommits[s] \subseteq processedCommits'[s], Progress(s)
  PROVE  Keeps(s) /\ Progress(s)'
<1>1. \A id : Handled(s, id) => Handled(s, id)'
  BY SameHandled, Zenon DEF SameProgress
<1>2. \A id : VotedYes(s, id)' => VotedYes(s, id)
  BY SameVotes, Zenon
<1>3. \A tx : OrderedFor(s, tx) => OrderedFor(s, tx)'
  BY SameOrders, SMTT(60)
<1>4. Progress(s)'
  BY SameOrders, Zenon DEF Progress, SameProgress
<1>. QED  BY <1>1, <1>2, <1>3, <1>4, ZenonT(60) DEF Keeps

\* AddTx moves an entry from the handler to the queue.
LEMMA AddTxInv ==
  ASSUME NEW s \in Shards, Domains, ShardInv(s), HandlerAddsTx(s)
  PROVE  ShardInv(s)'
<1>1. /\ ~executing[s] /\ adding[s] # <<>>
      /\ currentTxs'[s] = Append(currentTxs[s], Head(adding[s]))
      /\ adding'[s] = Tail(adding[s])
      /\ executing' = executing /\ sortedTxs' = sortedTxs
  BY Zenon DEF HandlerAddsTx, AddTx, Domains
<1>2. /\ prepares' = prepares /\ processedCommits' = processedCommits
      /\ lastOrchestratorHeight' = lastOrchestratorHeight /\ ordersDone' = ordersDone
      /\ locked' = locked /\ pendingCredits' = pendingCredits /\ pendingCalls' = pendingCalls
      /\ slotLocks' = slotLocks /\ pendingRwSets' = pendingRwSets
      /\ blocks' = blocks /\ ballots' = ballots /\ voteNet' = voteNet
  BY Zenon DEF HandlerAddsTx, AddTx, metadata, chainVars
<1>3. Keeps(s) /\ Progress(s)'
  BY <1>2, KeepsAll, ZenonT(60) DEF ShardInv, SameProgress
<1>4. Data(s)' /\ Calls(s)' /\ Locks(s)' /\ \A id : SameRwSet(s, id) /\ SameFunds(s, id)
  BY <1>2, <1>3, DataSame, ZenonT(60) DEF SameData, Keeps
<1>. DEFINE S == Entry(s)
            sorted == sortedTxs[s]
            current == currentTxs[s]
            a == adding[s]
<1>5. /\ sorted \in Seq(S) /\ current \in Seq(S) /\ a \in Seq(S) /\ sorted = <<>>
      /\ InOrder(sorted) /\ InOrder(current) /\ InOrder(a) /\ Before(current, a)
  BY <1>1, ZenonT(60) DEF ShardInv, Queues
<1>. HIDE DEF S
<1>6. /\ In(Head(a), a) /\ Head(a) \in S
      /\ Tail(a) \in Seq(S) /\ InOrder(Tail(a))
      /\ \A f : In(f, Tail(a)) => In(f, a) /\ ~Bad(Head(a), f)
  BY <1>1, <1>5, InTail, ZenonT(60)
<1>7. \A e : In(e, current) => ~Bad(e, Head(a))
  BY <1>5, <1>6, BeforeElements, ZenonT(60)
<1>8. /\ Append(current, Head(a)) \in Seq(S) /\ InOrder(Append(current, Head(a)))
      /\ \A f : In(f, Append(current, Head(a))) => In(f, current) \/ f = Head(a)
  BY <1>5, <1>6, <1>7, InAppend, ZenonT(60)
<1>9. Before(Append(current, Head(a)), Tail(a))
  BY <1>5, <1>6, <1>8, BeforeElements, ZenonT(60)
<1>10. Before(sorted, Append(current, Head(a))) /\ Before(sorted, Tail(a))
  BY <1>5, SMTT(60) DEF Before
<1>11. Queues(s)'
  BY <1>1, <1>5, <1>6, <1>8, <1>9, <1>10, ZenonT(60) DEF Queues, S
<1>12. \A e : Waiting(s, e)' => Waiting(s, e)
  BY <1>1, <1>6, <1>8, SMTT(60) DEF Waiting
<1>. QED  BY <1>2, <1>3, <1>4, <1>11, <1>12, ShardStep, ZenonT(60)

LEMMA NothingBeforeLocal ==
  ASSUME NEW e, NEW tx, tx.type = ""
  PROVE  ~Bad(e, tx) /\ ~Bad(tx, e)
  BY Zenon DEF Bad

\* A client's local transaction goes to the end of the queue.
LEMMA QueueLocalInv ==
  ASSUME NEW s \in Shards, NEW tx \in LocalTxs, Domains, ShardInv(s),
         \A ty \in localChecked : AddressToShard[ty.to] = AddressToShard[ty.from],
         ClientQueuesLocal(s, tx)
  PROVE  ShardInv(s)'
<1>1. /\ currentTxs'[s] = Append(currentTxs[s], tx) /\ AddressToShard[tx.to] = s
      /\ executing' = executing /\ sortedTxs' = sortedTxs /\ adding' = adding
      /\ ~executing[s]
  BY Zenon DEF ClientQueuesLocal, QueueLocal, handlerVars, Domains
<1>2. /\ prepares' = prepares /\ processedCommits' = processedCommits
      /\ lastOrchestratorHeight' = lastOrchestratorHeight /\ ordersDone' = ordersDone
      /\ locked' = locked /\ pendingCredits' = pendingCredits /\ pendingCalls' = pendingCalls
      /\ slotLocks' = slotLocks /\ pendingRwSets' = pendingRwSets
      /\ blocks' = blocks /\ ballots' = ballots /\ voteNet' = voteNet
  BY Zenon DEF ClientQueuesLocal, QueueLocal, handlerVars, metadata, chainVars
<1>3. Keeps(s) /\ Progress(s)'
  BY <1>2, KeepsAll, ZenonT(60) DEF ShardInv, SameProgress
<1>4. Data(s)' /\ Calls(s)' /\ Locks(s)' /\ \A id : SameRwSet(s, id) /\ SameFunds(s, id)
  BY <1>2, <1>3, DataSame, ZenonT(60) DEF SameData, Keeps
<1>5. tx \in Entry(s) /\ tx.type = ""
  BY <1>1, TwoPhaseAssumption, Zenon DEF Entry
<1>. DEFINE S == Entry(s)
            sorted == sortedTxs[s]
            current == currentTxs[s]
            a == adding[s]
<1>6. /\ sorted \in Seq(S) /\ current \in Seq(S) /\ a \in Seq(S) /\ sorted = <<>>
      /\ InOrder(sorted) /\ InOrder(current) /\ InOrder(a) /\ Before(current, a)
      /\ Before(sorted, a)
  BY <1>1, Zenon DEF ShardInv, Queues
<1>. HIDE DEF S
<1>7. \A e : ~Bad(e, tx) /\ ~Bad(tx, e)
  BY <1>5, NothingBeforeLocal, ZenonT(60)
<1>8. /\ Append(current, tx) \in Seq(S) /\ InOrder(Append(current, tx))
      /\ \A f : In(f, Append(current, tx)) => In(f, current) \/ f = tx
  BY <1>5, <1>6, <1>7, InAppend, ZenonT(60) DEF S
<1>9. Before(Append(current, tx), a)
  BY <1>6, <1>7, <1>8, BeforeElements, ZenonT(60)
<1>10. Before(sorted, Append(current, tx))
  BY <1>6, SMTT(60) DEF Before
<1>11. Queues(s)'
  BY <1>1, <1>6, <1>8, <1>9, <1>10, ZenonT(60) DEF Queues, S
<1>12. \A e : Waiting(s, e)' => Waiting(s, e) \/ e = tx
  BY <1>1, <1>8, Zenon DEF Waiting
<1>13. EntryOK(s, tx)'
  BY <1>5, Zenon DEF EntryOK, Writes
<1>. QED  BY <1>2, <1>3, <1>4, <1>11, <1>12, <1>13, ShardStep, ZenonT(60)

\* The end of processOrchestratorBlock: the orders of the block are all handled.
LEMMA HandleEndInv ==
  ASSUME NEW s \in Shards, Domains, ShardInv(s), OrdersSound, HandleEnd(s)
  PROVE  ShardInv(s)'
<1>1. /\ lastOrchestratorHeight[s] < height
      /\ lastOrchestratorHeight'[s] = lastOrchestratorHeight[s] + 1
      /\ ordersDone'[s] = 0
  BY Zenon DEF HandleEnd, HandlerAtEnd, EndOrchestratorBlock, Domains
<1>2. /\ prepares' = prepares /\ processedCommits' = processedCommits
      /\ executing' = executing /\ sortedTxs' = sortedTxs /\ adding' = adding
      /\ currentTxs' = currentTxs
      /\ locked' = locked /\ pendingCredits' = pendingCredits /\ pendingCalls' = pendingCalls
      /\ slotLocks' = slotLocks /\ pendingRwSets' = pendingRwSets
      /\ blocks' = blocks /\ ballots' = ballots /\ voteNet' = voteNet
  BY Zenon DEF HandleEnd, EndOrchestratorBlock, blockVars, metadata, chainVars
<1>3. lastOrchestratorHeight[s] \in 0..height /\ height \in Nat /\ height' = height
  BY <1>2, SameOrders, SMTT(60) DEF ShardInv, Progress, OrdersSound, ChainTypeOK, height
<1>4. Progress(s)'
  BY <1>1, <1>3, SMTT(60) DEF Progress
<1>5. ASSUME NEW id, Handled(s, id) PROVE Handled(s, id)'
  <2>1. PICK h \in 1..height : \E i \in 1..Len(blocks[h].ctToOrder) :
          /\ blocks[h].ctToOrder[i].id = id
          /\ h <= lastOrchestratorHeight[s] \/ h = lastOrchestratorHeight[s] + 1
    BY <1>5, Zenon DEF Handled
  <2>2. h <= lastOrchestratorHeight'[s]
    BY <1>1, <1>3, <2>1, SMTT(60)
  <2>. QED  BY <1>2, <1>3, <2>1, <2>2, ZenonT(60) DEF Handled
<1>6. Keeps(s)
  BY <1>2, <1>5, SameVotes, SameOrders, ZenonT(60) DEF Keeps
<1>7. Data(s)' /\ Calls(s)' /\ Locks(s)' /\ \A id : SameRwSet(s, id) /\ SameFunds(s, id)
  BY <1>2, <1>6, DataSame, ZenonT(60) DEF SameData, Keeps
<1>8. Queues(s)' /\ \A e : Waiting(s, e)' <=> Waiting(s, e)
  BY <1>2, QueuesSame, ZenonT(60) DEF ShardInv, SameQueues
<1>. QED  BY <1>2, <1>4, <1>6, <1>7, <1>8, ShardStep, ZenonT(60)
-----------------------------------------------------------------------------
(* The handler goes through a block.                                       *)

\* The next order of the block was not handled before.
LEMMA NextOrder ==
  ASSUME NEW s \in Shards, OrdersSound, OrderedOnce, Progress(s),
         lastOrchestratorHeight[s] < height, ordersDone[s] < Len(NextBlock(s).ctToOrder),
         NEW tx, tx = NextBlock(s).ctToOrder[ordersDone[s] + 1]
  PROVE  /\ tx \in CrossShardTx /\ tx.id \in TxIDs
         /\ lastOrchestratorHeight[s] + 1 \in 1..height
         /\ OrderedIn(tx, lastOrchestratorHeight[s] + 1)
         /\ ~Handled(s, tx.id)
<1>. DEFINE k == lastOrchestratorHeight[s] + 1
            n == ordersDone[s] + 1
<1>1. height \in Nat /\ lastOrchestratorHeight[s] \in 0..height /\ ordersDone[s] \in Nat
  BY SMTT(60) DEF Progress, OrdersSound, ChainTypeOK, height
<1>2. k \in 1..height
  BY <1>1, SMTT(60)
<1>3. blocks[k] \in Block
  BY <1>2, SMTT(60) DEF OrdersSound, ChainTypeOK, height
<1>4. blocks[k].ctToOrder \in Seq(CrossShardTx)
  BY <1>3, Zenon DEF Block
<1>5. n \in 1..Len(blocks[k].ctToOrder) /\ tx = blocks[k].ctToOrder[n]
  BY <1>1, <1>4, SMTT(60) DEF NextBlock
<1>. HIDE DEF k, n
<1>6. tx \in CrossShardTx
  BY <1>4, <1>5, SMTT(60)
<1>7. OrderedIn(tx, k)
  BY <1>2, <1>5, SMTT(60) DEF OrderedIn
<1>8. ASSUME Handled(s, tx.id) PROVE FALSE
  <2>0. PICK h \in 1..height : \E i \in 1..Len(blocks[h].ctToOrder) :
          /\ blocks[h].ctToOrder[i].id = tx.id
          /\ \/ h <= lastOrchestratorHeight[s]
             \/ h = lastOrchestratorHeight[s] + 1 /\ i <= ordersDone[s]
    BY <1>8, Zenon DEF Handled
  <2>1. PICK i \in 1..Len(blocks[h].ctToOrder) :
          /\ blocks[h].ctToOrder[i].id = tx.id
          /\ \/ h <= lastOrchestratorHeight[s]
             \/ h = lastOrchestratorHeight[s] + 1 /\ i <= ordersDone[s]
    BY <2>0, Zenon
  <2>2. blocks[h] \in Block
    BY SMTT(60) DEF OrdersSound, ChainTypeOK, height
  <2>3. PICK ty \in CrossShardTx : OrderedIn(ty, h) /\ ty.id = tx.id
    <3>1. blocks[h].ctToOrder \in Seq(CrossShardTx)
      BY <2>2, SMTT(60) DEF Block
    <3>2. blocks[h].ctToOrder[i] \in CrossShardTx /\ OrderedIn(blocks[h].ctToOrder[i], h)
      BY <2>1, <3>1, SMTT(60) DEF OrderedIn
    <3>. QED  BY <2>1, <3>2, SMTT(60)
  <2>4. h = k
    BY <1>2, <1>6, <1>7, <2>3, ZenonT(60) DEF OrdersSound
  <2>5. i \in 1..Len(blocks[k].ctToOrder) /\ i <= ordersDone[s]
    BY <1>1, <2>1, <2>4, SMTT(60) DEF k
  <2>6. i = n
    BY <1>2, <1>5, <2>1, <2>4, <2>5, ZenonT(60) DEF OrderedOnce
  <2>. QED  BY <1>1, <2>5, <2>6, SMTT(60) DEF n
<1>9. tx.id \in TxIDs
  BY <1>6, ChainAssumption, SMTT(60)
<1>. QED  BY <1>2, <1>6, <1>7, <1>8, <1>9, ZenonT(60) DEF k

LEMMA InvolvedIffLocal ==
  ASSUME NEW s, NEW tx
  PROVE  (tx.fromShard = s \/ LocalRwSet(s, tx.rwSet) # {}) <=> s \in InvolvedShards(tx)
  BY Zenon DEF LocalRwSet, InvolvedShards, TargetShards

LEMMA LockIsEntry ==
  ASSUME NEW s, NEW tx \in CrossShardTx
  PROVE  /\ LockTx(s, tx) \in Entry(s) /\ LockTx(s, tx).type = "lock"
         /\ LockTx(s, tx).id = tx.id /\ LockTx(s, tx).rwSet = LocalRwSet(s, tx.rwSet)
         /\ LockTx(s, tx).from = tx.from
         /\ LockTx(s, tx).value = IF tx.fromShard = s THEN tx.value ELSE 0
<1>1. LockTx(s, tx) \in {LockTx(s, ty) : ty \in CrossShardTx}
  OBVIOUS
<1>2. LockTx(s, tx) \in Entry(s)
  BY <1>1, Zenon DEF Entry
<1>. QED  BY <1>2 DEF LockTx

\* An order queues a Lock, the only one for its transaction.
LEMMA HandleOrderInv ==
  ASSUME NEW s \in Shards, Domains, OrderedOnce, ShardInv(s), OrdersSound, HandleOrder(s)
  PROVE  ShardInv(s)'
<1>. DEFINE k == lastOrchestratorHeight[s] + 1
<1>1. PICK tx : tx = NextBlock(s).ctToOrder[ordersDone[s] + 1]
  BY Zenon
<1>2. /\ lastOrchestratorHeight[s] < height /\ ordersDone[s] < Len(NextBlock(s).ctToOrder)
      /\ ProcessOrder(s, tx)
      /\ blocks' = blocks /\ ballots' = ballots /\ voteNet' = voteNet
  BY <1>1, ZenonT(60) DEF HandleOrder, chainVars
<1>3. /\ tx \in CrossShardTx /\ tx.id \in TxIDs /\ k \in 1..height /\ OrderedIn(tx, k)
      /\ ~Handled(s, tx.id)
  BY <1>1, <1>2, NextOrder, ZenonT(60) DEF ShardInv
<1>. DEFINE inv == s \in InvolvedShards(tx)
            L == LockTx(s, tx)
<1>4. /\ ~executing[s] /\ adding[s] = <<>>
      /\ ordersDone'[s] = ordersDone[s] + 1
      /\ pendingCredits'[s] = IF inv THEN WithCredit(s, tx) ELSE pendingCredits[s]
      /\ pendingCalls'[s] = IF inv /\ tx.fromShard # s /\ tx.data
                            THEN Put(pendingCalls[s], tx.id, tx) ELSE pendingCalls[s]
      /\ adding'[s] = IF inv THEN <<L>> ELSE <<>>
  BY <1>2, InvolvedIffLocal, ZenonT(60) DEF ProcessOrder, Domains
<1>5. /\ prepares' = prepares /\ processedCommits' = processedCommits
      /\ executing' = executing /\ sortedTxs' = sortedTxs /\ currentTxs' = currentTxs
      /\ lastOrchestratorHeight' = lastOrchestratorHeight
      /\ locked' = locked /\ slotLocks' = slotLocks /\ pendingRwSets' = pendingRwSets
  BY <1>2, Zenon DEF ProcessOrder, blockVars
<1>6. height' = height /\ height \in Nat
  BY <1>2, SameOrders, SMTT(60) DEF OrdersSound, ChainTypeOK, height
<1>7. lastOrchestratorHeight[s] \in 0..height /\ ordersDone[s] \in Nat
  BY Zenon DEF ShardInv, Progress
<1>8. Progress(s)'
  BY <1>2, <1>4, <1>5, <1>6, <1>7 DEF Progress
<1>9. ASSUME NEW id, Handled(s, id) PROVE Handled(s, id)'
  <2>0. PICK h \in 1..height : \E i \in 1..Len(blocks[h].ctToOrder) :
          /\ blocks[h].ctToOrder[i].id = id
          /\ \/ h <= lastOrchestratorHeight[s]
             \/ h = lastOrchestratorHeight[s] + 1 /\ i <= ordersDone[s]
    BY <1>9, Zenon DEF Handled
  <2>1. PICK i \in 1..Len(blocks[h].ctToOrder) :
          /\ blocks[h].ctToOrder[i].id = id
          /\ \/ h <= lastOrchestratorHeight[s]
             \/ h = lastOrchestratorHeight[s] + 1 /\ i <= ordersDone[s]
    BY <2>0, Zenon
  <2>2. i <= ordersDone[s] => i <= ordersDone'[s]
    BY <1>4, <1>7, SMTT(60)
  <2>. QED  BY <1>2, <1>5, <1>6, <2>1, <2>2, ZenonT(60) DEF Handled
<1>10. Handled(s, tx.id)'
  <2>0. k \in 1..height'
    BY <1>3, <1>6, ZenonT(60)
  <2>1. blocks'[k].ctToOrder[ordersDone[s] + 1] = tx
    BY <1>1, <1>2, SMTT(60) DEF NextBlock
  <2>2. blocks[k].ctToOrder \in Seq(CrossShardTx)
    <3>1. blocks[k] \in Block
      BY <1>3, SMTT(60) DEF OrdersSound, ChainTypeOK, height
    <3>. QED  BY <3>1, Zenon DEF Block
  <2>3. ordersDone[s] + 1 \in 1..Len(blocks'[k].ctToOrder)
    BY <1>2, <1>7, <2>2, SMTT(60) DEF NextBlock
  <2>4. ordersDone[s] + 1 <= ordersDone'[s]
    BY <1>4, <1>7, SMTT(60)
  <2>5. k = lastOrchestratorHeight'[s] + 1
    BY <1>5, ZenonT(60)
  <2>. HIDE DEF k
  <2>. QED  BY <2>0, <2>1, <2>3, <2>4, <2>5, SMTT(60) DEF Handled
<1>11. OrderedFor(s, tx)' <=> inv
  BY <1>3, <1>6, <1>2, SameOrders, ZenonT(60) DEF OrderedFor
<1>12. Keeps(s)
  BY <1>2, <1>5, <1>9, SameVotes, SameOrders, ZenonT(60) DEF Keeps
<1>13. \A id : SameRwSet(s, id) /\ SameFunds(s, id)
  BY <1>5, ZenonT(60) DEF SameRwSet, SameFunds
<1>14. Locks(s)'
  BY <1>5, <1>9, LocksKept, ZenonT(60) DEF ShardInv
<1>15. Calls(s)'
  <2>1. \A id \in DOMAIN pendingCalls[s] :
          \E ty \in CrossShardTx : pendingCalls[s][id] = ty /\ ty.id = id /\ OrderedFor(s, ty)'
    BY <1>2, SameOrders, ZenonT(60) DEF ShardInv, Calls
  <2>2. CASE pendingCalls'[s] = pendingCalls[s]
    BY <2>1, <2>2, SMTT(60) DEF Calls
  <2>3. CASE inv /\ pendingCalls'[s] = Put(pendingCalls[s], tx.id, tx)
    <3>1. ASSUME NEW id \in DOMAIN pendingCalls'[s]
          PROVE  \E ty \in CrossShardTx : /\ pendingCalls'[s][id] = ty /\ ty.id = id
                                           /\ OrderedFor(s, ty)'
      BY <1>3, <1>11, <2>1, <2>3, <3>1, ZenonT(60) DEF Put
    <3>. QED  BY <3>1, Zenon DEF Calls
  <2>. QED  BY <1>4, <2>2, <2>3, ZenonT(60)
<1>16. Data(s)'
  <2>. DEFINE C == [addr : Addrs, amount : Nat]
              old == IF tx.id \in DOMAIN pendingCredits[s] THEN pendingCredits[s][tx.id] ELSE <<>>
              new == old \o <<[addr |-> tx.to, amount |-> tx.value]>>
  <2>1. DOMAIN pendingCalls'[s] \subseteq TxIDs
    BY <1>3, <1>4 DEF ShardInv, Data, Put
  <2>2. /\ DOMAIN pendingCredits[s] \subseteq TxIDs
        /\ \A id \in DOMAIN pendingCredits[s] :
             id \notin processedCommits[s] => pendingCredits[s][id] \in Seq(C)
    BY Zenon DEF ShardInv, Data
  <2>3. [addr |-> tx.to, amount |-> tx.value] \in C
    BY <1>3, TwoPhaseAssumption, ZenonT(60)
  <2>. HIDE DEF C
  <2>4. tx.id \notin processedCommits[s] => new \in Seq(C)
    BY <2>2, <2>3
  <2>5. CASE pendingCredits'[s] = pendingCredits[s]
    BY <1>5, <2>1, <2>5, ZenonT(60) DEF ShardInv, Data
  <2>6. CASE pendingCredits'[s] = Put(pendingCredits[s], tx.id, new)
    <3>. HIDE DEF new
    <3>1. DOMAIN pendingCredits'[s] \subseteq TxIDs
      BY <1>3, <2>2, <2>6, ZenonT(60) DEF Put
    <3>2. \A id \in DOMAIN pendingCredits'[s] :
            id \notin processedCommits'[s] => pendingCredits'[s][id] \in Seq(C)
      BY <1>5, <2>2, <2>4, <2>6, ZenonT(60) DEF Put
    <3>. QED  BY <1>5, <2>1, <3>1, <3>2, ZenonT(60) DEF ShardInv, Data, C
  <2>. QED  BY <1>4, <2>5, <2>6, ZenonT(60) DEF WithCredit
<1>17. EntryOK(s, L)' \/ ~inv
  <2>1. ~VotedYes(s, tx.id)'
    BY <1>3, <1>12, ZenonT(60) DEF ShardInv, Promises, Keeps
  <2>. QED  BY <1>3, <1>10, <1>11, <2>1, LockIsEntry DEF EntryOK, Writes
<1>18. Queues(s)' /\ \A e : Waiting(s, e)' => Waiting(s, e) \/ (inv /\ e = L)
  <2>. DEFINE S == Entry(s)
              current == currentTxs[s]
              a == adding'[s]
  <2>1. /\ current \in Seq(S) /\ sortedTxs[s] = <<>>
        /\ InOrder(sortedTxs[s]) /\ InOrder(current) /\ Before(sortedTxs[s], current)
    BY <1>4, Zenon DEF ShardInv, Queues
  <2>2. L \in S
    BY <1>3, LockIsEntry, ZenonT(60)
  <2>. HIDE DEF S, L
  <2>3. a \in Seq(S) /\ InOrder(a) /\ \A f : In(f, a) => inv /\ f = L
    BY <1>4, <2>2, InSingle, InEmpty, ZenonT(60)
  <2>4. ASSUME NEW e, In(e, current) PROVE ~Bad(e, L)
    <3>1. EntryOK(s, e)
      BY <2>4, Zenon DEF ShardInv, Entries, Waiting
    <3>2. e.type = "lock" \/ Writes(e) => Handled(s, e.id)
      BY <3>1, Zenon DEF EntryOK, ShardInv, Locks
    <3>3. L.type = "lock" /\ L.id = tx.id
      BY <1>3, LockIsEntry DEF L
    <3>4. ~Writes(L)
      BY <3>3, ZenonT(60) DEF Writes
    <3>. QED  BY <1>3, <3>2, <3>3, <3>4, ZenonT(60) DEF Bad
  <2>5. Before(current, a)
    BY <2>3, <2>4, BeforeElements, ZenonT(60)
  <2>6. Before(sortedTxs[s], a)
    BY <2>1, SMTT(60) DEF Before
  <2>7. Queues(s)'
    BY <1>4, <1>5, <2>1, <2>3, <2>5, <2>6 DEF Queues, S
  <2>8. \A e : Waiting(s, e)' => Waiting(s, e) \/ (inv /\ e = L)
    BY <1>5, <2>3, ZenonT(60) DEF Waiting
  <2>. QED  BY <2>7, <2>8, ZenonT(60)
<1>. QED  BY <1>2, <1>8, <1>12, <1>13, <1>14, <1>15, <1>16, <1>17, <1>18, ShardStep, ZenonT(60)

\* What the handler queues for a result.
OfResult(s, id, e) ==
  /\ e.id = id
  /\ e.type \in {"cross_debit", "cross_credit", "cross_writeset", "finalize",
                 "cross_abort", "unlock"}
  /\ Writes(e) => id \in DOMAIN pendingRwSets[s] /\ pendingRwSets[s][id] = e.rwSet

LEMMA EffectsAreEntries ==
  ASSUME NEW s, NEW id \in TxIDs
  PROVE  /\ \A from \in Addrs, value \in Nat :
              [type |-> "cross_debit", id |-> id, from |-> from, value |-> value] \in Entry(s)
         /\ \A to \in Addrs, value \in Nat :
              [type |-> "cross_credit", id |-> id, to |-> to, value |-> value] \in Entry(s)
         /\ \A tx \in CrossShardTx :
              /\ [type |-> "cross_writeset", id |-> id, rwSet |-> LocalRwSet(s, tx.rwSet)] \in Entry(s)
              /\ [type |-> "finalize", id |-> id, rwSet |-> LocalRwSet(s, tx.rwSet)] \in Entry(s)
         /\ [type |-> "unlock", id |-> id] \in Entry(s)
         /\ [type |-> "cross_abort", id |-> id] \in Entry(s)
<1>1. ASSUME NEW from \in Addrs, NEW value \in Nat
      PROVE  [type |-> "cross_debit", id |-> id, from |-> from, value |-> value] \in Entry(s)
  <2>1. [type |-> "cross_debit", id |-> id, from |-> from, value |-> value]
          \in [type : {"cross_debit"}, id : TxIDs, from : Addrs, value : Nat]
    OBVIOUS
  <2>. QED  BY <2>1, Zenon DEF Entry
<1>2. ASSUME NEW to \in Addrs, NEW value \in Nat
      PROVE  [type |-> "cross_credit", id |-> id, to |-> to, value |-> value] \in Entry(s)
  <2>1. [type |-> "cross_credit", id |-> id, to |-> to, value |-> value]
          \in [type : {"cross_credit"}, id : TxIDs, to : Addrs, value : Nat]
    OBVIOUS
  <2>. QED  BY <2>1, Zenon DEF Entry
<1>3. ASSUME NEW tx \in CrossShardTx, NEW type \in {"cross_writeset", "finalize"}
      PROVE  [type |-> type, id |-> id, rwSet |-> LocalRwSet(s, tx.rwSet)] \in Entry(s)
  <2>. DEFINE R == {LocalRwSet(s, ty.rwSet) : ty \in CrossShardTx}
  <2>1. LocalRwSet(s, tx.rwSet) \in R
    BY Zenon
  <2>. HIDE DEF R
  <2>2. [type |-> type, id |-> id, rwSet |-> LocalRwSet(s, tx.rwSet)]
          \in [type : {"cross_writeset", "finalize"}, id : TxIDs, rwSet : R]
    BY <2>1
  <2>. QED  BY <2>2, Zenon DEF Entry, R
<1>4. ASSUME NEW type \in {"unlock", "cross_abort"}
      PROVE  [type |-> type, id |-> id] \in Entry(s)
  <2>1. [type |-> type, id |-> id] \in [type : {"unlock", "cross_abort"}, id : TxIDs]
    BY Zenon
  <2>. QED  BY <2>1, Zenon DEF Entry
<1>. QED  BY <1>1, <1>2, <1>3, <1>4, ZenonT(60)

\* A debit or a credit may come at any place.
Early(q) == \A e : In(e, q) => e.type \in {"cross_debit", "cross_credit"}

LEMMA EarlyFirst ==
  ASSUME NEW p, NEW q, Early(p)
  PROVE  Before(p, q)
<1>1. ASSUME NEW e, NEW f, In(e, p), In(f, q) PROVE ~Bad(e, f)
  <2>1. e.type \in {"cross_debit", "cross_credit"}
    BY <1>1, Zenon DEF Early
  <2>. QED  BY <2>1, Zenon DEF Bad, Writes
<1>. QED  BY <1>1, BeforeElements, SMTT(60)

\* What the shard holds for a committed transaction that it has not processed.
LEMMA CommitData ==
  ASSUME NEW s, ShardInv(s), OrdersSound, NEW id, Result(id, TRUE), id \notin processedCommits[s]
  PROVE  /\ \A e : Waiting(s, e) /\ e.type = "lock" => e.id # id
         /\ id \in DOMAIN pendingCalls[s] =>
              /\ \E tx \in CrossShardTx : pendingCalls[s][id] = tx
              /\ id \in DOMAIN pendingRwSets[s]
              /\ pendingRwSets[s][id] = LocalRwSet(s, pendingCalls[s][id].rwSet)
<1>1. ASSUME NEW tx \in CrossShardTx, OrderedFor(s, tx), tx.id = id PROVE VotedYes(s, id)
  <2>1. Unanimous(tx)
    BY <1>1, Zenon DEF OrderedFor, OrdersSound
  <2>2. [id |-> id, shard |-> s, vote |-> TRUE] \in ballots
    BY <1>1, <2>1 DEF Unanimous, OrderedFor
  <2>. QED  BY <2>2, Zenon DEF VotedYes
<1>2. ASSUME NEW e, Waiting(s, e), e.type = "lock", e.id = id PROVE FALSE
  <2>1. EntryOK(s, e)
    BY <1>2, Zenon DEF ShardInv, Entries
  <2>2. PICK tx \in CrossShardTx : e = LockTx(s, tx) /\ OrderedFor(s, tx)
    BY <1>2, <2>1, ZenonT(60) DEF EntryOK
  <2>3. tx.id = id
    BY <1>2, <2>2, ZenonT(60) DEF LockTx
  <2>. QED  BY <1>1, <1>2, <2>1, <2>2, <2>3 DEF EntryOK
<1>3. ASSUME id \in DOMAIN pendingCalls[s]
      PROVE  \E tx \in CrossShardTx : pendingCalls[s][id] = tx /\ Holds(s, tx) /\ tx.id = id
  <2>1. PICK tx \in CrossShardTx : pendingCalls[s][id] = tx /\ tx.id = id /\ OrderedFor(s, tx)
    BY <1>3, Zenon DEF ShardInv, Calls
  <2>2. VotedYes(s, tx.id)
    BY <1>1, <2>1, ZenonT(60)
  <2>3. Holds(s, tx)
    BY <2>1, <2>2, ZenonT(60) DEF ShardInv, Promises, OrderedFor
  <2>. QED  BY <2>1, <2>3, ZenonT(60)
<1>. QED  BY <1>2, <1>3, ZenonT(60) DEF Holds

\* What is queued for a commit, in this order.
LEMMA CommitQueue ==
  ASSUME NEW s, ShardInv(s), OrdersSound, NEW id \in TxIDs, Result(id, TRUE),
         id \notin processedCommits[s]
  PROVE  /\ CommitTxs(s, id) \in Seq(Entry(s)) /\ InOrder(CommitTxs(s, id))
         /\ \A e : In(e, CommitTxs(s, id)) => OfResult(s, id, e)
<1>. DEFINE S == Entry(s)
            credits == IF id \in DOMAIN pendingCredits[s] THEN pendingCredits[s][id] ELSE <<>>
            callRwSet == IF id \in DOMAIN pendingCalls[s]
                         THEN LocalRwSet(s, pendingCalls[s][id].rwSet) ELSE {}
            rwSet == IF id \in DOMAIN pendingRwSets[s] THEN pendingRwSets[s][id] ELSE {}
            debit == [type |-> "cross_debit", id |-> id, from |-> locked[s][id].addr,
                      value |-> locked[s][id].amount]
            credit == [i \in 1..Len(credits) |->
                        [type |-> "cross_credit", id |-> id, to |-> credits[i].addr,
                         value |-> credits[i].amount]]
            write == [type |-> "cross_writeset", id |-> id, rwSet |-> callRwSet]
            final == [type |-> "finalize", id |-> id, rwSet |-> rwSet]
            q1 == IF id \in DOMAIN locked[s] THEN <<debit>> ELSE <<>>
            q3 == IF callRwSet # {} THEN <<write>> ELSE <<>>
            q4 == IF rwSet # {} THEN <<final>> ELSE <<>>
<1>1. CommitTxs(s, id) = ((q1 \o credit) \o q3) \o q4
  BY Zenon DEF CommitTxs
<1>2. q1 \in Seq(S) /\ InOrder(q1) /\ Early(q1) /\ \A e : In(e, q1) => OfResult(s, id, e)
  <2>1. CASE id \in DOMAIN locked[s]
    <3>1. locked[s][id].addr \in Addrs /\ locked[s][id].amount \in Nat
      BY <2>1, ZenonT(60) DEF ShardInv, Data
    <3>2. debit \in S
      BY <3>1, EffectsAreEntries, ZenonT(60)
    <3>3. debit.type = "cross_debit" /\ debit.id = id
      BY Zenon
    <3>4. q1 = <<debit>>
      BY <2>1, ZenonT(60)
    <3>. HIDE DEF S, debit, q1
    <3>5. q1 \in Seq(S) /\ InOrder(q1) /\ \A e : In(e, q1) => e = debit
      BY <3>2, <3>4, InSingle, ZenonT(60)
    <3>. QED  BY <3>3, <3>5, ZenonT(60) DEF Early, OfResult, Writes
  <2>2. CASE id \notin DOMAIN locked[s]
    BY <2>2, InEmpty, ZenonT(60) DEF Early
  <2>. QED  BY <2>1, <2>2, ZenonT(60)
<1>3. credit \in Seq(S) /\ InOrder(credit) /\ Early(credit)
      /\ \A e : In(e, credit) => OfResult(s, id, e)
  <2>. DEFINE C == [addr : Addrs, amount : Nat]
  <2>0. \A c \in C : c.addr \in Addrs /\ c.amount \in Nat
    BY Zenon
  <2>c. id \in DOMAIN pendingCredits[s] => pendingCredits[s][id] \in Seq(C)
    BY Zenon DEF ShardInv, Data
  <2>. HIDE DEF C
  <2>1. credits \in Seq(C)
    BY <2>c
  <2>2. Len(credits) \in Nat
        /\ \A i \in 1..Len(credits) : credits[i].addr \in Addrs /\ credits[i].amount \in Nat
    <3>. HIDE DEF credits
    <3>. QED  BY <2>0, <2>1
  <2>. HIDE DEF credits
  <2>3. \A i \in 1..Len(credits) : credit[i] \in S
    BY <2>2, EffectsAreEntries, ZenonT(60)
  <2>4. Len(credit) = Len(credits) /\ DOMAIN credit = 1..Len(credits)
    BY <2>2, SMTT(60)
  <2>5. \A i \in 1..Len(credits) : credit[i].type = "cross_credit" /\ credit[i].id = id
    BY Zenon
  <2>6. credit \in Seq(S)
    <3>. HIDE DEF S
    <3>. QED  BY <2>2, <2>3, SMTT(60)
  <2>. HIDE DEF S, credit
  <2>7. \A e : In(e, credit) => e.type = "cross_credit" /\ e.id = id
    BY <2>4, <2>5, SMTT(60) DEF In
  <2>8. Early(credit)
    BY <2>7, ZenonT(60) DEF Early
  <2>9. InOrder(credit)
    BY <2>4, <2>5, ZenonT(60) DEF InOrder, Bad, Writes
  <2>10. \A e : In(e, credit) => OfResult(s, id, e)
    BY <2>7, ZenonT(60) DEF OfResult, Writes
  <2>. QED  BY <2>6, <2>8, <2>9, <2>10, ZenonT(60)
<1>4. /\ q3 \in Seq(S) /\ InOrder(q3) /\ \A e : In(e, q3) => OfResult(s, id, e)
      /\ \A e : In(e, q3) => e.type = "cross_writeset"
  <2>1. CASE callRwSet # {}
    <3>0. id \in DOMAIN pendingCalls[s]
      BY <2>1, ZenonT(60)
    <3>1. /\ \E tx \in CrossShardTx : pendingCalls[s][id] = tx
          /\ id \in DOMAIN pendingRwSets[s]
          /\ pendingRwSets[s][id] = LocalRwSet(s, pendingCalls[s][id].rwSet)
      BY <3>0, CommitData, ZenonT(60)
    <3>2. write \in S
      <4>1. PICK tx \in CrossShardTx : pendingCalls[s][id] = tx
        BY <3>1, ZenonT(60)
      <4>2. write = [type |-> "cross_writeset", id |-> id, rwSet |-> LocalRwSet(s, tx.rwSet)]
        BY <3>0, <4>1, ZenonT(60)
      <4>. QED  BY <4>2, EffectsAreEntries, ZenonT(60)
    <3>3. write.type = "cross_writeset" /\ write.id = id /\ pendingRwSets[s][id] = write.rwSet
      BY <3>0, <3>1, ZenonT(60)
    <3>4. q3 = <<write>>
      BY <2>1, Zenon
    <3>. HIDE DEF S, write, q3
    <3>5. q3 \in Seq(S) /\ InOrder(q3) /\ \A e : In(e, q3) => e = write
      BY <3>2, <3>4, InSingle, ZenonT(60)
    <3>. QED  BY <3>1, <3>3, <3>5, ZenonT(60) DEF OfResult, Writes
  <2>2. CASE callRwSet = {}
    BY <2>2, InEmpty, ZenonT(60)
  <2>. QED  BY <2>1, <2>2, ZenonT(60)
<1>5. /\ q4 \in Seq(S) /\ InOrder(q4) /\ \A e : In(e, q4) => OfResult(s, id, e)
  <2>1. CASE rwSet # {}
    <3>0. id \in DOMAIN pendingRwSets[s] /\ rwSet = pendingRwSets[s][id]
      BY <2>1, ZenonT(60)
    <3>1. PICK tx \in CrossShardTx : pendingRwSets[s][id] = LocalRwSet(s, tx.rwSet)
      BY <3>0, ZenonT(60) DEF ShardInv, Locks
    <3>2. final \in S
      <4>1. final = [type |-> "finalize", id |-> id, rwSet |-> LocalRwSet(s, tx.rwSet)]
        BY <3>0, <3>1, ZenonT(60)
      <4>. QED  BY <4>1, EffectsAreEntries, ZenonT(60)
    <3>3. final.type = "finalize" /\ final.id = id /\ pendingRwSets[s][id] = final.rwSet
      BY <3>0, ZenonT(60)
    <3>4. q4 = <<final>>
      BY <2>1, ZenonT(60)
    <3>. HIDE DEF S, final, q4
    <3>5. q4 \in Seq(S) /\ InOrder(q4) /\ \A e : In(e, q4) => e = final
      BY <3>2, <3>4, InSingle, ZenonT(60)
    <3>. QED  BY <3>0, <3>3, <3>5, ZenonT(60) DEF OfResult, Writes
  <2>2. CASE rwSet = {}
    BY <2>2, InEmpty, ZenonT(60)
  <2>. QED  BY <2>1, <2>2, ZenonT(60)
<1>. HIDE DEF S, q1, credit, q3, q4
<1>6. /\ q1 \o credit \in Seq(S) /\ InOrder(q1 \o credit)
      /\ \A e : In(e, q1 \o credit) => In(e, q1) \/ In(e, credit)
  BY <1>2, <1>3, EarlyFirst, InConcat, ZenonT(60)
<1>7. Early(q1 \o credit)
  BY <1>2, <1>3, <1>6, ZenonT(60) DEF Early
<1>8. /\ (q1 \o credit) \o q3 \in Seq(S) /\ InOrder((q1 \o credit) \o q3)
      /\ \A e : In(e, (q1 \o credit) \o q3) => In(e, q1 \o credit) \/ In(e, q3)
  BY <1>4, <1>6, <1>7, EarlyFirst, InConcat, ZenonT(60)
<1>9. Before((q1 \o credit) \o q3, q4)
  <2>1. ASSUME NEW e, NEW f, In(e, (q1 \o credit) \o q3), In(f, q4) PROVE ~Bad(e, f)
    <3>1. e.type \in {"cross_debit", "cross_credit", "cross_writeset"}
      BY <1>4, <1>7, <1>8, <2>1, ZenonT(60) DEF Early
    <3>2. f.type # "lock"
      BY <1>5, <2>1, ZenonT(60) DEF OfResult
    <3>. QED  BY <3>1, <3>2, ZenonT(60) DEF Bad, Writes
  <2>. QED  BY <2>1, BeforeElements, Zenon
<1>10. /\ ((q1 \o credit) \o q3) \o q4 \in Seq(S) /\ InOrder(((q1 \o credit) \o q3) \o q4)
       /\ \A e : In(e, ((q1 \o credit) \o q3) \o q4) => In(e, (q1 \o credit) \o q3) \/ In(e, q4)
  BY <1>5, <1>8, <1>9, InConcat, ZenonT(60)
<1>. QED  BY <1>1, <1>2, <1>3, <1>4, <1>5, <1>6, <1>8, <1>10, ZenonT(60) DEF S

LEMMA AbortQueue ==
  ASSUME NEW s, NEW id \in TxIDs
  PROVE  /\ AbortTxs(s, id) \in Seq(Entry(s)) /\ InOrder(AbortTxs(s, id))
         /\ \A e : In(e, AbortTxs(s, id)) => OfResult(s, id, e) /\ ~Writes(e)
<1>. DEFINE S == Entry(s)
            abort == [type |-> "cross_abort", id |-> id]
<1>1. abort \in S /\ abort.type = "cross_abort" /\ abort.id = id
  BY EffectsAreEntries, ZenonT(60)
<1>2. AbortTxs(s, id) = <<abort>> \/ AbortTxs(s, id) = <<>>
  BY DEF AbortTxs
<1>. HIDE DEF S, abort
<1>3. CASE AbortTxs(s, id) = <<abort>>
  <2>1. AbortTxs(s, id) \in Seq(S) /\ InOrder(AbortTxs(s, id))
        /\ \A e : In(e, AbortTxs(s, id)) => e = abort
    BY <1>1, <1>3, InSingle, SMTT(60)
  <2>. QED  BY <1>1, <2>1, ZenonT(60) DEF S, OfResult, Writes
<1>4. CASE AbortTxs(s, id) = <<>>
  BY <1>4, InEmpty, ZenonT(60) DEF S
<1>. QED  BY <1>2, <1>3, <1>4, ZenonT(60)

\* A result queues the effects of its transaction, and then the Unlock.
LEMMA HandleResultInv ==
  ASSUME NEW s \in Shards, Domains, ShardInv(s), OrdersSound, HandleResult(s)
  PROVE  ShardInv(s)'
<1>. DEFINE k == lastOrchestratorHeight[s] + 1
<1>1. PICK id \in DOMAIN blocks[k].tpcResult : ProcessResult(s, id, blocks[k].tpcResult[id])
  BY Zenon DEF HandleResult, NextBlock
<1>2. /\ lastOrchestratorHeight[s] < height
      /\ blocks' = blocks /\ ballots' = ballots /\ voteNet' = voteNet
  BY Zenon DEF HandleResult, chainVars
<1>. DEFINE txs == IF blocks[k].tpcResult[id] THEN CommitTxs(s, id) ELSE AbortTxs(s, id)
            unlock == [type |-> "unlock", id |-> id]
<1>3. /\ ~executing[s] /\ adding[s] = <<>> /\ id \notin processedCommits[s]
      /\ processedCommits'[s] = processedCommits[s] \cup {id}
      /\ adding'[s] = txs \o <<unlock>>
  BY <1>1, ZenonT(60) DEF ProcessResult, Domains
<1>4. /\ prepares' = prepares
      /\ executing' = executing /\ sortedTxs' = sortedTxs /\ currentTxs' = currentTxs
      /\ lastOrchestratorHeight' = lastOrchestratorHeight /\ ordersDone' = ordersDone
      /\ locked' = locked /\ pendingCredits' = pendingCredits /\ pendingCalls' = pendingCalls
      /\ slotLocks' = slotLocks /\ pendingRwSets' = pendingRwSets
  BY <1>1, ZenonT(60) DEF ProcessResult, blockVars, metadata
<1>5. k \in 1..height /\ id \in TxIDs
  <2>1. height \in Nat /\ lastOrchestratorHeight[s] \in 0..height
    BY SMTT(60) DEF ShardInv, Progress, OrdersSound, ChainTypeOK, height
  <2>2. k \in 1..height
    BY <1>2, <2>1, SMTT(60)
  <2>3. blocks[k] \in Block
    BY <2>2, SMTT(60) DEF OrdersSound, ChainTypeOK, height
  <2>4. PICK ids \in SUBSET TxIDs : blocks[k].tpcResult \in [ids -> BOOLEAN]
    BY <2>3, ZenonT(60) DEF Block
  <2>. QED  BY <2>2, <2>4, ZenonT(60)
<1>. HIDE DEF k
<1>6. blocks[k].tpcResult[id] => Result(id, TRUE)
  <2>1. SUFFICES ASSUME blocks[k].tpcResult[id] PROVE Published(id, TRUE)
    BY Zenon DEF Result
  <2>2. blocks[k].tpcResult[id] = TRUE
    <3>1. blocks[k].tpcResult[id] \in BOOLEAN
      <4>1. blocks[k] \in Block
        BY <1>5 DEF OrdersSound, ChainTypeOK, height
      <4>2. PICK ids \in SUBSET TxIDs : blocks[k].tpcResult \in [ids -> BOOLEAN]
        BY <4>1, ZenonT(60) DEF Block
      <4>. QED  BY <4>2
    <3>. QED  BY <2>1, <3>1
  <2>. QED  BY <1>5, <2>2 DEF Published, ResultAt
<1>. DEFINE S == Entry(s)
<1>7. txs \in Seq(S) /\ InOrder(txs) /\ \A e : In(e, txs) => OfResult(s, id, e)
  <2>1. CASE blocks[k].tpcResult[id]
    BY <1>3, <1>5, <1>6, <2>1, CommitQueue, ZenonT(60)
  <2>2. CASE ~blocks[k].tpcResult[id]
    BY <1>5, <2>2, AbortQueue, ZenonT(60)
  <2>. QED  BY <2>1, <2>2
<1>8. \A e, f : In(e, txs) /\ Writes(e) /\ Waiting(s, f) /\ f.type = "lock" => f.id # id
  <2>1. CASE blocks[k].tpcResult[id]
    <3>1. Result(id, TRUE) /\ id \notin processedCommits[s]
      BY <1>3, <1>6, <2>1, ZenonT(60)
    <3>2. \A f : Waiting(s, f) /\ f.type = "lock" => f.id # id
      BY <3>1, CommitData, Zenon
    <3>. QED  BY <3>2, ZenonT(60)
  <2>2. CASE ~blocks[k].tpcResult[id]
    BY <1>5, <2>2, AbortQueue, ZenonT(60)
  <2>. QED  BY <2>1, <2>2, ZenonT(60)
<1>9. unlock \in S /\ unlock.type = "unlock" /\ unlock.id = id
  BY <1>5, EffectsAreEntries, ZenonT(60)
<1>. HIDE DEF S, txs, unlock
<1>10. <<unlock>> \in Seq(S) /\ InOrder(<<unlock>>) /\ \A f : In(f, <<unlock>>) <=> f = unlock
  BY <1>9, InSingle, ZenonT(60)
<1>11. Before(txs, <<unlock>>)
  <2>1. ~Writes(unlock)
    BY <1>9, ZenonT(60) DEF Writes
  <2>2. \A e : ~Bad(e, unlock)
    BY <1>9, <2>1, ZenonT(60) DEF Bad
  <2>. QED  BY <1>10, <2>2, BeforeElements, SMTT(60)
<1>12. /\ adding'[s] \in Seq(S) /\ InOrder(adding'[s])
       /\ \A f : In(f, adding'[s]) => In(f, txs) \/ f = unlock
  <2>1. /\ txs \o <<unlock>> \in Seq(S) /\ InOrder(txs \o <<unlock>>)
        /\ \A f : In(f, txs \o <<unlock>>) => In(f, txs) \/ In(f, <<unlock>>)
    BY <1>7, <1>10, <1>11, InConcat, ZenonT(60)
  <2>. QED  BY <1>3, <1>10, <2>1, ZenonT(60)
<1>13. \A e : In(e, adding'[s]) => OfResult(s, id, e)
  BY <1>7, <1>9, <1>12, ZenonT(60) DEF OfResult, Writes
<1>14. ASSUME NEW e, NEW f, In(e, currentTxs[s]), In(f, adding'[s]) PROVE ~Bad(e, f)
  <2>1. EntryOK(s, e) /\ Waiting(s, e)
    BY <1>14, ZenonT(60) DEF ShardInv, Entries, Waiting
  <2>2. OfResult(s, id, f)
    BY <1>13, <1>14, ZenonT(60)
  <2>3. ASSUME e.id = id, e.type # "" PROVE e.type = "lock"
    BY <1>3, <2>1, <2>3, ZenonT(60) DEF EntryOK
  <2>4. f.id = id /\ f.type # "lock"
    BY <2>2, ZenonT(60) DEF OfResult
  <2>5. CASE Writes(f)
    <3>1. In(f, txs)
      BY <1>9, <1>12, <1>14, <2>5, ZenonT(60) DEF Writes
    <3>2. ~(e.type = "lock" /\ e.id = id)
      BY <1>8, <2>1, <2>5, <3>1, ZenonT(60)
    <3>. QED  BY <2>3, <2>4, <3>2, ZenonT(60) DEF Bad
  <2>6. CASE ~Writes(f)
    BY <2>4, <2>6, ZenonT(60) DEF Bad
  <2>. QED  BY <2>5, <2>6, ZenonT(60)
<1>15. Before(currentTxs[s], adding'[s])
  BY <1>14, BeforeElements, ZenonT(60)
<1>16. /\ sortedTxs[s] \in Seq(S) /\ currentTxs[s] \in Seq(S) /\ sortedTxs[s] = <<>>
       /\ InOrder(sortedTxs[s]) /\ InOrder(currentTxs[s])
       /\ Before(sortedTxs[s], currentTxs[s])
  BY <1>3, ZenonT(60) DEF ShardInv, Queues, S
<1>17. Before(sortedTxs[s], adding'[s])
  BY <1>16 DEF Before
<1>18. Queues(s)'
  BY <1>3, <1>4, <1>12, <1>15, <1>16, <1>17, ZenonT(60) DEF Queues, S
<1>19. \A e : Waiting(s, e)' => Waiting(s, e) \/ In(e, adding'[s])
  BY <1>4, ZenonT(60) DEF Waiting
<1>20. ASSUME NEW e, In(e, adding'[s]) PROVE EntryOK(s, e)'
  BY <1>3, <1>4, <1>13, <1>20, ZenonT(60) DEF EntryOK, OfResult
<1>21. Keeps(s) /\ Progress(s)'
  BY <1>2, <1>3, <1>4, KeepsAll, ZenonT(60) DEF ShardInv, SameProgress
<1>22. \A x : SameRwSet(s, x) /\ SameFunds(s, x)
  BY <1>4, ZenonT(60) DEF SameRwSet, SameFunds
<1>23. Locks(s)'
  BY <1>4, <1>21, LocksKept, ZenonT(60) DEF ShardInv, Keeps
<1>24. Calls(s)'
  BY <1>2, <1>4, SameOrders, ZenonT(60) DEF ShardInv, Calls
<1>25. Data(s)'
  <2>1. processedCommits'[s] \subseteq TxIDs
    BY <1>3, <1>5, ZenonT(60) DEF ShardInv, Data
  <2>2. \A x \in DOMAIN pendingCredits'[s] :
          x \notin processedCommits'[s] =>
            pendingCredits'[s][x] \in Seq([addr : Addrs, amount : Nat])
    BY <1>3, <1>4, ZenonT(60) DEF ShardInv, Data
  <2>. QED  BY <1>4, <2>1, <2>2, ZenonT(60) DEF ShardInv, Data
<1>. QED  BY <1>2, <1>18, <1>19, <1>20, <1>21, <1>22, <1>23, <1>24, <1>25, ShardStep, ZenonT(60)
=============================================================================
