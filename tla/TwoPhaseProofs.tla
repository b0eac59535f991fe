--------------------------- MODULE TwoPhaseProofs ---------------------------
(***************************************************************************)
(* Proofs about the cross-shard protocol: the types, that a commit finds   *)
(* what its Locks took (CommitFindsLocks), and that a lock protects what   *)
(* it validated (LockedReadsStable).                                       *)
(*                                                                         *)
(* The inductive invariant, TwoPhaseInv, joins that of the orchestrator's  *)
(* chain (ChainInv) with one of each shard (ShardInv): the order of what   *)
(* is queued for a transaction (Queues), the locks of every RwSet that is  *)
(* kept (Locks), what each queued entry relies on (Entries), and what a    *)
(* YES vote promises until its result is processed (Promises).  A step of  *)
(* one shard leaves the others alone (OneShardInv), a step of the          *)
(* orchestrator all of them (NoShardInv).                                  *)
(***************************************************************************)
EXTENDS TwoPhaseExecutionProofs, OrchestratorChainProofs, FiniteSetTheorems
-----------------------------------------------------------------------------
(* The sort of ProduceBlock.                                               *)

\* RunsBefore is a strict total order on the positions of a queue.
LEMMA RunsBeforeTotal ==
  ASSUME NEW q, NEW i \in Nat, NEW j \in Nat
  PROVE  IF i = j THEN ~RunsBefore(q, i, j)
         ELSE RunsBefore(q, i, j) <=> ~RunsBefore(q, j, i)
<1>1. Priority(q[i].type) \in 1..5 /\ Priority(q[j].type) \in 1..5
  BY PriorityIsNat, SMTT(60)
<1>. QED  BY <1>1, SMTT(60) DEF RunsBefore

LEMMA RunsBeforeTransitive ==
  ASSUME NEW q, NEW i \in Nat, NEW j \in Nat, NEW k \in Nat,
         RunsBefore(q, i, j), RunsBefore(q, j, k)
  PROVE  RunsBefore(q, i, k)
<1>1. /\ Priority(q[i].type) \in 1..5
      /\ Priority(q[j].type) \in 1..5
      /\ Priority(q[k].type) \in 1..5
  BY PriorityIsNat, SMTT(60)
<1>. QED  BY <1>1, SMTT(60) DEF RunsBefore

\* The transactions that run before the one at position i.
Earlier(q, i) == {j \in 1..Len(q) : RunsBefore(q, j, i)}

LEMMA RankBounds ==
  ASSUME NEW q, Len(q) \in Nat, NEW i \in 1..Len(q)
  PROVE  IsFiniteSet(Earlier(q, i)) /\ Rank(q, i) = Cardinality(Earlier(q, i))
         /\ Rank(q, i) \in 0..(Len(q) - 1)
<1>. DEFINE n == Len(q)
<1>1. IsFiniteSet(1..n) /\ Cardinality(1..n) = n
  <2>1. 1 \in Int /\ n \in Int
    BY SMTT(60)
  <2>2. IsFiniteSet(1..n) /\ Cardinality(1..n) = IF 1 > n THEN 0 ELSE n - 1 + 1
    BY <2>1, FS_Interval, ZenonT(60)
  <2>. QED  BY <2>1, <2>2, SMTT(60)
<1>2. IsFiniteSet((1..n) \ {i}) /\ Cardinality((1..n) \ {i}) = n - 1
  BY <1>1, FS_RemoveElement, ZenonT(60)
<1>3. Earlier(q, i) \in SUBSET ((1..n) \ {i})
  BY RunsBeforeTotal DEF Earlier
<1>4. IsFiniteSet(Earlier(q, i)) /\ Cardinality(Earlier(q, i)) <= n - 1
  BY <1>2, <1>3, FS_Subset
<1>5. Cardinality(Earlier(q, i)) \in Nat
  BY <1>4, FS_CardinalityType
<1>6. Rank(q, i) = Cardinality(Earlier(q, i))
  BY SMTT(60) DEF Rank, Earlier
<1>. QED  BY <1>4, <1>5, <1>6, SMTT(60)

LEMMA RankGrows ==
  ASSUME NEW q, Len(q) \in Nat, NEW i \in 1..Len(q), NEW j \in 1..Len(q), RunsBefore(q, i, j)
  PROVE  Rank(q, i) < Rank(q, j)
<1>1. Earlier(q, i) \cup {i} \in SUBSET Earlier(q, j)
  <2>1. ASSUME NEW k \in Earlier(q, i) PROVE k \in Earlier(q, j)
    <3>1. k \in 1..Len(q) /\ RunsBefore(q, k, i)
      BY SMTT(60) DEF Earlier
    <3>2. k \in Nat /\ i \in Nat /\ j \in Nat
      BY <3>1, SMTT(60)
    <3>3. RunsBefore(q, k, j)
      BY <3>1, <3>2, RunsBeforeTransitive, ZenonT(60)
    <3>. QED  BY <3>1, <3>3, ZenonT(60) DEF Earlier
  <2>. QED  BY <2>1, SMTT(60) DEF Earlier
<1>2. i \notin Earlier(q, i)
  BY RunsBeforeTotal, SMTT(60) DEF Earlier
<1>3. Cardinality(Earlier(q, i) \cup {i}) = Rank(q, i) + 1
  <2>1. IsFiniteSet(Earlier(q, i)) /\ Rank(q, i) = Cardinality(Earlier(q, i))
    BY RankBounds, SMTT(60)
  <2>2. Cardinality(Earlier(q, i) \cup {i}) =
          IF i \in Earlier(q, i) THEN Cardinality(Earlier(q, i)) ELSE Cardinality(Earlier(q, i)) + 1
    BY <2>1, FS_AddElement, ZenonT(60)
  <2>. QED  BY <1>2, <2>1, <2>2, ZenonT(60)
<1>4. Cardinality(Earlier(q, i) \cup {i}) <= Cardinality(Earlier(q, j))
  BY <1>1, RankBounds, FS_Subset, ZenonT(60)
<1>5. Rank(q, j) = Cardinality(Earlier(q, j)) /\ Rank(q, i) \in Int /\ Rank(q, j) \in Int
  BY RankBounds, SMTT(60)
<1>. QED  BY <1>3, <1>4, <1>5, SMTT(60)

\* The position before the sort of the transaction that comes n-th after it.
Source(q) == [n \in 1..Len(q) |-> CHOOSE i \in 1..Len(q) : Rank(q, i) = n - 1]

LEMMA SourceIsRank ==
  ASSUME NEW q, Len(q) \in Nat, NEW n \in 1..Len(q)
  PROVE  Source(q)[n] \in 1..Len(q) /\ Rank(q, Source(q)[n]) = n - 1
<1>. DEFINE f == [i \in 1..Len(q) |-> Rank(q, i) + 1]
<1>1. f \in [1..Len(q) -> 1..Len(q)]
  BY RankBounds, SMTT(60)
<1>2. ASSUME NEW i \in 1..Len(q), NEW j \in 1..Len(q), i # j PROVE f[i] # f[j]
  <2>1. RunsBefore(q, i, j) \/ RunsBefore(q, j, i)
    BY <1>2, RunsBeforeTotal, SMTT(60)
  <2>2. Rank(q, i) # Rank(q, j)
    BY <2>1, RankGrows, RankBounds, SMTT(60)
  <2>3. Rank(q, i) \in Int /\ Rank(q, j) \in Int
    BY RankBounds, SMTT(60)
  <2>. QED  BY <2>2, <2>3, SMTT(60)
<1>3. f \in Injection(1..Len(q), 1..Len(q))
  BY <1>1, <1>2, ZenonT(60) DEF Injection, IsInjective
<1>4. f \in Surjection(1..Len(q), 1..Len(q))
  BY <1>3, FS_Interval, FS_Injection, SMTT(60)
<1>5. PICK i \in 1..Len(q) : f[i] = n
  BY <1>4, ZenonT(60) DEF Surjection
<1>6. Rank(q, i) = n - 1
  BY <1>5, RankBounds
<1>. QED  BY <1>6, ZenonT(60) DEF Source

\* sortTransactionsByPriority rearranges the queue: nothing is lost or run twice, and
\* what comes first runs before what comes later.
THEOREM SortRearranges ==
  ASSUME NEW S, NEW q \in Seq(S)
  PROVE  /\ SortTransactionsByPriority(q) \in Seq(S)
         /\ Len(SortTransactionsByPriority(q)) = Len(q)
         /\ \A n \in 1..Len(q) : /\ Source(q)[n] \in 1..Len(q)
                                 /\ SortTransactionsByPriority(q)[n] = q[Source(q)[n]]
         /\ \A m, n \in 1..Len(q) : m < n => RunsBefore(q, Source(q)[m], Source(q)[n])
<1>. DEFINE sorted == SortTransactionsByPriority(q)
<1>1. Len(q) \in Nat
  BY SMTT(60)
<1>2. \A n \in 1..Len(q) : Source(q)[n] \in 1..Len(q) /\ Rank(q, Source(q)[n]) = n - 1
  BY <1>1, SourceIsRank, ZenonT(60)
<1>3. sorted = [n \in 1..Len(q) |-> q[Source(q)[n]]]
  BY SMTT(60) DEF SortTransactionsByPriority, Source
<1>4. sorted \in Seq(S) /\ Len(sorted) = Len(q)
  BY <1>1, <1>2, <1>3, SMTT(60)
<1>5. ASSUME NEW m \in 1..Len(q), NEW n \in 1..Len(q), m < n
      PROVE  RunsBefore(q, Source(q)[m], Source(q)[n])
  <2>1. /\ Source(q)[m] \in 1..Len(q) /\ Rank(q, Source(q)[m]) = m - 1
        /\ Source(q)[n] \in 1..Len(q) /\ Rank(q, Source(q)[n]) = n - 1
    BY <1>2, ZenonT(60)
  <2>2. Source(q)[m] # Source(q)[n]
    BY <1>5, <2>1, SMTT(60)
  <2>3. ~RunsBefore(q, Source(q)[n], Source(q)[m])
    BY <1>1, <1>5, <2>1, RankGrows, SMTT(60)
  <2>4. Source(q)[m] \in Nat /\ Source(q)[n] \in Nat
    BY <1>1, <2>1, SMTT(60)
  <2>. QED  BY <2>2, <2>3, <2>4, RunsBeforeTotal, ZenonT(60)
<1>. QED  BY <1>2, <1>3, <1>4, <1>5, ZenonT(60)
-----------------------------------------------------------------------------
(* The invariant.                                                          *)

LEMMA InSorted ==
  ASSUME NEW S, NEW q \in Seq(S), InOrder(q)
  PROVE  /\ SortTransactionsByPriority(q) \in Seq(S)
         /\ InOrder(SortTransactionsByPriority(q))
         /\ \A f : In(f, SortTransactionsByPriority(q)) => In(f, q)
<1>. DEFINE sorted == SortTransactionsByPriority(q)
            src == Source(q)
<1>1. /\ sorted \in Seq(S) /\ Len(sorted) = Len(q)
      /\ \A n \in 1..Len(q) : src[n] \in 1..Len(q) /\ sorted[n] = q[src[n]]
      /\ \A m, n \in 1..Len(q) : m < n => RunsBefore(q, src[m], src[n])
  BY SortRearranges, ZenonT(60)
<1>. HIDE DEF sorted, src
<1>2. ASSUME NEW m \in 1..Len(q), NEW n \in 1..Len(q), m < n PROVE ~Bad(sorted[m], sorted[n])
  <2>1. /\ src[m] \in 1..Len(q) /\ src[n] \in 1..Len(q)
        /\ sorted[m] = q[src[m]] /\ sorted[n] = q[src[n]]
        /\ RunsBefore(q, src[m], src[n])
    BY <1>1, <1>2, ZenonT(60)
  <2>2. CASE src[m] < src[n]
    BY <2>1, <2>2, ZenonT(60) DEF InOrder
  <2>3. CASE ~(src[m] < src[n])
    <3>1. Priority(q[src[m]].type) < Priority(q[src[n]].type)
      BY <2>1, <2>3, ZenonT(60) DEF RunsBefore
    <3>2. src[m] # src[n]
      BY <3>1, PriorityIsNat, SMTT(60)
    <3>3. src[n] < src[m]
      BY <2>1, <2>3, <3>2, SMTT(60)
    <3>4. ~Bad(q[src[n]], q[src[m]])
      BY <2>1, <3>3, ZenonT(60) DEF InOrder
    <3>. QED  BY <2>1, <3>1, <3>4, BadSwapped, ZenonT(60)
  <2>. QED  BY <2>2, <2>3
<1>3. InOrder(sorted)
  BY <1>1, <1>2, ZenonT(60) DEF InOrder
<1>4. \A f : In(f, sorted) => In(f, q)
  BY <1>1, ZenonT(60) DEF In
<1>. QED  BY <1>1, <1>3, <1>4, ZenonT(60) DEF sorted
\* ProduceBlock takes the queue and sorts it.
LEMMA StartBlockInv ==
  ASSUME NEW s \in Shards, Domains, ShardInv(s), BeginShardBlock(s)
  PROVE  ShardInv(s)'
<1>1. /\ ~executing[s] /\ executing'[s] = TRUE
      /\ sortedTxs'[s] = SortTransactionsByPriority(currentTxs[s])
      /\ currentTxs'[s] = <<>> /\ adding' = adding
  BY SMTT(60) DEF BeginShardBlock, StartBlock, handlerVars, Domains
<1>2. /\ prepares' = prepares /\ processedCommits' = processedCommits
      /\ lastOrchestratorHeight' = lastOrchestratorHeight /\ ordersDone' = ordersDone
      /\ locked' = locked /\ pendingCredits' = pendingCredits /\ pendingCalls' = pendingCalls
      /\ slotLocks' = slotLocks /\ pendingRwSets' = pendingRwSets
      /\ blocks' = blocks /\ ballots' = ballots /\ voteNet' = voteNet
  BY SMTT(60) DEF BeginShardBlock, StartBlock, handlerVars, metadata, chainVars
<1>3. Keeps(s) /\ Progress(s)'
  BY <1>2, KeepsAll, ZenonT(60) DEF ShardInv, SameProgress
<1>4. Data(s)' /\ Calls(s)' /\ Locks(s)' /\ \A id : SameRwSet(s, id) /\ SameFunds(s, id)
  BY <1>2, <1>3, DataSame, ZenonT(60) DEF SameData, Keeps
<1>. DEFINE S == Entry(s)
            current == currentTxs[s]
            a == adding[s]
            sorted == SortTransactionsByPriority(current)
<1>5. /\ current \in Seq(S) /\ a \in Seq(S)
      /\ InOrder(current) /\ InOrder(a) /\ Before(current, a)
  BY SMTT(60) DEF ShardInv, Queues
<1>6. /\ sorted \in Seq(S) /\ InOrder(sorted)
      /\ \A f : In(f, sorted) => In(f, current)
  BY <1>5, InSorted, ZenonT(60)
<1>. HIDE DEF S, sorted
<1>7. <<>> \in Seq(S) /\ InOrder(<<>>) /\ \A f : ~In(f, <<>>)
  BY InEmpty, ZenonT(60)
<1>8. Before(sorted, a) /\ Before(sorted, <<>>) /\ Before(<<>>, a)
  BY <1>5, <1>6, <1>7, BeforeElements, ZenonT(60)
<1>9. sortedTxs'[s] = sorted
  BY <1>1, ZenonT(60) DEF sorted
<1>10. Queues(s)'
  BY <1>1, <1>5, <1>6, <1>7, <1>8, <1>9, ZenonT(60) DEF Queues, S
<1>11. \A e : Waiting(s, e)' => Waiting(s, e)
  BY <1>1, <1>6, <1>7, <1>9, ZenonT(60) DEF Waiting
<1>. QED  BY <1>2, <1>3, <1>4, <1>10, <1>11, ShardStep, ZenonT(60)

TwoPhaseInv ==
  /\ ChainInv
  /\ Domains
  /\ OrderedOnce
  /\ voteNet \subseteq Ballot
  /\ \A tx \in localChecked : AddressToShard[tx.to] = AddressToShard[tx.from]
  /\ \A s \in Shards : ShardInv(s)
LEMMA ChainIsSound ==
  ASSUME ChainInv
  PROVE  OrdersSound
  BY ZenonT(60) DEF ChainInv, UniqueIDs, CommittedUnanimous, OrdersSound

LEMMA ShardsOf ==
  ASSUME TwoPhaseInv
  PROVE  ShardsInv
  BY DEF TwoPhaseInv, ShardsInv

LEMMA SameOrderedOnce ==
  ASSUME OrderedOnce, blocks' = blocks
  PROVE  OrderedOnce'
  BY DEF OrderedOnce, height

\* A step of one shard keeps the invariant if it keeps that of the shard.
LEMMA OneShardInv ==
  ASSUME TwoPhaseInv, NEW s \in Shards, ActsOn(s), UNCHANGED chainVars, ShardInv(s)',
         voteNet' \subseteq Ballot, \A b \in voteNet' : b \in voteNet \/ b.shard = s,
         localChecked' = localChecked
  PROVE  TwoPhaseInv'
<1>1. ChainInv'
  BY StutterInv, ZenonT(60) DEF TwoPhaseInv
<1>2. Domains' /\ \A r \in Shards : r # s => SameShard(r)
  BY OthersUntouched, SMTT(60) DEF TwoPhaseInv
<1>3. blocks' = blocks /\ ballots' = ballots
  BY SMTT(60) DEF chainVars
<1>4. OrderedOnce'
  BY <1>3, SameOrderedOnce, ZenonT(60) DEF TwoPhaseInv
<1>5. ASSUME NEW r \in Shards PROVE ShardInv(r)'
  <2>1. CASE r = s
    BY <2>1, ZenonT(60)
  <2>2. CASE r # s
    <3>1. SameShard(r) /\ ShardInv(r)
      BY <1>2, <2>2, ZenonT(60) DEF TwoPhaseInv
    <3>2. ASSUME NEW x, VotedYes(r, x)' PROVE VotedYes(r, x)
      <4>. DEFINE b == [id |-> x, shard |-> r, vote |-> TRUE]
      <4>1. b.shard = r
        BY SMTT(60)
      <4>. HIDE DEF b
      <4>2. b \in voteNet' => b \in voteNet
        BY <2>2, <4>1, ZenonT(60)
      <4>. QED  BY <1>3, <3>1, <3>2, <4>2, ZenonT(60) DEF VotedYes, SameShard, b
    <3>. QED  BY <1>3, <3>1, <3>2, ShardUntouched, ZenonT(60)
  <2>. QED  BY <2>1, <2>2, ZenonT(60)
<1>. QED  BY <1>1, <1>2, <1>4, <1>5, ZenonT(60) DEF TwoPhaseInv

\* The steps of the shards.
LEMMA ShardStepsInv ==
  ASSUME TwoPhaseInv, NEW s \in Shards,
         \/ HandleResult(s) \/ HandleOrder(s) \/ HandleEnd(s) \/ HandlerAddsTx(s)
         \/ BeginShardBlock(s) \/ RunTx(s) \/ EndShardBlock(s)
         \/ \E tx \in LocalTxs : ClientQueuesLocal(s, tx)
  PROVE  TwoPhaseInv'
<1>0. OrdersSound
  BY ChainIsSound, ZenonT(60) DEF TwoPhaseInv
<1>1. /\ ChainInv /\ Domains /\ OrderedOnce /\ ShardInv(s) /\ voteNet \subseteq Ballot
      /\ \A tx \in localChecked : AddressToShard[tx.to] = AddressToShard[tx.from]
  BY SMTT(60) DEF TwoPhaseInv
<1>2. ActsOn(s)
  BY ShardActsOn, ZenonT(60)
<1>3. UNCHANGED chainVars /\ localChecked' = localChecked
  BY ZenonT(60) DEF HandleResult, HandleOrder, HandleEnd, HandlerAddsTx, BeginShardBlock, RunTx,
         EndShardBlock, ClientQueuesLocal, localVars
<1>4. ShardInv(s)'
  BY <1>0, <1>1, HandleResultInv, HandleOrderInv, HandleEndInv, AddTxInv, StartBlockInv,
     RunTxInv, EndBlockInv, QueueLocalInv
<1>5. voteNet' \subseteq Ballot /\ \A b \in voteNet' : b \in voteNet \/ b.shard = s
  <2>1. CASE ~EndShardBlock(s)
    <3>1. voteNet' = voteNet
      BY <2>1, ZenonT(60) DEF HandleResult, HandleOrder, HandleEnd, HandlerAddsTx, BeginShardBlock, RunTx,
                  ClientQueuesLocal
    <3>. QED  BY <1>1, <3>1, ZenonT(60)
  <2>2. CASE EndShardBlock(s)
    <3>. DEFINE sent == {[id |-> id, shard |-> s, vote |-> prepares[s][id]] : id \in DOMAIN prepares[s]}
    <3>1. voteNet' = voteNet \cup sent
      BY <2>2, ZenonT(60) DEF EndShardBlock
    <3>2. \A b \in sent : b \in Ballot /\ b.shard = s
      <4>1. ASSUME NEW id \in DOMAIN prepares[s]
            PROVE  /\ [id |-> id, shard |-> s, vote |-> prepares[s][id]] \in Ballot
                   /\ [id |-> id, shard |-> s, vote |-> prepares[s][id]].shard = s
        <5>1. id \in TxIDs /\ prepares[s][id] \in BOOLEAN
          BY <1>1, ZenonT(60) DEF ShardInv, Data
        <5>. QED  BY <5>1, ZenonT(60) DEF Ballot
      <4>. QED  BY <4>1, ZenonT(60)
    <3>. HIDE DEF sent
    <3>. QED  BY <1>1, <3>1, <3>2, ZenonT(60)
  <2>. QED  BY <2>1, <2>2, ZenonT(60)
<1>. QED  BY <1>2, <1>3, <1>4, <1>5, OneShardInv, ZenonT(60)
-----------------------------------------------------------------------------
(* The steps of the orchestrator, the simulator and the clients.           *)

LEMMA ShardsIdle ==
  ASSUME UNCHANGED shardVars
  PROVE  \A s : SameShard(s)
<1>1. /\ locked' = locked /\ pendingCredits' = pendingCredits /\ pendingCalls' = pendingCalls
      /\ slotLocks' = slotLocks /\ pendingRwSets' = pendingRwSets
      /\ adding' = adding /\ processedCommits' = processedCommits
      /\ lastOrchestratorHeight' = lastOrchestratorHeight /\ ordersDone' = ordersDone
      /\ currentTxs' = currentTxs /\ executing' = executing /\ sortedTxs' = sortedTxs
      /\ prepares' = prepares
  BY SMTT(60) DEF shardVars, metadata, handlerVars, blockVars
<1>. QED  BY <1>1, ZenonT(60) DEF SameShard, SameQueues, SameData, SameProgress

LEMMA SameDomains ==
  ASSUME UNCHANGED shardVars, Domains
  PROVE  Domains'
  BY SMTT(60) DEF shardVars, metadata, handlerVars, blockVars, Domains

\* A step that produces no block and that no shard takes part in.
LEMMA NoShardInv ==
  ASSUME TwoPhaseInv, UNCHANGED shardVars, ChainInv', blocks' = blocks,
         voteNet' \subseteq Ballot,
         \A b : b.vote /\ b \in voteNet' \cup ballots' => b \in voteNet \cup ballots,
         \A tx \in localChecked' : AddressToShard[tx.to] = AddressToShard[tx.from]
  PROVE  TwoPhaseInv'
<1>1. Domains' /\ OrderedOnce'
  BY SameDomains, SameOrderedOnce, ZenonT(60) DEF TwoPhaseInv
<1>2. ASSUME NEW r \in Shards PROVE ShardInv(r)'
  <2>1. SameShard(r) /\ ShardInv(r)
    BY ShardsIdle, ZenonT(60) DEF TwoPhaseInv
  <2>2. ASSUME NEW x, VotedYes(r, x)' PROVE VotedYes(r, x)
    <3>. DEFINE b == [id |-> x, shard |-> r, vote |-> TRUE]
    <3>1. b.vote
      BY SMTT(60)
    <3>. HIDE DEF b
    <3>2. b \in voteNet' \cup ballots' => b \in voteNet \cup ballots
      BY <3>1, ZenonT(60)
    <3>. QED  BY <2>1, <2>2, <3>2, ZenonT(60) DEF VotedYes, SameShard, b
  <2>. QED  BY <2>1, <2>2, ShardUntouched, ZenonT(60)
<1>. QED  BY <1>1, <1>2, ZenonT(60) DEF TwoPhaseInv

LEMMA HandledIsOrdered ==
  ASSUME NEW s, NEW id, Handled(s, id)
  PROVE  \E h \in 1..height : Orders(h, id)
  BY ZenonT(60) DEF Handled, Orders

\* A new block orders only transactions on which no shard has voted.
LEMMA ProduceInv ==
  ASSUME TwoPhaseInv, Produce
  PROVE  TwoPhaseInv'
<1>1. /\ ProduceBlock /\ UNCHANGED shardVars /\ voteNet' = voteNet /\ localChecked' = localChecked
  BY ZenonT(60) DEF Produce, localVars
<1>2. ChainInv /\ ChainInv'
  BY <1>1, ProduceBlockInv, ZenonT(60) DEF TwoPhaseInv
<1>3. /\ height \in Nat /\ height' = height + 1
      /\ \A h, tx : OrderedIn(tx, h)' <=>
           OrderedIn(tx, h) \/ (h = height + 1 /\ \E i \in 1..Len(pendingTxs) : pendingTxs[i] = tx)
  BY <1>1, <1>2, NewBlock, ZenonT(60)
<1>4. ballots' = ballots
  BY <1>1, ZenonT(60) DEF ProduceBlock
<1>5. /\ \A h \in 1..height : h \in 1..height' /\ blocks'[h] = blocks[h]
      /\ \A h \in 1..height' : h \in 1..height \/ h = height + 1
      /\ blocks'[height + 1].ctToOrder = pendingTxs
  <2>0. PICK block : block = [tpcResult |-> ResultsWithTimeouts, ctToOrder |-> pendingTxs]
    BY ZenonT(60)
  <2>1. blocks' = Append(blocks, block) /\ block.ctToOrder = pendingTxs
    BY <1>1, <2>0, Zenon DEF ProduceBlock
  <2>2. blocks \in Seq(Block)
    BY <1>2, ZenonT(60) DEF ChainInv, ChainTypeOK
  <2>. QED  BY <2>1, <2>2, SMTT(60) DEF height
<1>6. OrderedOnce'
  <2>1. ASSUME NEW h \in 1..height', NEW i \in 1..Len(blocks'[h].ctToOrder),
               NEW j \in 1..Len(blocks'[h].ctToOrder),
               blocks'[h].ctToOrder[i].id = blocks'[h].ctToOrder[j].id
        PROVE  i = j
    <3>1. CASE h \in 1..height
      BY <1>5, <2>1, <3>1, ZenonT(60) DEF TwoPhaseInv, OrderedOnce
    <3>2. CASE h = height + 1
      BY <1>2, <1>5, <2>1, <3>2, ZenonT(60) DEF ChainInv, UniqueIDs
    <3>. QED  BY <1>5, <3>1, <3>2, ZenonT(60)
  <2>. QED  BY <2>1, ZenonT(60) DEF OrderedOnce
<1>7. Domains'
  BY <1>1, SameDomains, ZenonT(60) DEF TwoPhaseInv
<1>8. ASSUME NEW s \in Shards PROVE ShardInv(s)'
  <2>1. /\ ShardInv(s) /\ SameQueues(s) /\ SameData(s) /\ SameProgress(s)
        /\ processedCommits'[s] = processedCommits[s] /\ prepares'[s] = prepares[s]
    BY <1>1, ShardsIdle, ZenonT(60) DEF TwoPhaseInv, SameShard
  <2>2. Queues(s)' /\ \A e : Waiting(s, e)' <=> Waiting(s, e)
    BY <2>1, QueuesSame, ZenonT(60) DEF ShardInv
  <2>3. Data(s)'
    BY <2>1, ZenonT(60) DEF ShardInv, Data, SameData
  <2>4. \A tx : OrderedFor(s, tx) => OrderedFor(s, tx)'
    BY <1>3, <1>5, ZenonT(60) DEF OrderedFor
  <2>5. Calls(s)'
    <3>1. \A id \in DOMAIN pendingCalls'[s] :
            \E tx \in CrossShardTx : pendingCalls'[s][id] = tx /\ tx.id = id /\ OrderedFor(s, tx)'
      BY <2>1, <2>4, SMTT(60) DEF ShardInv, Calls, SameData
    <3>. QED  BY <3>1, ZenonT(60) DEF Calls
  <2>6. \A id : Handled(s, id) => Handled(s, id)'
    BY <1>5, <2>1, ZenonT(60) DEF Handled, SameProgress
  <2>7. Locks(s)'
    BY <2>1, <2>6, LocksKept, ZenonT(60) DEF ShardInv, SameData
  <2>8. Progress(s)'
    BY <1>3, <2>1 DEF ShardInv, Progress, SameProgress
  <2>9. \A id : VotedYes(s, id)' => VotedYes(s, id)
    BY <1>1, <1>4, <2>1, SameVotes, ZenonT(60)
  <2>10. Keeps(s)
    BY <2>1, <2>4, <2>6, <2>9, ZenonT(60) DEF Keeps
  <2>11. \A id : SameRwSet(s, id) /\ SameFunds(s, id)
    BY <2>1, ZenonT(60) DEF SameRwSet, SameFunds, SameData
  <2>12. Entries(s)'
    BY <2>1, <2>2, <2>10, <2>11, EntriesKept, ZenonT(60) DEF ShardInv
  <2>13. ASSUME NEW tx \in CrossShardTx, NEW h \in 1..height', OrderedIn(tx, h)', VotedYes(s, tx.id)
         PROVE  h \in 1..height /\ OrderedIn(tx, h)
    <3>1. CASE OrderedIn(tx, h)
      BY <3>1, SMTT(60) DEF OrderedIn
    <3>2. CASE \E i \in 1..Len(pendingTxs) : pendingTxs[i] = tx
      <4>1. PICK i \in 1..Len(pendingTxs) : pendingTxs[i] = tx
        BY <3>2, ZenonT(60)
      <4>2. PICK k \in 1..height : Orders(k, tx.id)
        BY <2>1, <2>13, HandledIsOrdered, ZenonT(60) DEF ShardInv, Promises
      <4>3. ~Orders(k, pendingTxs[i].id)
        BY <1>2, ZenonT(60) DEF ChainInv, UniqueIDs
      <4>. QED  BY <4>1, <4>2, <4>3, ZenonT(60)
    <3>. QED  BY <1>3, <2>13, <3>1, <3>2, ZenonT(60)
  <2>14. Promises(s)'
    BY <2>1, <2>10, <2>11, <2>13, PromisesKept, ZenonT(60) DEF ShardInv
  <2>. QED  BY <2>2, <2>3, <2>5, <2>7, <2>8, <2>12, <2>14, ZenonT(60) DEF ShardInv
<1>. QED  BY <1>1, <1>2, <1>6, <1>7, <1>8, ZenonT(60) DEF TwoPhaseInv

\* A vote that arrives is one that was sent.
LEMMA DeliverVoteInv ==
  ASSUME TwoPhaseInv, NEW b \in voteNet, DeliverVote(b)
  PROVE  TwoPhaseInv'
<1>1. /\ RecordVote(b.id, b.shard, b.vote) /\ voteNet' = voteNet \ {b}
      /\ UNCHANGED shardVars /\ localChecked' = localChecked
  BY ZenonT(60) DEF DeliverVote, localVars
<1>2. /\ b.id \in TxIDs /\ b.shard \in Shards /\ b.vote \in BOOLEAN
      /\ b = [id |-> b.id, shard |-> b.shard, vote |-> b.vote]
  BY ZenonT(60) DEF TwoPhaseInv, Ballot
<1>3. ChainInv'
  <2>1. [ChainNext]_chainVars
    BY <1>1, <1>2, ZenonT(60) DEF ChainNext
  <2>. QED  BY <2>1, NextInv, ZenonT(60) DEF TwoPhaseInv
<1>4. blocks' = blocks
  BY <1>1, ZenonT(60) DEF RecordVote, RecordNo, RecordYes, IgnoreVote, chainVars
<1>5. \A x : x.vote /\ x \in ballots' => x \in ballots \/ x = b
  <2>1. CASE ~b.vote /\ RecordNo(b.id, b.shard)
    <3>. DEFINE new == [id |-> b.id, shard |-> b.shard, vote |-> FALSE]
    <3>1. ballots' = ballots \cup {new} /\ ~new.vote
      BY <2>1, ZenonT(60) DEF RecordNo
    <3>. HIDE DEF new
    <3>. QED  BY <3>1, ZenonT(60)
  <2>2. CASE b.vote /\ RecordYes(b.id, b.shard)
    <3>. DEFINE new == [id |-> b.id, shard |-> b.shard, vote |-> TRUE]
    <3>1. ballots' = ballots \cup {new}
      BY <2>2, ZenonT(60) DEF RecordYes
    <3>2. b.vote = TRUE
      BY <1>2, <2>2, ZenonT(60)
    <3>3. new = b
      BY <1>2, <3>2, ZenonT(60)
    <3>. HIDE DEF new
    <3>. QED  BY <3>1, <3>3, ZenonT(60)
  <2>3. CASE IgnoreVote(b.id, b.shard)
    BY <2>3, ZenonT(60) DEF IgnoreVote, chainVars
  <2>. QED  BY <1>1, <2>1, <2>2, <2>3, ZenonT(60) DEF RecordVote
<1>6. voteNet' \subseteq Ballot
  BY <1>1, ZenonT(60) DEF TwoPhaseInv
<1>7. \A x : x.vote /\ x \in voteNet' \cup ballots' => x \in voteNet \cup ballots
  BY <1>1, <1>5, ZenonT(60)
<1>8. \A tx \in localChecked' : AddressToShard[tx.to] = AddressToShard[tx.from]
  BY <1>1, ZenonT(60) DEF TwoPhaseInv
<1>. QED  BY <1>1, <1>3, <1>4, <1>6, <1>7, <1>8, NoShardInv, ZenonT(60)

\* The simulator and the clients' checks: at most a transaction is submitted.
LEMMA QuietInv ==
  ASSUME TwoPhaseInv, UNCHANGED shardVars, voteNet' = voteNet,
         UNCHANGED chainVars \/ \E tx : Submit(tx),
         \A tx \in localChecked' : AddressToShard[tx.to] = AddressToShard[tx.from]
  PROVE  TwoPhaseInv'
<1>1. blocks' = blocks /\ ballots' = ballots
  BY ZenonT(60) DEF Submit, AddTransaction, chainVars
<1>2. ChainInv'
  <2>1. CASE UNCHANGED chainVars
    BY <2>1, StutterInv, ZenonT(60) DEF TwoPhaseInv
  <2>2. ASSUME NEW tx, Submit(tx) PROVE ChainInv'
    BY <2>2, AddTransactionInv, ZenonT(60) DEF Submit, TwoPhaseInv
  <2>. QED  BY <2>1, <2>2, ZenonT(60)
<1>3. voteNet' \subseteq Ballot
  BY SMTT(60) DEF TwoPhaseInv
<1>4. \A b : b.vote /\ b \in voteNet' \cup ballots' => b \in voteNet \cup ballots
  BY <1>1, ZenonT(60)
<1>. QED  BY <1>1, <1>2, <1>3, <1>4, NoShardInv, ZenonT(60)

\* NewServer and NewChain: nothing is queued or held.
LEMMA TwoPhaseInitInv == Init => TwoPhaseInv
<1>. SUFFICES ASSUME Init PROVE TwoPhaseInv
  BY SMTT(60)
<1>1. ChainInv
  BY InitInv, ZenonT(60) DEF Init
<1>2. blocks = <<>> /\ height = 0 /\ ballots = {} /\ voteNet = {} /\ localChecked = {}
  BY ZenonT(60) DEF Init, ChainInit, height
<1>3. Domains
  BY SMTT(60) DEF Init, ShardInit, Domains
<1>4. OrderedOnce
  BY <1>2, SMTT(60) DEF OrderedOnce
<1>5. ASSUME NEW s \in Shards PROVE ShardInv(s)
  <2>1. /\ sortedTxs[s] = <<>> /\ currentTxs[s] = <<>> /\ adding[s] = <<>>
        /\ prepares[s] = EmptyMap /\ locked[s] = EmptyMap /\ pendingCredits[s] = EmptyMap
        /\ pendingCalls[s] = EmptyMap /\ slotLocks[s] = EmptyMap /\ pendingRwSets[s] = EmptyMap
        /\ processedCommits[s] = {} /\ lastOrchestratorHeight[s] = 0 /\ ordersDone[s] = 0
    BY SMTT(60) DEF Init, ShardInit
  <2>2. DOMAIN EmptyMap = {} /\ \A S : EmptyMap \in [DOMAIN EmptyMap -> S]
    BY SMTT(60) DEF EmptyMap
  <2>3. \A S : <<>> \in Seq(S) /\ InOrder(<<>>) /\ Before(<<>>, <<>>)
    BY InEmpty, SMTT(60) DEF Before
  <2>4. Queues(s)
    BY <2>1, <2>3, ZenonT(60) DEF Queues
  <2>5. Data(s)
    BY <2>1, <2>2, ZenonT(60) DEF Data
  <2>6. Calls(s) /\ Locks(s)
    BY <2>1, <2>2, ZenonT(60) DEF Calls, Locks
  <2>7. Progress(s)
    BY <1>2, <2>1, SMTT(60) DEF Progress
  <2>8. Entries(s)
    BY <2>1, InEmpty, ZenonT(60) DEF Entries, Waiting
  <2>9. \A id : ~VotedYes(s, id)
    BY <1>2, <2>1, <2>2, ZenonT(60) DEF VotedYes
  <2>10. Promises(s)
    BY <2>9, ZenonT(60) DEF Promises
  <2>. QED  BY <2>4, <2>5, <2>6, <2>7, <2>8, <2>10, ZenonT(60) DEF ShardInv
<1>. QED  BY <1>1, <1>2, <1>3, <1>4, <1>5, ZenonT(60) DEF TwoPhaseInv

LEMMA TwoPhaseNextInv == TwoPhaseInv /\ [Next]_vars => TwoPhaseInv'
<1>. SUFFICES ASSUME TwoPhaseInv, [Next]_vars PROVE TwoPhaseInv'
  BY SMTT(60)
<1>. QED  BY ShardsOf, StepCases, ShardStepsInv, ProduceInv, DeliverVoteInv, QuietInv, ZenonT(60)

LEMMA TwoPhaseInvariant == Spec => []TwoPhaseInv
BY TwoPhaseInitInv, TwoPhaseNextInv, PTL DEF Spec

\* A YES vote is a promise: whatever votes are lost or late, and however the blocks
\* of the shards interleave, the commit of a transaction finds the RwSet, the slot
\* locks and the funds that its Lock took.
THEOREM CommitsFindTheirLocks == Spec => []CommitFindsLocks
<1>1. TwoPhaseInv => CommitFindsLocks
  <2>. SUFFICES ASSUME TwoPhaseInv, NEW tx \in Committed, NEW s \in InvolvedShards(tx),
                       tx.id \notin processedCommits[s]
                PROVE  /\ Holds(s, tx)
                       /\ \A k \in ReadSlots(LocalRwSet(s, tx.rwSet)) :
                            k \in DOMAIN slotLocks[s] /\ slotLocks[s][k] = tx.id
    BY ZenonT(60) DEF CommitFindsLocks, Holds
  <2>1. PICK h \in 1..height : \E i \in 1..Len(blocks[h].ctToOrder) :
          tx = blocks[h].ctToOrder[i] /\ Result(tx.id, TRUE)
    BY ZenonT(60) DEF Committed
  <2>2. blocks[h].ctToOrder \in Seq(CrossShardTx)
    <3>1. blocks[h] \in Block
      BY SMTT(60) DEF TwoPhaseInv, ChainInv, ChainTypeOK, height
    <3>. QED  BY <3>1 DEF Block
  <2>3. tx \in CrossShardTx /\ OrderedIn(tx, h) /\ Result(tx.id, TRUE)
    <3>1. PICK i \in 1..Len(blocks[h].ctToOrder) : tx = blocks[h].ctToOrder[i]
      BY <2>1
    <3>2. tx \in CrossShardTx
      BY <2>2, <3>1, SMTT(60)
    <3>. QED  BY <2>1, <3>1, <3>2, ZenonT(60) DEF OrderedIn
  <2>4. Unanimous(tx)
    BY <2>3, ZenonT(60) DEF TwoPhaseInv, ChainInv, CommittedUnanimous
  <2>5. VotedYes(s, tx.id)
    BY <2>4, ZenonT(60) DEF Unanimous, VotedYes
  <2>6. s \in Shards
    BY <2>3, ChainAssumption, ZenonT(60)
  <2>7. ShardInv(s)
    BY <2>6, ZenonT(60) DEF TwoPhaseInv
  <2>8. Holds(s, tx)
    BY <2>3, <2>5, <2>7, ZenonT(60) DEF ShardInv, Promises
  <2>9. \A k \in ReadSlots(LocalRwSet(s, tx.rwSet)) :
          k \in DOMAIN slotLocks[s] /\ slotLocks[s][k] = tx.id
    BY <2>7, <2>8, ZenonT(60) DEF ShardInv, Locks, Holds
  <2>. QED  BY <2>8, <2>9, ZenonT(60)
<1>. QED  BY <1>1, TwoPhaseInvariant, PTL
-----------------------------------------------------------------------------
(* The accounts.                                                           *)

\* What the shards and the network hold is of the right shape, and no debit takes
\* a balance below zero, whatever the order of blocks, votes and local transactions.
THEOREM TwoPhaseTypeCorrect == Spec => []TypeOK
<1>1. Init => AccountTypes
  BY ShardAssumption, SMTT(60) DEF Init, ShardInit, AccountTypes
<1>2. TwoPhaseInv /\ AccountTypes /\ [Next]_vars => AccountTypes'
  BY ShardsOf, AccountTypesNext, ZenonT(60)
<1>3. TwoPhaseInv /\ AccountTypes => TypeOK
  <2>. SUFFICES ASSUME TwoPhaseInv, AccountTypes PROVE TypeOK
    BY ZenonT(60)
  <2>1. ASSUME NEW s \in Shards
        PROVE  /\ \A i \in 1..Len(Outstanding(s)) : Outstanding(s)[i].type \in TxType
               /\ DOMAIN locked[s] \cup DOMAIN pendingCredits[s] \cup DOMAIN pendingCalls[s]
                    \cup DOMAIN pendingRwSets[s] \cup processedCommits[s] \subseteq TxIDs
               /\ slotLocks[s] \in [DOMAIN slotLocks[s] -> TxIDs]
               /\ lastOrchestratorHeight[s] \in 0..height
               /\ ~executing[s] => sortedTxs[s] = <<>>
    <3>1. Queues(s) /\ Data(s) /\ Progress(s)
      BY ZenonT(60) DEF TwoPhaseInv, ShardInv
    <3>2. Outstanding(s) \in Seq(Entry(s))
      BY <3>1 DEF Outstanding, Queues
    <3>3. \A i \in 1..Len(Outstanding(s)) : Outstanding(s)[i] \in Entry(s)
      BY <3>2, SMTT(60)
    <3>4. \A i \in 1..Len(Outstanding(s)) : Outstanding(s)[i].type \in TxType
      BY <3>3, EntryShape, ZenonT(60)
    <3>5. /\ DOMAIN locked[s] \cup DOMAIN pendingCredits[s] \cup DOMAIN pendingCalls[s]
               \cup DOMAIN pendingRwSets[s] \cup processedCommits[s] \subseteq TxIDs
          /\ slotLocks[s] \in [DOMAIN slotLocks[s] -> TxIDs]
      BY <3>1, ZenonT(60) DEF Data
    <3>. QED  BY <3>1, <3>4, <3>5, ZenonT(60) DEF Queues, Progress
  <2>. QED  BY <2>1, ZenonT(60) DEF TypeOK, AccountTypes, TwoPhaseInv
<1>. QED  BY <1>1, <1>2, <1>3, TwoPhaseInvariant, PTL DEF Spec

\* A lock protects what was validated, if RwSets are as BuildRwSet returns them: while
\* a shard holds the RwSet of a transaction, neither the effects of another transaction
\* nor a local transaction changes a slot that it read, but for nested calls of a local
\* transaction (the limitation that chain.go documents).
THEOREM LocksProtectReads ==
  ASSUME SimulatedRwSets
  PROVE  Spec => []LockedReadsStable
<1>1. Init => AccountTypes
  BY ShardAssumption, SMTT(60) DEF Init, ShardInit, AccountTypes
<1>2. Init => LockedReadsStable
  BY ZenonT(60) DEF Init, ShardInit, LockedReadsStable, EmptyMap
<1>3. TwoPhaseInv /\ AccountTypes /\ [Next]_vars => AccountTypes'
  BY ShardsOf, AccountTypesNext
<1>4. TwoPhaseInv /\ AccountTypes /\ LockedReadsStable /\ [Next]_vars => LockedReadsStable'
  BY ShardsOf, LockedReadsNext
<1>. QED  BY <1>1, <1>2, <1>3, <1>4, TwoPhaseInvariant, PTL DEF Spec
=============================================================================
