----------------------- MODULE OrchestratorChainProofs -----------------------
(***************************************************************************)
(* Proofs about OrchestratorChain, for any sets of shards, transactions    *)
(* and transaction IDs, any vote timeout and any bound on the height.      *)
(*                                                                         *)
(* The inductive invariant ChainInv says where a transaction ID can be: in *)
(* pendingTxs or in one place of one block; then among awaitingVotes, in   *)
(* pendingResult or in the results of one later block; and that what is    *)
(* kept in votes was accepted as a ballot.                                 *)
(*                                                                         *)
(* The proofs see blocks through Orders, OrderedIn, ResultAt and Published *)
(* only: SameBlocks says that these do not change when no block is         *)
(* produced, and NewBlock what ProduceBlock adds to them.                  *)
(***************************************************************************)
EXTENDS OrchestratorChain, TLAPS

\* An ID is used once, in pendingTxs or in a block.
UniqueIDs ==
  /\ \A i, j \in 1..Len(pendingTxs) : pendingTxs[i].id = pendingTxs[j].id => i = j
  /\ \A i \in 1..Len(pendingTxs) : \A h \in 1..height : ~Orders(h, pendingTxs[i].id)
  /\ \A h, k \in 1..height : \A tx, ty \in CrossShardTx :
       OrderedIn(tx, h) /\ OrderedIn(ty, k) /\ tx.id = ty.id => h = k /\ tx = ty

\* Only ordered transactions have results or ballots; one that awaits votes has
\* no NO ballot; the votes kept are ballots.
ResultsOrdered == \A id \in DOMAIN pendingResult : \E h \in 1..height : Orders(h, id)

BallotsMatch ==
  /\ \A b \in ballots : \E h \in 1..height : Orders(h, b.id)
  /\ \A b \in ballots : b.id \in DOMAIN awaitingVotes => b.vote
  /\ \A id \in DOMAIN votes : \A s \in DOMAIN votes[id] :
       [id |-> id, shard |-> s, vote |-> TRUE] \in ballots

\* CommitUnanimous without the positions in the blocks.
CommittedUnanimous ==
  \A h \in 1..height : \A tx \in CrossShardTx :
    OrderedIn(tx, h) /\ Result(tx.id, TRUE) => Unanimous(tx)

ChainInv ==
  /\ ChainTypeOK
  /\ UniqueIDs
  /\ BookkeepingInStep
  /\ DecidedOnce
  /\ ResultsOrdered
  /\ BallotsMatch
  /\ CommittedUnanimous
-----------------------------------------------------------------------------
\* NewOrchestratorChain: the chain starts with nothing ordered.
LEMMA InitInv == ChainInit => ChainInv
<1> SUFFICES ASSUME ChainInit PROVE ChainInv
  OBVIOUS
<1> USE DEF ChainInit
<1>0. height = 0
  BY DEF height
<1>1. ChainTypeOK
  BY DEF ChainTypeOK, EmptyMap
<1>2. UniqueIDs
  BY <1>0 DEF UniqueIDs
<1>3. BookkeepingInStep
  BY DEF BookkeepingInStep, EmptyMap
<1>4. DecidedOnce
  BY <1>0 DEF DecidedOnce, EmptyMap
<1>5. ResultsOrdered /\ BallotsMatch
  BY DEF ResultsOrdered, BallotsMatch, EmptyMap
<1>6. CommittedUnanimous
  BY <1>0 DEF CommittedUnanimous
<1> QED
  BY <1>1, <1>2, <1>3, <1>4, <1>5, <1>6 DEF ChainInv
-----------------------------------------------------------------------------
(* What the blocks say.                                                    *)

\* A step that produces no block changes nothing that blocks say.
LEMMA SameBlocks ==
  ASSUME blocks' = blocks
  PROVE  /\ height' = height
         /\ \A h, id : Orders(h, id)' <=> Orders(h, id)
         /\ \A h, tx : OrderedIn(tx, h)' <=> OrderedIn(tx, h)
         /\ \A h, id : ResultAt(id, h)' <=> ResultAt(id, h)
         /\ \A id, res : Published(id, res)' <=> Published(id, res)
<1>1. height' = height
  BY DEF height
<1>2. \A h, id : Orders(h, id)' <=> Orders(h, id)
  BY <1>1 DEF Orders
<1>3. \A h, tx : OrderedIn(tx, h)' <=> OrderedIn(tx, h)
  BY <1>1 DEF OrderedIn
<1>4. \A h, id : ResultAt(id, h)' <=> ResultAt(id, h)
  BY <1>1 DEF ResultAt
<1>5. \A id, res : Published(id, res)' <=> Published(id, res)
  BY <1>1, <1>4 DEF Published
<1> QED
  BY <1>1, <1>2, <1>3, <1>4, <1>5

\* A block orders an ID if and only if it orders a transaction with that ID.
LEMMA OrdersIsOrderedIn ==
  ASSUME ChainTypeOK, NEW h, NEW id
  PROVE  Orders(h, id) <=> \E tx \in CrossShardTx : OrderedIn(tx, h) /\ tx.id = id
<1>0. h \in 1..height => blocks[h] \in Block
  BY DEF ChainTypeOK, height
<1>1. h \in 1..height => blocks[h].ctToOrder \in Seq(CrossShardTx)
  BY <1>0 DEF Block
<1>2. h \in 1..height => \A i \in 1..Len(blocks[h].ctToOrder) : blocks[h].ctToOrder[i] \in CrossShardTx
  BY <1>1
<1> QED
  BY <1>2 DEF Orders, OrderedIn

\* A step that adds no transaction and produces no block keeps IDs unique.
LEMMA SameUniqueIDs ==
  ASSUME UniqueIDs, blocks' = blocks, pendingTxs' = pendingTxs
  PROVE  UniqueIDs'
<1>1. \A i, j \in 1..Len(pendingTxs') : pendingTxs'[i].id = pendingTxs'[j].id => i = j
  BY DEF UniqueIDs
<1>2. \A i \in 1..Len(pendingTxs') : \A h \in 1..height' : ~Orders(h, pendingTxs[i].id)'
  <2> SUFFICES ASSUME NEW i \in 1..Len(pendingTxs), NEW h \in 1..height
               PROVE  ~Orders(h, pendingTxs[i].id)'
    BY SameBlocks
  <2>1. ~Orders(h, pendingTxs[i].id)
    BY DEF UniqueIDs
  <2> QED
    BY <2>1 DEF Orders, height
<1>3. \A h, k \in 1..height' : \A tx, ty \in CrossShardTx :
        OrderedIn(tx, h)' /\ OrderedIn(ty, k)' /\ tx.id = ty.id => h = k /\ tx = ty
  <2>1. \A h, k \in 1..height : \A tx, ty \in CrossShardTx :
          OrderedIn(tx, h) /\ OrderedIn(ty, k) /\ tx.id = ty.id => h = k /\ tx = ty
    BY DEF UniqueIDs
  <2> QED
    BY <2>1, SameBlocks
<1> QED
  BY <1>1, <1>2, <1>3 DEF UniqueIDs

\* A transaction that awaits votes is in a block.
LEMMA AwaitingOrdered ==
  ASSUME ChainInv, NEW id \in DOMAIN awaitingVotes
  PROVE  \E h \in 1..height : Orders(h, id)
<1>1. /\ awaitingVotes[id] \in CrossShardTx
      /\ awaitingVotes[id].id = id
      /\ OrderedIn(awaitingVotes[id], voteStartBlock[id])
  BY DEF ChainInv, BookkeepingInStep, ChainTypeOK
<1>2. Orders(voteStartBlock[id], id)
  BY <1>1, OrdersIsOrderedIn DEF ChainInv
<1> QED
  BY <1>2 DEF Orders

\* The transaction that awaits votes under an ID is the one ordered with that ID.
LEMMA AwaitingIsOrdered ==
  ASSUME ChainInv, NEW id \in DOMAIN awaitingVotes,
         NEW h \in 1..height, NEW tx \in CrossShardTx, OrderedIn(tx, h), tx.id = id
  PROVE  tx = awaitingVotes[id]
<1>1. /\ awaitingVotes[id] \in CrossShardTx
      /\ awaitingVotes[id].id = id
      /\ OrderedIn(awaitingVotes[id], voteStartBlock[id])
  BY DEF ChainInv, BookkeepingInStep, ChainTypeOK
<1>2. voteStartBlock[id] \in 1..height
  BY <1>1 DEF OrderedIn
<1> QED
  BY <1>1, <1>2 DEF ChainInv, UniqueIDs

\* A transaction that awaits votes has no result.
LEMMA AwaitingUndecided ==
  ASSUME ChainInv, NEW id \in DOMAIN awaitingVotes
  PROVE  /\ id \in TxIDs
         /\ id \notin DOMAIN pendingResult
         /\ \A h \in 1..height : ~ResultAt(id, h)
         /\ \A res : ~Published(id, res)
         /\ \A res : ~Result(id, res)
<1>1. id \in TxIDs
  BY DEF ChainInv, ChainTypeOK
<1>2. id \notin DOMAIN pendingResult /\ \A h \in 1..height : ~ResultAt(id, h)
  BY <1>1 DEF ChainInv, DecidedOnce
<1>3. \A res : ~Published(id, res)
  BY <1>2 DEF Published
<1> QED
  BY <1>1, <1>2, <1>3 DEF Result
-----------------------------------------------------------------------------
(* What each operation preserves.                                          *)

\* AddTransaction uses a new ID, which has neither ballots nor a result.
LEMMA AddTransactionInv ==
  ASSUME ChainInv, NEW tx \in CrossShardTx, AddTransaction(tx)
  PROVE  ChainInv'
<1>u. /\ pendingTxs' = Append(pendingTxs, tx) /\ ~Submitted(tx.id)
      /\ blocks' = blocks /\ awaitingVotes' = awaitingVotes
      /\ pendingResult' = pendingResult /\ votes' = votes
      /\ expectedVoters' = expectedVoters /\ voteStartBlock' = voteStartBlock
      /\ ballots' = ballots
  BY DEF AddTransaction
<1>0. pendingTxs \in Seq(CrossShardTx)
  BY DEF ChainInv, ChainTypeOK
<1>a. /\ Len(pendingTxs') = Len(pendingTxs) + 1
      /\ \A i \in 1..Len(pendingTxs) : pendingTxs'[i] = pendingTxs[i]
      /\ pendingTxs'[Len(pendingTxs) + 1] = tx
      /\ Len(pendingTxs) \in Nat
  BY <1>0, <1>u
<1>1. ChainTypeOK'
  <2>1. pendingTxs' \in Seq(CrossShardTx)
    BY <1>0, <1>u
  <2> QED
    BY <1>u, <2>1, Zenon DEF ChainInv, ChainTypeOK
<1>2. UniqueIDs'
  <2>2. \A i \in 1..Len(pendingTxs) : pendingTxs[i].id # tx.id
    BY <1>u DEF Submitted
  <2>3. \A h \in 1..height : ~Orders(h, tx.id)
    BY <1>u DEF Submitted
  <2>4. \A i, j \in 1..Len(pendingTxs)' : pendingTxs'[i].id = pendingTxs'[j].id => i = j
    <3>1. \A i, j \in 1..Len(pendingTxs) : pendingTxs[i].id = pendingTxs[j].id => i = j
      BY DEF ChainInv, UniqueIDs
    <3> QED
      BY <1>a, <2>2, <3>1
  <2>5. \A i \in 1..Len(pendingTxs)' : \A h \in 1..height : ~Orders(h, pendingTxs'[i].id)
    <3>1. \A i \in 1..Len(pendingTxs) : \A h \in 1..height : ~Orders(h, pendingTxs[i].id)
      BY DEF ChainInv, UniqueIDs
    <3> QED
      BY <1>a, <2>3, <3>1
  <2>6. \A h, k \in 1..height : \A x, y \in CrossShardTx :
          OrderedIn(x, h) /\ OrderedIn(y, k) /\ x.id = y.id => h = k /\ x = y
    BY DEF ChainInv, UniqueIDs
  <2> QED
    BY <1>u, SameBlocks, <2>4, <2>5, <2>6 DEF UniqueIDs
<1>3. BookkeepingInStep'
  BY <1>u, SameBlocks DEF ChainInv, BookkeepingInStep
<1>4. DecidedOnce'
  BY <1>u, SameBlocks DEF ChainInv, DecidedOnce
<1>5. ResultsOrdered' /\ BallotsMatch'
  BY <1>u, SameBlocks DEF ChainInv, ResultsOrdered, BallotsMatch
<1>6. CommittedUnanimous'
  BY <1>u, SameBlocks, Zenon DEF ChainInv, CommittedUnanimous, Result, Unanimous
<1> QED
  BY <1>1, <1>2, <1>3, <1>4, <1>5, <1>6 DEF ChainInv

\* A step that decides the transactions of a set D, which awaited votes, drops
\* their bookkeeping and adds their results to those for the next block.
LEMMA DecideSetInv ==
  ASSUME ChainInv, NEW D \in SUBSET DOMAIN awaitingVotes,
         blocks' = blocks, pendingTxs' = pendingTxs,
         awaitingVotes' = Without(awaitingVotes, D), votes' = Without(votes, D),
         expectedVoters' = Without(expectedVoters, D),
         voteStartBlock' = Without(voteStartBlock, D),
         pendingResult' \in [DOMAIN pendingResult \cup D -> BOOLEAN],
         ballots' \subseteq Ballot
  PROVE  ChainTypeOK' /\ UniqueIDs' /\ BookkeepingInStep' /\ DecidedOnce' /\ ResultsOrdered'
<1>d. /\ DOMAIN pendingResult' = DOMAIN pendingResult \cup D
      /\ DOMAIN awaitingVotes' = DOMAIN awaitingVotes \ D
      /\ DOMAIN votes' = DOMAIN votes \ D
      /\ DOMAIN expectedVoters' = DOMAIN expectedVoters \ D
      /\ DOMAIN voteStartBlock' = DOMAIN voteStartBlock \ D
      /\ \A x \in DOMAIN awaitingVotes' : awaitingVotes'[x] = awaitingVotes[x]
      /\ \A x \in DOMAIN votes' : votes'[x] = votes[x]
      /\ \A x \in DOMAIN expectedVoters' : expectedVoters'[x] = expectedVoters[x]
      /\ \A x \in DOMAIN voteStartBlock' : voteStartBlock'[x] = voteStartBlock[x]
  BY DEF Without
<1>1. ChainTypeOK'
  <2>1. blocks' \in Seq(Block) /\ pendingTxs' \in Seq(CrossShardTx)
    BY DEF ChainInv, ChainTypeOK
  <2>2. /\ DOMAIN awaitingVotes' \subseteq TxIDs
        /\ awaitingVotes' \in [DOMAIN awaitingVotes' -> CrossShardTx]
    BY DEF Without, ChainInv, ChainTypeOK
  <2>3. /\ DOMAIN pendingResult' \subseteq TxIDs
        /\ pendingResult' \in [DOMAIN pendingResult' -> BOOLEAN]
    BY <1>d DEF ChainInv, ChainTypeOK
  <2>4. /\ DOMAIN votes' \subseteq TxIDs
        /\ \A x \in DOMAIN votes' : /\ DOMAIN votes'[x] \subseteq Shards
                                    /\ votes'[x] \in [DOMAIN votes'[x] -> {TRUE}]
    BY <1>d, ZenonT(60) DEF ChainInv, ChainTypeOK
  <2>5. /\ DOMAIN expectedVoters' \subseteq TxIDs
        /\ expectedVoters' \in [DOMAIN expectedVoters' -> SUBSET Shards]
    BY DEF Without, ChainInv, ChainTypeOK
  <2>6. /\ DOMAIN voteStartBlock' \subseteq TxIDs
        /\ voteStartBlock' \in [DOMAIN voteStartBlock' -> Nat]
    BY DEF Without, ChainInv, ChainTypeOK
  <2> QED
    BY <2>1, <2>2, <2>3, <2>4, <2>5, <2>6, Zenon DEF ChainTypeOK
<1>2. UniqueIDs'
  BY SameUniqueIDs DEF ChainInv
<1>3. BookkeepingInStep'
  <2>1. /\ DOMAIN expectedVoters' = DOMAIN awaitingVotes'
        /\ DOMAIN voteStartBlock' = DOMAIN awaitingVotes'
        /\ DOMAIN votes' \subseteq DOMAIN awaitingVotes'
    BY <1>d DEF ChainInv, BookkeepingInStep
  <2> SUFFICES ASSUME NEW id \in DOMAIN awaitingVotes'
               PROVE  /\ awaitingVotes'[id].id = id
                      /\ expectedVoters'[id] = InvolvedShards(awaitingVotes'[id])
                      /\ OrderedIn(awaitingVotes[id], voteStartBlock[id])'
    BY <2>1 DEF BookkeepingInStep
  <2>2. /\ id \in DOMAIN awaitingVotes
        /\ awaitingVotes'[id] = awaitingVotes[id]
        /\ expectedVoters'[id] = expectedVoters[id]
        /\ voteStartBlock'[id] = voteStartBlock[id]
    BY <1>d, <2>1
  <2>3. /\ awaitingVotes[id].id = id
        /\ expectedVoters[id] = InvolvedShards(awaitingVotes[id])
        /\ OrderedIn(awaitingVotes[id], voteStartBlock[id])
    BY <2>2 DEF ChainInv, BookkeepingInStep
  <2>4. OrderedIn(awaitingVotes[id], voteStartBlock[id])'
    BY <2>2, <2>3 DEF OrderedIn, height
  <2> QED
    BY <2>2, <2>3, <2>4
<1>4. DecidedOnce'
  <2> SUFFICES ASSUME NEW id \in TxIDs
               PROVE  /\ \A h1, h2 \in 1..height : ResultAt(id, h1) /\ ResultAt(id, h2) => h1 = h2
                      /\ \A h \in 1..height : ResultAt(id, h) =>
                           /\ id \notin DOMAIN pendingResult'
                           /\ id \notin DOMAIN awaitingVotes'
                           /\ \E k \in 1..h-1 : Orders(k, id)
                      /\ ~(id \in DOMAIN pendingResult' /\ id \in DOMAIN awaitingVotes')
    BY SameBlocks DEF DecidedOnce
  <2>1. id \in D => \A h \in 1..height : ~ResultAt(id, h)
    BY AwaitingUndecided
  <2> QED
    BY <1>d, <2>1 DEF ChainInv, DecidedOnce
<1>5. ResultsOrdered'
  <2>1. \A id \in D : \E h \in 1..height : Orders(h, id)
    BY AwaitingOrdered
  <2> QED
    BY <1>d, <2>1, SameBlocks DEF ChainInv, ResultsOrdered
<1> QED
  BY <1>1, <1>2, <1>3, <1>4, <1>5

\* Decide, as RecordVote calls it, is such a step for one transaction.
LEMMA DecideInv ==
  ASSUME ChainInv, NEW id \in DOMAIN awaitingVotes, NEW commit \in BOOLEAN,
         Decide(id, commit), blocks' = blocks, pendingTxs' = pendingTxs,
         ballots' \subseteq Ballot
  PROVE  /\ ChainTypeOK' /\ UniqueIDs' /\ BookkeepingInStep' /\ DecidedOnce' /\ ResultsOrdered'
         /\ DOMAIN awaitingVotes' = DOMAIN awaitingVotes \ {id}
         /\ DOMAIN votes' = DOMAIN votes \ {id}
         /\ \A x \in DOMAIN votes' : votes'[x] = votes[x]
         /\ \A x, res : Result(x, res)' => (x = id /\ res = commit) \/ Result(x, res)
<1>1. /\ awaitingVotes' = Without(awaitingVotes, {id})
      /\ votes' = Without(votes, {id})
      /\ expectedVoters' = Without(expectedVoters, {id})
      /\ voteStartBlock' = Without(voteStartBlock, {id})
  BY DEF Decide, Del, Without
<1>2. /\ DOMAIN pendingResult' = DOMAIN pendingResult \cup {id}
      /\ pendingResult'[id] = commit
      /\ \A x \in DOMAIN pendingResult' : x # id => pendingResult'[x] = pendingResult[x]
  BY DEF Decide, Put
<1>3. pendingResult' \in [DOMAIN pendingResult \cup {id} -> BOOLEAN]
  BY DEF Decide, Put, ChainInv, ChainTypeOK
<1>4. {id} \in SUBSET DOMAIN awaitingVotes
  OBVIOUS
<1>5. ChainTypeOK' /\ UniqueIDs' /\ BookkeepingInStep' /\ DecidedOnce' /\ ResultsOrdered'
  BY <1>1, <1>3, <1>4, DecideSetInv
<1>6. /\ DOMAIN awaitingVotes' = DOMAIN awaitingVotes \ {id}
      /\ DOMAIN votes' = DOMAIN votes \ {id}
      /\ \A x \in DOMAIN votes' : votes'[x] = votes[x]
  BY <1>1, Zenon DEF Without
<1>7. \A x, res : Result(x, res)' => (x = id /\ res = commit) \/ Result(x, res)
  BY <1>2, SameBlocks, AwaitingUndecided, SMTT(60) DEF Result
<1> QED
  BY <1>5, <1>6, <1>7

\* A new ballot of a transaction that awaited votes matches, if it is a YES or
\* the transaction does not await votes any more.
LEMMA NewBallotMatches ==
  ASSUME ChainInv, NEW id \in DOMAIN awaitingVotes, NEW s \in Shards, NEW vote \in BOOLEAN,
         blocks' = blocks,
         ballots' = ballots \cup {[id |-> id, shard |-> s, vote |-> vote]},
         DOMAIN awaitingVotes' \subseteq DOMAIN awaitingVotes,
         vote \/ id \notin DOMAIN awaitingVotes',
         \A x \in DOMAIN votes' : \A v \in DOMAIN votes'[x] :
           [id |-> x, shard |-> v, vote |-> TRUE] \in ballots'
  PROVE  BallotsMatch' /\ ballots' \subseteq Ballot
<1> DEFINE new == [id |-> id, shard |-> s, vote |-> vote]
<1>0. new.id = id /\ new.vote = vote /\ ballots' = ballots \cup {new}
  OBVIOUS
<1>1. new \in Ballot
  <2>1. id \in TxIDs
    BY DEF ChainInv, ChainTypeOK
  <2> QED
    BY <2>1, Zenon DEF Ballot
<1> HIDE DEF new
<1>2. \A b \in ballots' : \E h \in 1..height : Orders(h, b.id)
  <2>1. \E h \in 1..height : Orders(h, id)
    BY AwaitingOrdered
  <2>2. \A b \in ballots : \E h \in 1..height : Orders(h, b.id)
    BY DEF ChainInv, BallotsMatch
  <2> QED
    BY <1>0, <2>1, <2>2
<1>3. \A b \in ballots' : b.id \in DOMAIN awaitingVotes' => b.vote
  <2>1. \A b \in ballots : b.id \in DOMAIN awaitingVotes => b.vote
    BY DEF ChainInv, BallotsMatch
  <2> QED
    BY <1>0, <2>1
<1>4. ballots' \subseteq Ballot
  BY <1>0, <1>1 DEF ChainInv, ChainTypeOK
<1> QED
  BY <1>2, <1>3, <1>4, SameBlocks DEF BallotsMatch

\* A transaction that was decided before a ballot of another one is as unanimous
\* as it was.
LEMMA StillUnanimous ==
  ASSUME NEW id, NEW s, NEW vote, NEW tx, tx.id # id, Unanimous(tx),
         ballots' = ballots \cup {[id |-> id, shard |-> s, vote |-> vote]}
  PROVE  Unanimous(tx)'
<1> DEFINE new == [id |-> id, shard |-> s, vote |-> vote]
<1>0. new.id = id /\ ballots' = ballots \cup {new}
  OBVIOUS
<1> HIDE DEF new
<1>1. \A v \in InvolvedShards(tx) : [id |-> tx.id, shard |-> v, vote |-> TRUE] \in ballots'
  BY <1>0 DEF Unanimous
<1>2. \A b \in ballots' : b.id = tx.id => b.vote
  BY <1>0 DEF Unanimous
<1> QED
  BY <1>1, <1>2 DEF Unanimous

\* RecordVote of a NO vote turns an awaiting transaction into an aborted one, and
\* no committed transaction awaits votes.
LEMMA RecordNoInv ==
  ASSUME ChainInv, NEW id \in TxIDs, NEW s \in Shards, RecordNo(id, s)
  PROVE  ChainInv'
<1>u. /\ Decide(id, FALSE) /\ blocks' = blocks /\ pendingTxs' = pendingTxs
      /\ ballots' = ballots \cup {[id |-> id, shard |-> s, vote |-> FALSE]}
      /\ id \in DOMAIN awaitingVotes
  BY ZenonT(60) DEF RecordNo, Accepts
<1>0. /\ DOMAIN awaitingVotes' = DOMAIN awaitingVotes \ {id}
      /\ DOMAIN votes' = DOMAIN votes \ {id}
      /\ \A x \in DOMAIN votes' : votes'[x] = votes[x]
  BY <1>u DEF Decide, Del
<1>1. BallotsMatch' /\ ballots' \subseteq Ballot
  <2>1. \A x \in DOMAIN votes' : \A v \in DOMAIN votes'[x] :
          [id |-> x, shard |-> v, vote |-> TRUE] \in ballots'
    BY <1>u, <1>0 DEF ChainInv, BallotsMatch
  <2> QED
    BY <1>u, <1>0, <2>1, NewBallotMatches, ZenonT(60)
<1>2. /\ ChainTypeOK' /\ UniqueIDs' /\ BookkeepingInStep' /\ DecidedOnce' /\ ResultsOrdered'
      /\ \A x, res : Result(x, res)' => (x = id /\ res = FALSE) \/ Result(x, res)
  BY <1>u, <1>1, DecideInv, Zenon
<1>3. CommittedUnanimous'
  <2> SUFFICES ASSUME NEW h \in 1..height, NEW tx \in CrossShardTx, OrderedIn(tx, h),
                      Result(tx.id, TRUE)'
               PROVE  Unanimous(tx)'
    BY <1>u, SameBlocks, Zenon DEF CommittedUnanimous
  <2>1. Result(tx.id, TRUE) /\ tx.id # id
    BY <1>u, <1>2, AwaitingUndecided, Zenon
  <2>2. Unanimous(tx)
    BY <2>1, Zenon DEF ChainInv, CommittedUnanimous
  <2> QED
    BY <1>u, <2>1, <2>2, StillUnanimous, Zenon
<1> QED
  BY <1>1, <1>2, <1>3 DEF ChainInv

\* RecordVote of a YES vote that completes the expected ones: the result is
\* commit, and every involved shard has a YES ballot.
LEMMA RecordLastYesInv ==
  ASSUME ChainInv, NEW id \in TxIDs, NEW s \in Shards, RecordYes(id, s),
         AllVoted(id, DOMAIN Put(VotesOf(id), s, TRUE))
  PROVE  ChainInv'
<1>u. /\ Decide(id, TRUE) /\ blocks' = blocks /\ pendingTxs' = pendingTxs
      /\ ballots' = ballots \cup {[id |-> id, shard |-> s, vote |-> TRUE]}
      /\ id \in DOMAIN awaitingVotes
  BY ZenonT(60) DEF RecordYes, Accepts
<1>0. /\ DOMAIN awaitingVotes' = DOMAIN awaitingVotes \ {id}
      /\ DOMAIN votes' = DOMAIN votes \ {id}
      /\ \A x \in DOMAIN votes' : votes'[x] = votes[x]
  BY <1>u DEF Decide, Del
<1>1. BallotsMatch' /\ ballots' \subseteq Ballot
  <2>1. \A x \in DOMAIN votes' : \A v \in DOMAIN votes'[x] :
          [id |-> x, shard |-> v, vote |-> TRUE] \in ballots'
    BY <1>u, <1>0 DEF ChainInv, BallotsMatch
  <2> QED
    BY <1>u, <1>0, <2>1, NewBallotMatches, ZenonT(60)
<1>2. /\ ChainTypeOK' /\ UniqueIDs' /\ BookkeepingInStep' /\ DecidedOnce' /\ ResultsOrdered'
      /\ \A x, res : Result(x, res)' => (x = id /\ res = TRUE) \/ Result(x, res)
  BY <1>u, <1>1, DecideInv, Zenon
<1>3. ASSUME NEW tx, tx = awaitingVotes[id] PROVE Unanimous(tx)'
  <2>0. tx.id = id
    BY <1>u, <1>3 DEF ChainInv, BookkeepingInStep
  <2>1. InvolvedShards(tx) \subseteq DOMAIN VotesOf(id) \cup {s}
    BY <1>u, <1>3 DEF ChainInv, BookkeepingInStep, AllVoted, Put
  <2>2. \A v \in DOMAIN VotesOf(id) : [id |-> id, shard |-> v, vote |-> TRUE] \in ballots
    BY DEF VotesOf, EmptyMap, ChainInv, BallotsMatch
  <2>3. \A v \in InvolvedShards(tx) : [id |-> id, shard |-> v, vote |-> TRUE] \in ballots'
    BY <1>u, <2>1, <2>2, ZenonT(60)
  <2>4. \A b \in ballots : b.id = id => b.vote
    BY <1>u DEF ChainInv, BallotsMatch
  <2>5. [id |-> id, shard |-> s, vote |-> TRUE].vote
    OBVIOUS
  <2>6. \A b \in ballots' : b.id = id => b.vote
    BY <1>u, <2>4, <2>5, Zenon
  <2> QED
    BY <2>0, <2>3, <2>6, SMTT(60) DEF Unanimous
<1>4. CommittedUnanimous'
  <2> SUFFICES ASSUME NEW h \in 1..height, NEW tx \in CrossShardTx, OrderedIn(tx, h),
                      Result(tx.id, TRUE)'
               PROVE  Unanimous(tx)'
    BY <1>u, SameBlocks, ZenonT(60) DEF CommittedUnanimous
  <2>1. CASE tx.id = id
    BY <1>u, <1>3, <2>1, AwaitingIsOrdered
  <2>2. CASE tx.id # id
    <3>1. Unanimous(tx)
      BY <1>2, <2>2, Zenon DEF ChainInv, CommittedUnanimous
    <3> QED
      BY <1>u, <2>2, <3>1, StillUnanimous, Zenon
  <2> QED
    BY <2>1, <2>2
<1> QED
  BY <1>1, <1>2, <1>4 DEF ChainInv

\* RecordVote of a YES vote while others are missing: the vote is kept, and it is
\* a ballot; results do not change.
LEMMA RecordOtherYesInv ==
  ASSUME ChainInv, NEW id \in TxIDs, NEW s \in Shards, RecordYes(id, s),
         ~AllVoted(id, DOMAIN Put(VotesOf(id), s, TRUE))
  PROVE  ChainInv'
<1> DEFINE mine == Put(VotesOf(id), s, TRUE)
<1>u. /\ votes' = Put(votes, id, mine)
      /\ ballots' = ballots \cup {[id |-> id, shard |-> s, vote |-> TRUE]}
      /\ blocks' = blocks /\ pendingTxs' = pendingTxs /\ pendingResult' = pendingResult
      /\ awaitingVotes' = awaitingVotes /\ expectedVoters' = expectedVoters
      /\ voteStartBlock' = voteStartBlock
      /\ id \in DOMAIN awaitingVotes
  BY Zenon DEF RecordYes, Accepts
<1>b. /\ DOMAIN mine = DOMAIN VotesOf(id) \cup {s}
      /\ DOMAIN mine \subseteq Shards
      /\ mine \in [DOMAIN mine -> {TRUE}]
  BY ZenonT(60) DEF Put, VotesOf, EmptyMap, ChainInv, ChainTypeOK
<1>c. /\ DOMAIN votes' = DOMAIN votes \cup {id}
      /\ votes'[id] = mine
      /\ \A x \in DOMAIN votes' : x # id => votes'[x] = votes[x]
  BY <1>u, Zenon DEF Put
<1> HIDE DEF mine
<1>1. BallotsMatch' /\ ballots' \subseteq Ballot
  <2>1. \A v \in DOMAIN VotesOf(id) : [id |-> id, shard |-> v, vote |-> TRUE] \in ballots
    BY DEF VotesOf, EmptyMap, ChainInv, BallotsMatch
  <2>2. \A v \in DOMAIN mine : [id |-> id, shard |-> v, vote |-> TRUE] \in ballots'
    BY <1>b, <1>u, <2>1, ZenonT(60)
  <2>3. \A x \in DOMAIN votes : \A v \in DOMAIN votes[x] :
          [id |-> x, shard |-> v, vote |-> TRUE] \in ballots'
    BY <1>u DEF ChainInv, BallotsMatch
  <2>4. \A x \in DOMAIN votes' : \A v \in DOMAIN votes'[x] :
          [id |-> x, shard |-> v, vote |-> TRUE] \in ballots'
    BY <1>c, <2>2, <2>3
  <2> QED
    BY <1>u, <2>4, NewBallotMatches, Zenon
<1>2. ChainTypeOK'
  <2>1. /\ DOMAIN votes' \subseteq TxIDs
        /\ \A x \in DOMAIN votes' : /\ DOMAIN votes'[x] \subseteq Shards
                                    /\ votes'[x] \in [DOMAIN votes'[x] -> {TRUE}]
    BY <1>b, <1>c, ZenonT(60) DEF ChainInv, ChainTypeOK
  <2> QED
    BY <1>1, <1>u, <2>1, Zenon DEF ChainInv, ChainTypeOK
<1>3. UniqueIDs'
  BY <1>u, SameUniqueIDs, SMTT(60) DEF ChainInv
<1>4. BookkeepingInStep'
  BY <1>u, <1>c, SameBlocks DEF ChainInv, BookkeepingInStep
<1>5. DecidedOnce'
  BY <1>u, SameBlocks, Zenon DEF ChainInv, DecidedOnce
<1>6. ResultsOrdered'
  BY <1>u, SameBlocks, Zenon DEF ChainInv, ResultsOrdered
<1>7. CommittedUnanimous'
  <2>1. \A x, res : Result(x, res)' <=> Result(x, res)
    BY <1>u, SameBlocks DEF Result
  <2> SUFFICES ASSUME NEW h \in 1..height, NEW tx \in CrossShardTx, OrderedIn(tx, h),
                      Result(tx.id, TRUE)
               PROVE  Unanimous(tx)'
    BY <1>u, <2>1, SameBlocks, Zenon DEF CommittedUnanimous
  <2>2. tx.id # id
    BY <1>u, AwaitingUndecided, Zenon
  <2>3. Unanimous(tx)
    BY Zenon DEF ChainInv, CommittedUnanimous
  <2> QED
    BY <1>u, <2>2, <2>3, StillUnanimous, ZenonT(60)
<1> QED
  BY <1>1, <1>2, <1>3, <1>4, <1>5, <1>6, <1>7 DEF ChainInv

\* The results once checkTimeouts has run: those that waited, and an abort for
\* each transaction that timed out.
LEMMA PublishedResults ==
  ASSUME ChainInv
  PROVE  /\ DOMAIN ResultsWithTimeouts = DOMAIN pendingResult \cup TimedOut
         /\ ResultsWithTimeouts \in [DOMAIN pendingResult \cup TimedOut -> BOOLEAN]
         /\ DOMAIN ResultsWithTimeouts \subseteq TxIDs
         /\ TimedOut \in SUBSET DOMAIN awaitingVotes
         /\ \A id \in TimedOut : ResultsWithTimeouts[id] = FALSE
         /\ \A id \in DOMAIN pendingResult : id \notin TimedOut /\ ResultsWithTimeouts[id] = pendingResult[id]
<1>1. TimedOut \in SUBSET DOMAIN awaitingVotes
  BY DEF TimedOut
<1>2. \A id \in DOMAIN pendingResult : id \notin TimedOut
  BY <1>1, AwaitingUndecided
<1> QED
  BY <1>1, <1>2, Zenon DEF ResultsWithTimeouts, ChainInv, ChainTypeOK

\* checkTimeouts turns awaiting transactions into aborted ones.
LEMMA CheckTimeoutsInv ==
  ASSUME ChainInv, CheckTimeouts
  PROVE  ChainInv'
<1>u. /\ blocks' = blocks /\ pendingTxs' = pendingTxs /\ ballots' = ballots
      /\ pendingResult' = ResultsWithTimeouts
      /\ awaitingVotes' = Without(awaitingVotes, TimedOut)
      /\ votes' = Without(votes, TimedOut)
      /\ expectedVoters' = Without(expectedVoters, TimedOut)
      /\ voteStartBlock' = Without(voteStartBlock, TimedOut)
  BY SMTT(60) DEF CheckTimeouts
<1>1. ChainTypeOK' /\ UniqueIDs' /\ BookkeepingInStep' /\ DecidedOnce' /\ ResultsOrdered'
  <2>1. ballots' \subseteq Ballot
    BY <1>u, SMTT(60) DEF ChainInv, ChainTypeOK
  <2> QED
    BY <1>u, <2>1, PublishedResults, DecideSetInv
<1>2. BallotsMatch'
  <2>1. /\ DOMAIN awaitingVotes' \subseteq DOMAIN awaitingVotes
        /\ DOMAIN votes' \subseteq DOMAIN votes
        /\ \A x \in DOMAIN votes' : votes'[x] = votes[x]
    BY <1>u DEF Without
  <2> QED
    BY <1>u, <2>1, SameBlocks DEF ChainInv, BallotsMatch
<1>3. CommittedUnanimous'
  <2>1. \A x : Result(x, TRUE)' => Result(x, TRUE)
    BY <1>u, PublishedResults, SameBlocks, ZenonT(60) DEF Result
  <2>2. \A tx : Unanimous(tx)' <=> Unanimous(tx)
    BY <1>u DEF Unanimous
  <2> QED
    BY <1>u, <2>1, <2>2, SameBlocks, Zenon DEF ChainInv, CommittedUnanimous
<1> QED
  BY <1>1, <1>2, <1>3 DEF ChainInv

\* Every pending transaction is the one that ProduceBlock files under its ID.
LEMMA PendingTxIsUnique ==
  ASSUME ChainInv, NEW i \in 1..Len(pendingTxs)
  PROVE  PendingTx(pendingTxs[i].id) = pendingTxs[i]
<1>1. \A j \in 1..Len(pendingTxs) : pendingTxs[j].id = pendingTxs[i].id => j = i
  BY DEF ChainInv, UniqueIDs
<1>2. Len(pendingTxs) \in Nat
  BY DEF ChainInv, ChainTypeOK
<1> DEFINE last(j) == /\ pendingTxs[j].id = pendingTxs[i].id
                      /\ \A k \in j+1..Len(pendingTxs) : pendingTxs[k].id # pendingTxs[i].id
<1>3. last(i)
  BY <1>1, <1>2
<1>4. (CHOOSE j \in 1..Len(pendingTxs) : last(j)) = i
  <2> HIDE DEF last
  <2>1. \A j \in 1..Len(pendingTxs) : last(j) => j = i
    BY <1>1 DEF last
  <2> QED
    BY <1>3, <2>1
<1> QED
  BY <1>4, ZenonT(60) DEF PendingTx

\* ProduceBlock files every pending transaction, and only those, under its ID.
LEMMA PendingIDsTx ==
  ASSUME ChainInv, NEW id \in PendingIDs
  PROVE  /\ \E i \in 1..Len(pendingTxs) : pendingTxs[i].id = id /\ PendingTx(id) = pendingTxs[i]
         /\ PendingTx(id) \in CrossShardTx /\ PendingTx(id).id = id
<1>1. PICK i \in 1..Len(pendingTxs) : pendingTxs[i].id = id
  BY DEF PendingIDs
<1>2. PendingTx(id) = pendingTxs[i]
  BY <1>1, PendingTxIsUnique
<1>3. pendingTxs[i] \in CrossShardTx
  BY DEF ChainInv, ChainTypeOK
<1> QED
  BY <1>1, <1>2, <1>3

\* A transaction that is still pending appears nowhere else.
LEMMA PendingIsNew ==
  ASSUME ChainInv, NEW id \in PendingIDs
  PROVE  /\ id \in TxIDs
         /\ \A h \in 1..height : ~Orders(h, id) /\ ~ResultAt(id, h)
         /\ id \notin DOMAIN awaitingVotes
         /\ id \notin DOMAIN pendingResult
         /\ \A b \in ballots : b.id # id
         /\ \A res : ~Result(id, res)
<1>1. PICK i \in 1..Len(pendingTxs) : pendingTxs[i].id = id
  BY DEF PendingIDs
<1>2. pendingTxs[i] \in CrossShardTx
  BY DEF ChainInv, ChainTypeOK
<1>3. id \in TxIDs
  BY <1>1, <1>2, ChainAssumption
<1>4. \A h \in 1..height : ~Orders(h, id)
  BY <1>1 DEF ChainInv, UniqueIDs
<1>5. \A h \in 1..height : ~ResultAt(id, h)
  <2> SUFFICES ASSUME NEW h \in 1..height, ResultAt(id, h) PROVE FALSE
    OBVIOUS
  <2>1. PICK k \in 1..h-1 : Orders(k, id)
    BY <1>3 DEF ChainInv, DecidedOnce
  <2> QED
    BY <1>4, <2>1 DEF Orders
<1>6. id \notin DOMAIN awaitingVotes
  BY <1>4, AwaitingOrdered
<1>7. id \notin DOMAIN pendingResult
  BY <1>4 DEF ChainInv, ResultsOrdered
<1>8. \A b \in ballots : b.id # id
  BY <1>4 DEF ChainInv, BallotsMatch
<1>9. \A res : ~Result(id, res)
  BY <1>5, <1>7, SMTT(60) DEF Result, Published
<1> QED
  BY <1>3, <1>4, <1>5, <1>6, <1>7, <1>8, <1>9

\* What ProduceBlock adds to what the blocks say.
LEMMA NewBlock ==
  ASSUME ChainInv, ProduceBlock
  PROVE  /\ height \in Nat /\ height' = height + 1
         /\ blocks' \in Seq(Block)
         /\ \A h : h \in 1..height' <=> h \in 1..height \/ h = height + 1
         /\ \A h, id : Orders(h, id)' <=> Orders(h, id) \/ (h = height + 1 /\ id \in PendingIDs)
         /\ \A h, tx : OrderedIn(tx, h)' <=>
              OrderedIn(tx, h) \/ (h = height + 1 /\ \E i \in 1..Len(pendingTxs) : pendingTxs[i] = tx)
         /\ \A h, id : ResultAt(id, h)' <=>
              ResultAt(id, h) \/ (h = height + 1 /\ id \in DOMAIN ResultsWithTimeouts)
         /\ \A id, res : Published(id, res)' <=>
              Published(id, res) \/ (id \in DOMAIN ResultsWithTimeouts /\ ResultsWithTimeouts[id] = res)
<1> DEFINE b == [tpcResult |-> ResultsWithTimeouts, ctToOrder |-> pendingTxs]
<1>0. /\ blocks \in Seq(Block) /\ pendingTxs \in Seq(CrossShardTx)
      /\ height \in Nat /\ height = Len(blocks)
  BY DEF height, ChainInv, ChainTypeOK
<1>t. b \in Block
  BY <1>0, PublishedResults, ZenonT(60) DEF Block
<1>b. b.tpcResult = ResultsWithTimeouts /\ b.ctToOrder = pendingTxs /\ blocks' = Append(blocks, b)
  BY DEF ProduceBlock
<1> HIDE DEF b
<1>1. /\ height' = height + 1
      /\ blocks' \in Seq(Block)
      /\ \A h \in 1..height : blocks'[h] = blocks[h]
      /\ blocks'[height + 1] = b
  BY <1>0, <1>t, <1>b DEF height
<1>2. /\ \A h : h \in 1..height' <=> h \in 1..height \/ h = height + 1
      /\ height + 1 \notin 1..height
  BY <1>0, <1>1
<1>3. \A h, id : Orders(h, id)' <=> Orders(h, id) \/ (h = height + 1 /\ id \in PendingIDs)
  <2>1. \A h \in 1..height : blocks'[h].ctToOrder = blocks[h].ctToOrder
    BY <1>1
  <2>2. blocks'[height + 1].ctToOrder = pendingTxs
    BY <1>1, <1>b
  <2>3. \A id : id \in PendingIDs <=> \E i \in 1..Len(pendingTxs) : pendingTxs[i].id = id
    BY DEF PendingIDs
  <2> QED
    BY <1>2, <2>1, <2>2, <2>3, SMTT(30) DEF Orders
<1>4. \A h, tx : OrderedIn(tx, h)' <=>
        OrderedIn(tx, h) \/ (h = height + 1 /\ \E i \in 1..Len(pendingTxs) : pendingTxs[i] = tx)
  BY <1>b, <1>1, <1>2, ZenonT(60) DEF OrderedIn
<1>5. \A h, id : ResultAt(id, h)' <=>
        ResultAt(id, h) \/ (h = height + 1 /\ id \in DOMAIN ResultsWithTimeouts)
  BY <1>b, <1>1, <1>2, Zenon DEF ResultAt
<1>6. \A id, res : Published(id, res)' <=>
        Published(id, res) \/ (id \in DOMAIN ResultsWithTimeouts /\ ResultsWithTimeouts[id] = res)
  <2>1. \A h \in 1..height : blocks'[h].tpcResult = blocks[h].tpcResult
    BY <1>1
  <2>2. blocks'[height + 1].tpcResult = ResultsWithTimeouts
    BY <1>1, <1>b
  <2>3. \A h, id : ResultAt(id, h) => h \in 1..height
    BY DEF ResultAt
  <2> QED
    BY <1>2, <1>5, <2>1, <2>2, <2>3 DEF Published
<1> QED
  BY <1>0, <1>1, <1>2, <1>3, <1>4, <1>5, <1>6

\* ProduceBlock moves the pending transactions into the new block and among those
\* that await votes, and the pending results into the new block.
LEMMA ProduceBlockInv ==
  ASSUME ChainInv, ProduceBlock
  PROVE  ChainInv'
<1>u. /\ pendingTxs' = <<>> /\ pendingResult' = EmptyMap
      /\ votes' = Without(votes, TimedOut)
      /\ ballots' = ballots
      /\ DOMAIN pendingResult' = {}
  BY Zenon DEF ProduceBlock, EmptyMap
<1>e. /\ DOMAIN awaitingVotes' = (DOMAIN awaitingVotes \ TimedOut) \cup PendingIDs
      /\ DOMAIN expectedVoters' = (DOMAIN expectedVoters \ TimedOut) \cup PendingIDs
      /\ DOMAIN voteStartBlock' = (DOMAIN voteStartBlock \ TimedOut) \cup PendingIDs
      /\ \A id \in PendingIDs : /\ awaitingVotes'[id] = PendingTx(id)
                                /\ expectedVoters'[id] = InvolvedShards(PendingTx(id))
                                /\ voteStartBlock'[id] = height + 1
      /\ \A id \in DOMAIN awaitingVotes' \ PendingIDs : awaitingVotes'[id] = awaitingVotes[id]
      /\ \A id \in DOMAIN expectedVoters' \ PendingIDs : expectedVoters'[id] = expectedVoters[id]
      /\ \A id \in DOMAIN voteStartBlock' \ PendingIDs : voteStartBlock'[id] = voteStartBlock[id]
  BY Zenon DEF ProduceBlock, Ordered
<1>1. ChainTypeOK'
  <2>1. pendingTxs' \in Seq(CrossShardTx)
    BY <1>u
  <2>2. /\ DOMAIN awaitingVotes' \subseteq TxIDs
        /\ DOMAIN expectedVoters' \subseteq TxIDs
        /\ DOMAIN voteStartBlock' \subseteq TxIDs
    BY <1>e, PendingIsNew, Zenon DEF ChainInv, ChainTypeOK
  <2>3. awaitingVotes' \in [DOMAIN awaitingVotes' -> CrossShardTx]
    <3>1. \A id \in DOMAIN awaitingVotes' : awaitingVotes'[id] \in CrossShardTx
      BY <1>e, PendingIDsTx, ZenonT(60) DEF ChainInv, ChainTypeOK
    <3>2. awaitingVotes' = [id \in DOMAIN awaitingVotes' |-> awaitingVotes'[id]]
      BY DEF ProduceBlock, Ordered
    <3> QED
      BY <3>1, <3>2
  <2>4. expectedVoters' \in [DOMAIN expectedVoters' -> SUBSET Shards]
    <3>1. \A id \in PendingIDs : InvolvedShards(PendingTx(id)) \in SUBSET Shards
      BY PendingIDsTx, ChainAssumption
    <3>2. \A id \in DOMAIN expectedVoters : expectedVoters[id] \in SUBSET Shards
      BY DEF ChainInv, ChainTypeOK
    <3>3. \A id \in DOMAIN expectedVoters' : expectedVoters'[id] \in SUBSET Shards
      BY <1>e, <3>1, <3>2
    <3>4. expectedVoters' = [id \in DOMAIN expectedVoters' |-> expectedVoters'[id]]
      BY DEF ProduceBlock, Ordered
    <3> QED
      BY <3>3, <3>4
  <2>5. voteStartBlock' \in [DOMAIN voteStartBlock' -> Nat]
    <3>0. \A id \in DOMAIN voteStartBlock : voteStartBlock[id] \in Nat
      BY DEF ChainInv, ChainTypeOK
    <3>h. height + 1 \in Nat
      BY NewBlock, SMTT(60)
    <3>1. \A id \in DOMAIN voteStartBlock' : voteStartBlock'[id] \in Nat
      BY <1>e, <3>0, <3>h, Zenon
    <3>2. voteStartBlock' = [id \in DOMAIN voteStartBlock' |-> voteStartBlock'[id]]
      BY Zenon DEF ProduceBlock, Ordered
    <3> QED
      BY <3>1, <3>2
  <2>6. /\ DOMAIN pendingResult' \subseteq TxIDs
        /\ pendingResult' \in [DOMAIN pendingResult' -> BOOLEAN]
    BY <1>u DEF EmptyMap
  <2>7. /\ DOMAIN votes' \subseteq TxIDs
        /\ \A x \in DOMAIN votes' : /\ DOMAIN votes'[x] \subseteq Shards
                                    /\ votes'[x] \in [DOMAIN votes'[x] -> {TRUE}]
    BY <1>u, Zenon DEF Without, ChainInv, ChainTypeOK
  <2>8. ballots' \subseteq Ballot
    BY <1>u DEF ChainInv, ChainTypeOK
  <2>9. blocks' \in Seq(Block)
    BY NewBlock
  <2> QED
    BY <2>1, <2>2, <2>3, <2>4, <2>5, <2>6, <2>7, <2>8, <2>9, ZenonT(60) DEF ChainTypeOK
<1>2. UniqueIDs'
  <2>0. 1..Len(pendingTxs') = {}
    BY <1>u
  <2> SUFFICES ASSUME NEW h \in 1..height', NEW k \in 1..height',
                      NEW tx \in CrossShardTx, NEW ty \in CrossShardTx,
                      OrderedIn(tx, h)', OrderedIn(ty, k)', tx.id = ty.id
               PROVE  h = k /\ tx = ty
    BY <2>0 DEF UniqueIDs
  <2>1. \A x \in CrossShardTx : \A n : OrderedIn(x, n) => n \in 1..height /\ Orders(n, x.id)
    BY OrdersIsOrderedIn, Zenon DEF ChainInv, OrderedIn
  <2>2. \A i \in 1..Len(pendingTxs) : pendingTxs[i].id \in PendingIDs
    BY Zenon DEF PendingIDs
  <2>3. CASE OrderedIn(tx, h) /\ OrderedIn(ty, k)
    BY <2>1, <2>3, Zenon DEF ChainInv, UniqueIDs
  <2>4. CASE OrderedIn(tx, h) /\ ~OrderedIn(ty, k)
    <3>1. ty.id \in PendingIDs
      BY <2>2, <2>4, NewBlock, Zenon
    <3> QED
      BY <2>1, <2>4, <3>1, PendingIsNew, Zenon
  <2>5. CASE ~OrderedIn(tx, h) /\ OrderedIn(ty, k)
    <3>1. tx.id \in PendingIDs
      BY <2>2, <2>5, NewBlock, Zenon
    <3> QED
      BY <2>1, <2>5, <3>1, PendingIsNew, Zenon
  <2>6. CASE ~OrderedIn(tx, h) /\ ~OrderedIn(ty, k)
    <3>1. PICK i \in 1..Len(pendingTxs) : pendingTxs[i] = tx
      BY <2>6, NewBlock
    <3>2. PICK j \in 1..Len(pendingTxs) : pendingTxs[j] = ty
      BY <2>6, NewBlock
    <3>3. i = j
      BY <3>1, <3>2, Zenon DEF ChainInv, UniqueIDs
    <3> QED
      BY <2>6, <3>1, <3>2, <3>3, NewBlock
  <2> QED
    BY <2>3, <2>4, <2>5, <2>6
<1>3. BookkeepingInStep'
  <2>1. /\ DOMAIN expectedVoters' = DOMAIN awaitingVotes'
        /\ DOMAIN voteStartBlock' = DOMAIN awaitingVotes'
        /\ DOMAIN votes' \subseteq DOMAIN awaitingVotes'
    BY <1>e, <1>u, Zenon DEF Without, ChainInv, BookkeepingInStep
  <2> SUFFICES ASSUME NEW id \in DOMAIN awaitingVotes'
               PROVE  /\ awaitingVotes'[id].id = id
                      /\ expectedVoters'[id] = InvolvedShards(awaitingVotes'[id])
                      /\ OrderedIn(awaitingVotes[id], voteStartBlock[id])'
    BY <2>1, Zenon DEF BookkeepingInStep
  <2>2. ASSUME NEW tx, NEW h, awaitingVotes'[id] = tx, voteStartBlock'[id] = h, OrderedIn(tx, h)'
        PROVE  OrderedIn(awaitingVotes[id], voteStartBlock[id])'
    BY <2>2, Zenon DEF OrderedIn
  <2>3. CASE id \in PendingIDs
    <3>1. \E i \in 1..Len(pendingTxs) : pendingTxs[i] = PendingTx(id)
      BY <2>3, PendingIDsTx
    <3>2. PICK tx : tx = PendingTx(id)
      OBVIOUS
    <3>3. PICK h : h = height + 1
      OBVIOUS
    <3>4. OrderedIn(tx, h)'
      BY <3>1, <3>2, <3>3, NewBlock, Zenon
    <3>5. awaitingVotes'[id] = tx /\ voteStartBlock'[id] = h
      BY <1>e, <2>3, <3>2, <3>3, Zenon
    <3>6. OrderedIn(awaitingVotes[id], voteStartBlock[id])'
      BY <2>2, <3>4, <3>5, Zenon
    <3> QED
      BY <1>e, <2>3, <3>6, PendingIDsTx, SMTT(60)
  <2>4. CASE id \notin PendingIDs
    <3>1. /\ id \in DOMAIN awaitingVotes
          /\ awaitingVotes'[id] = awaitingVotes[id]
          /\ expectedVoters'[id] = expectedVoters[id]
          /\ voteStartBlock'[id] = voteStartBlock[id]
      BY <1>e, <2>1, <2>4, Zenon
    <3>2. /\ awaitingVotes[id].id = id
          /\ expectedVoters[id] = InvolvedShards(awaitingVotes[id])
          /\ OrderedIn(awaitingVotes[id], voteStartBlock[id])
      BY <3>1 DEF ChainInv, BookkeepingInStep
    <3>3. PICK tx, h : tx = awaitingVotes[id] /\ h = voteStartBlock[id]
      BY Zenon
    <3>4. OrderedIn(tx, h)'
      BY <3>2, <3>3, NewBlock, ZenonT(60)
    <3>5. OrderedIn(awaitingVotes[id], voteStartBlock[id])'
      BY <2>2, <3>1, <3>3, <3>4
    <3> QED
      BY <3>1, <3>2, <3>5, Zenon
  <2> QED
    BY <2>3, <2>4, Zenon
<1>4. DecidedOnce'
  <2> SUFFICES ASSUME NEW id \in TxIDs
               PROVE  /\ \A h1, h2 \in 1..height' : ResultAt(id, h1)' /\ ResultAt(id, h2)' => h1 = h2
                      /\ \A h \in 1..height' : ResultAt(id, h)' =>
                           /\ id \notin DOMAIN awaitingVotes'
                           /\ \E k \in 1..h-1 : Orders(k, id)'
    BY <1>u DEF DecidedOnce
  <2>0. \A h : ResultAt(id, h) => h \in 1..height
    BY Zenon DEF ResultAt
  <2>1. id \in DOMAIN ResultsWithTimeouts =>
          /\ \A h \in 1..height : ~ResultAt(id, h)
          /\ id \notin DOMAIN awaitingVotes'
          /\ \E k \in 1..height : Orders(k, id)
    <3>1. CASE id \in DOMAIN pendingResult
      <4>1. id \notin PendingIDs
        BY <3>1, PendingIsNew, Zenon
      <4>2. id \notin DOMAIN awaitingVotes
        BY <3>1, AwaitingUndecided, Zenon
      <4>3. \A h \in 1..height : ~ResultAt(id, h)
        BY <3>1, Zenon DEF ChainInv, DecidedOnce
      <4> QED
        BY <1>e, <3>1, <4>1, <4>2, <4>3, Zenon DEF ChainInv, ResultsOrdered
    <3>2. CASE id \in TimedOut
      BY <1>e, <3>2, PublishedResults, PendingIsNew, AwaitingOrdered, AwaitingUndecided, Zenon
    <3> QED
      BY <3>1, <3>2, PublishedResults, Zenon
  <2>2. ASSUME NEW h \in 1..height, ResultAt(id, h)
        PROVE  id \notin DOMAIN awaitingVotes' /\ \E k \in 1..h-1 : Orders(k, id)
    <3>1. id \notin DOMAIN awaitingVotes /\ \E k \in 1..h-1 : Orders(k, id)
      BY <2>2, Zenon DEF ChainInv, DecidedOnce
    <3>2. id \notin PendingIDs
      BY <2>2, PendingIsNew, Zenon
    <3> QED
      BY <1>e, <3>1, <3>2, Zenon
  <2>3. \A h1, h2 \in 1..height' : ResultAt(id, h1)' /\ ResultAt(id, h2)' => h1 = h2
    <3>1. \A h1, h2 \in 1..height : ResultAt(id, h1) /\ ResultAt(id, h2) => h1 = h2
      BY DEF ChainInv, DecidedOnce
    <3>2. \A h : ResultAt(id, h)' <=>
            ResultAt(id, h) \/ (h = height + 1 /\ id \in DOMAIN ResultsWithTimeouts)
      BY NewBlock
    <3> QED
      BY <2>0, <2>1, <3>1, <3>2, SMTT(60)
  <2>4. ASSUME NEW h \in 1..height', ResultAt(id, h)'
        PROVE  id \notin DOMAIN awaitingVotes' /\ \E k \in 1..h-1 : Orders(k, id)'
    <3>1. CASE ResultAt(id, h)
      <4>1. PICK k \in 1..h-1 : Orders(k, id)
        BY <2>0, <2>2, <3>1, Zenon
      <4>2. Orders(k, id)'
        BY <4>1, NewBlock, Zenon
      <4> QED
        BY <2>0, <2>2, <3>1, <4>2
    <3>2. CASE ~ResultAt(id, h)
      <4>1. h = height + 1 /\ id \in DOMAIN ResultsWithTimeouts
        BY <2>4, <3>2, NewBlock, Zenon
      <4>2. PICK k \in 1..height : Orders(k, id)
        BY <2>1, <4>1, Zenon
      <4>3. k \in 1..h-1 /\ Orders(k, id)'
        BY <4>1, <4>2, NewBlock, SMTT(60)
      <4> QED
        BY <2>1, <4>1, <4>3, Zenon
    <3> QED
      BY <3>1, <3>2
  <2> QED
    BY <2>3, <2>4, SMTT(60)
<1>5. ResultsOrdered' /\ BallotsMatch'
  <2>1. \A x \in ballots : \E h \in 1..height' : Orders(h, x.id)'
    BY NewBlock, Zenon DEF ChainInv, BallotsMatch
  <2>2. \A x \in ballots : x.id \in DOMAIN awaitingVotes' => x.vote
    BY <1>e, PendingIsNew, Zenon DEF ChainInv, BallotsMatch
  <2>3. \A id \in DOMAIN votes' : \A s \in DOMAIN votes'[id] :
          [id |-> id, shard |-> s, vote |-> TRUE] \in ballots
    BY <1>u DEF Without, ChainInv, BallotsMatch
  <2> QED
    BY <1>u, <2>1, <2>2, <2>3, Zenon DEF ResultsOrdered, BallotsMatch
<1>6. CommittedUnanimous'
  <2>1. \A id : Result(id, TRUE)' => Result(id, TRUE)
    BY <1>u, PublishedResults, NewBlock, Zenon DEF Result
  <2> SUFFICES ASSUME NEW h, NEW tx \in CrossShardTx, OrderedIn(tx, h)', Result(tx.id, TRUE)
               PROVE  Unanimous(tx)
    BY <1>u, <2>1, Zenon DEF CommittedUnanimous, Unanimous
  <2>2. CASE OrderedIn(tx, h)
    BY <2>2, Zenon DEF ChainInv, CommittedUnanimous, OrderedIn
  <2>3. CASE ~OrderedIn(tx, h)
    <3>1. PICK i \in 1..Len(pendingTxs) : pendingTxs[i] = tx
      BY <2>3, NewBlock
    <3>2. tx.id \in PendingIDs
      BY <3>1 DEF PendingIDs
    <3> QED
      BY <3>2, PendingIsNew, Zenon
  <2> QED
    BY <2>2, <2>3, Zenon
<1> QED
  BY <1>1, <1>2, <1>3, <1>4, <1>5, <1>6 DEF ChainInv
-----------------------------------------------------------------------------
\* A step that changes no variable of the chain preserves ChainInv.
LEMMA StutterInv ==
  ASSUME ChainInv, UNCHANGED chainVars
  PROVE  ChainInv'
<1>u. /\ blocks' = blocks /\ pendingTxs' = pendingTxs /\ awaitingVotes' = awaitingVotes
      /\ pendingResult' = pendingResult /\ votes' = votes
      /\ expectedVoters' = expectedVoters /\ voteStartBlock' = voteStartBlock
      /\ ballots' = ballots
  BY DEF chainVars
<1>1. ChainTypeOK'
  BY <1>u, Zenon DEF ChainInv, ChainTypeOK
<1>2. UniqueIDs'
  BY <1>u, SameUniqueIDs, SMTT(60) DEF ChainInv
<1>3. BookkeepingInStep'
  BY <1>u, SameBlocks DEF ChainInv, BookkeepingInStep
<1>4. DecidedOnce'
  BY <1>u, SameBlocks, Zenon DEF ChainInv, DecidedOnce
<1>5. ResultsOrdered'
  BY <1>u, SameBlocks DEF ChainInv, ResultsOrdered
<1>6. BallotsMatch'
  BY <1>u, SameBlocks DEF ChainInv, BallotsMatch
<1>7. CommittedUnanimous'
  <2>1. \A x : Result(x, TRUE)' <=> Result(x, TRUE)
    BY <1>u, SameBlocks, ZenonT(60) DEF Result
  <2>2. \A tx : Unanimous(tx)' <=> Unanimous(tx)
    BY <1>u DEF Unanimous
  <2> QED
    BY <1>u, <2>1, <2>2, SameBlocks, Zenon DEF ChainInv, CommittedUnanimous
<1> QED
  BY <1>1, <1>2, <1>3, <1>4, <1>5, <1>6, <1>7 DEF ChainInv

\* Every step of the chain preserves ChainInv.
LEMMA NextInv == ChainInv /\ [ChainNext]_chainVars => ChainInv'
<1> SUFFICES ASSUME ChainInv, [ChainNext]_chainVars PROVE ChainInv'
  OBVIOUS
<1>1. ASSUME NEW tx \in CrossShardTx, AddTransaction(tx) PROVE ChainInv'
  BY <1>1, AddTransactionInv
<1>2. ASSUME NEW id \in TxIDs, NEW s \in Shards, RecordNo(id, s) PROVE ChainInv'
  BY <1>2, RecordNoInv, Zenon
<1>3. ASSUME NEW id \in TxIDs, NEW s \in Shards, RecordYes(id, s) PROVE ChainInv'
  BY <1>3, RecordLastYesInv, RecordOtherYesInv, Zenon
<1>4. CASE CheckTimeouts
  BY <1>4, CheckTimeoutsInv
<1>5. CASE ProduceBlock
  BY <1>5, ProduceBlockInv
<1>6. CASE UNCHANGED chainVars
  BY <1>6, StutterInv
<1> QED
  BY <1>1, <1>2, <1>3, <1>4, <1>5, <1>6 DEF ChainNext, RecordVote, IgnoreVote

\* ChainInv is an invariant of the chain.
LEMMA ChainInvariant == ChainSpec => []ChainInv
BY InitInv, NextInv, PTL DEF ChainSpec

\* The chain's maps, blocks and sequences keep their types.
THEOREM ChainTypeCorrect == ChainSpec => []ChainTypeOK
<1>1. ChainInv => ChainTypeOK
  BY DEF ChainInv
<1> QED
  BY <1>1, ChainInvariant, PTL

\* RecordVote commits a transaction only when every shard it involves has voted
\* YES, and no accepted vote was NO, whatever votes arrive and in whatever order.
THEOREM CommitIsUnanimous == ChainSpec => []CommitUnanimous
<1>1. ChainInv => CommitUnanimous
  <2> SUFFICES ASSUME ChainInv, NEW h \in 1..height, NEW i \in 1..Len(blocks[h].ctToOrder),
                      Result(blocks[h].ctToOrder[i].id, TRUE)
               PROVE  Unanimous(blocks[h].ctToOrder[i])
    BY ZenonT(60) DEF CommitUnanimous
  <2>1. blocks[h] \in Block
    BY SMTT(30) DEF ChainInv, ChainTypeOK, height
  <2>2. blocks[h].ctToOrder[i] \in CrossShardTx
    BY <2>1 DEF Block
  <2>3. OrderedIn(blocks[h].ctToOrder[i], h)
    BY DEF OrderedIn
  <2> QED
    BY <2>2, <2>3, Zenon DEF ChainInv, CommittedUnanimous
<1> QED
  BY <1>1, ChainInvariant, PTL

\* RecordVote, checkTimeouts and ProduceBlock decide a transaction once, after it
\* was ordered, whatever votes are late or duplicated.
THEOREM TxDecidedOnce == ChainSpec => []DecidedOnce
<1>1. ChainInv => DecidedOnce
  BY DEF ChainInv
<1> QED
  BY <1>1, ChainInvariant, PTL

\* awaitingVotes, votes, expectedVoters and voteStartBlock describe the same
\* transactions, the ones that a block has ordered.
THEOREM BookkeepingStaysInStep == ChainSpec => []BookkeepingInStep
<1>1. ChainInv => BookkeepingInStep
  BY DEF ChainInv
<1> QED
  BY <1>1, ChainInvariant, PTL

\* checkTimeouts, which every ProduceBlock runs, leaves no transaction waiting
\* for votes more than VoteTimeout blocks.
THEOREM NoTxOverdue == ChainSpec => []NoOverdueTx
<1>1. ChainInit => NoOverdueTx
  BY Zenon DEF ChainInit, NoOverdueTx, EmptyMap
<1>2. ChainInv /\ NoOverdueTx /\ [ChainNext]_chainVars => NoOverdueTx'
  <2> SUFFICES ASSUME ChainInv, NoOverdueTx, [ChainNext]_chainVars PROVE NoOverdueTx'
    OBVIOUS
  <2>0. /\ DOMAIN voteStartBlock = DOMAIN awaitingVotes
        /\ \A id \in DOMAIN awaitingVotes : voteStartBlock[id] \in Nat
        /\ height \in Nat /\ VoteTimeout \in Nat
    <3>1. DOMAIN voteStartBlock = DOMAIN awaitingVotes
      BY Zenon DEF ChainInv, BookkeepingInStep
    <3>2. voteStartBlock \in [DOMAIN voteStartBlock -> Nat]
      BY Zenon DEF ChainInv, ChainTypeOK
    <3>3. height \in Nat
      BY SMTT(60) DEF ChainInv, ChainTypeOK, height
    <3> QED
      BY <3>1, <3>2, <3>3, ChainAssumption, Zenon
  <2>1. CASE ProduceBlock
    <3>1. height' = height + 1
      BY <2>1, NewBlock, Zenon
    <3>2. \A id \in DOMAIN awaitingVotes' :
            \/ voteStartBlock'[id] = height + 1
            \/ /\ id \in DOMAIN awaitingVotes \ TimedOut
               /\ voteStartBlock'[id] = voteStartBlock[id]
      BY <2>0, <2>1, Zenon DEF ProduceBlock, Ordered
    <3>3. \A id \in DOMAIN awaitingVotes \ TimedOut : height + 1 <= voteStartBlock[id] + VoteTimeout
      <4> SUFFICES ASSUME NEW id \in DOMAIN awaitingVotes \ TimedOut
                   PROVE  height + 1 <= voteStartBlock[id] + VoteTimeout
        BY Zenon
      <4>1. ~(height >= voteStartBlock[id] + VoteTimeout)
        BY Zenon DEF TimedOut
      <4>2. voteStartBlock[id] \in Nat
        BY <2>0, Zenon
      <4> QED
        BY <2>0, <4>1, <4>2
    <3> QED
      BY <2>0, <3>1, <3>2, <3>3, SMTT(60) DEF NoOverdueTx
  <2>2. CASE blocks' = blocks /\ \A id \in DOMAIN awaitingVotes' :
                                   /\ id \in DOMAIN awaitingVotes
                                   /\ voteStartBlock'[id] = voteStartBlock[id]
    BY <2>2, Zenon DEF NoOverdueTx, height
  <2>3. ASSUME NEW id \in TxIDs, NEW s \in Shards, NEW c \in BOOLEAN, RecordVote(id, s, c)
        PROVE  NoOverdueTx'
    BY <2>0, <2>2, <2>3, ZenonT(60) DEF RecordVote, RecordNo, RecordYes, Decide, Del, IgnoreVote, chainVars
  <2>4. ASSUME NEW tx \in CrossShardTx, AddTransaction(tx) PROVE NoOverdueTx'
    BY <2>2, <2>4, Zenon DEF AddTransaction
  <2>5. CASE CheckTimeouts
    BY <2>0, <2>2, <2>5, Zenon DEF CheckTimeouts, Without
  <2>6. CASE UNCHANGED chainVars
    BY <2>2, <2>6, Zenon DEF chainVars
  <2> QED
    BY <2>1, <2>3, <2>4, <2>5, <2>6 DEF ChainNext
<1> QED
  BY <1>1, <1>2, ChainInvariant, PTL DEF ChainSpec
-----------------------------------------------------------------------------
(* The chain implements AtomicCommit, and every abort has a reason.        *)
(*                                                                         *)
(* ChainInv is not enough for either.  The votes that AtomicCommit counts  *)
(* are ballots, those that AllVoted counts are kept in votes: BallotsKept  *)
(* says that they agree while the transaction is open.  A transaction is   *)
(* open in AtomicCommit when it is ordered and has no result: Located says *)
(* that it awaits votes then.  An abort is decided before it is published: *)
(* AbortsPending gives the reason from the decision on.                    *)

IsOrdered(id) == \E h \in 1..height : Orders(h, id)

Located ==
  \A id \in TxIDs : IsOrdered(id) =>
    id \in DOMAIN awaitingVotes \/ \E res \in BOOLEAN : Result(id, res)

BallotsKept ==
  \A b \in ballots : b.id \in DOMAIN awaitingVotes => b.shard \in DOMAIN VotesOf(b.id)

AbortsPending ==
  \A id \in DOMAIN pendingResult : ~pendingResult[id] => AbortReason(id, height + 1)

PromiseInv == Located /\ BallotsKept
-----------------------------------------------------------------------------
(* The outcome of a transaction and the maps of the chain.                 *)

\* A transaction is new as long as no block orders it, and open exactly while it
\* awaits votes.
LEMMA OutcomeIs ==
  ASSUME ChainInv, Located, NEW id \in TxIDs
  PROVE  /\ id \in DOMAIN awaitingVotes => Outcome(id) = "open"
         /\ Outcome(id) = "open" => id \in DOMAIN awaitingVotes
         /\ id \in PendingIDs => Outcome(id) = "new"
<1>1. ASSUME id \in DOMAIN awaitingVotes PROVE Outcome(id) = "open"
  <2>1. ~Result(id, TRUE) /\ ~Result(id, FALSE)
    BY <1>1, AwaitingUndecided, Zenon
  <2>2. \E h \in 1..height : Orders(h, id)
    BY <1>1, AwaitingOrdered
  <2> QED
    BY <2>1, <2>2 DEF Outcome
<1>2. ASSUME Outcome(id) = "open" PROVE id \in DOMAIN awaitingVotes
  <2>1. /\ ~Result(id, TRUE) /\ ~Result(id, FALSE)
        /\ \E h \in 1..height : Orders(h, id)
    BY <1>2, Zenon DEF Outcome
  <2> QED
    BY <2>1, Zenon DEF Located, IsOrdered
<1>3. ASSUME id \in PendingIDs PROVE Outcome(id) = "new"
  BY <1>3, PendingIsNew, Zenon DEF Outcome
<1> QED
  BY <1>1, <1>2, <1>3

\* A step that adds or decides nothing changes no outcome.
LEMMA SameOutcome ==
  ASSUME blocks' = blocks, NEW id, \A res \in BOOLEAN : Result(id, res)' <=> Result(id, res)
  PROVE  Outcome(id)' = Outcome(id)
<1>1. (\E h \in 1..height : Orders(h, id))' <=> \E h \in 1..height : Orders(h, id)
  BY SameBlocks, Zenon
<1>2. (Result(id, TRUE)' <=> Result(id, TRUE)) /\ (Result(id, FALSE)' <=> Result(id, FALSE))
  BY Zenon
<1> QED
  BY <1>1, <1>2, Zenon DEF Outcome

\* The results after RecordVote has decided a transaction.
LEMMA DecideResults ==
  ASSUME ChainInv, NEW id \in DOMAIN awaitingVotes, NEW commit \in BOOLEAN,
         pendingResult' = Put(pendingResult, id, commit), blocks' = blocks
  PROVE  \A x, res : Result(x, res)' <=> (x = id /\ res = commit) \/ Result(x, res)
<1>1. id \notin DOMAIN pendingResult /\ \A res : ~Result(id, res)
  BY AwaitingUndecided
<1>2. /\ DOMAIN pendingResult' = DOMAIN pendingResult \cup {id}
      /\ pendingResult'[id] = commit
      /\ \A x \in DOMAIN pendingResult : x # id => pendingResult'[x] = pendingResult[x]
  BY Zenon DEF Put
<1>3. \A x, res : Published(x, res)' <=> Published(x, res)
  BY SameBlocks
<1> QED
  BY <1>1, <1>2, <1>3, Zenon DEF Result

\* The results after checkTimeouts, published in a new block or not.
LEMMA TimeoutResults ==
  ASSUME ChainInv, CheckTimeouts \/ ProduceBlock
  PROVE  \A x, res : Result(x, res)' <=> (x \in TimedOut /\ res = FALSE) \/ Result(x, res)
<1>1. /\ DOMAIN ResultsWithTimeouts = DOMAIN pendingResult \cup TimedOut
      /\ \A id \in TimedOut : ResultsWithTimeouts[id] = FALSE
      /\ \A id \in DOMAIN pendingResult : id \notin TimedOut /\ ResultsWithTimeouts[id] = pendingResult[id]
  BY PublishedResults, Zenon
<1>2. \A x, res : (x \in DOMAIN ResultsWithTimeouts /\ ResultsWithTimeouts[x] = res) <=>
        (x \in TimedOut /\ res = FALSE) \/ (x \in DOMAIN pendingResult /\ pendingResult[x] = res)
  BY <1>1, Zenon
<1>3. CASE CheckTimeouts
  <2>1. pendingResult' = ResultsWithTimeouts /\ blocks' = blocks
    BY <1>3 DEF CheckTimeouts
  <2>2. \A x, res : Published(x, res)' <=> Published(x, res)
    BY <2>1, SameBlocks
  <2> QED
    BY <1>2, <2>1, <2>2, Zenon DEF Result
<1>4. CASE ProduceBlock
  <2>1. \A x : x \notin DOMAIN pendingResult'
    BY <1>4, Zenon DEF ProduceBlock, EmptyMap
  <2>2. \A x, res : Published(x, res)' <=>
          Published(x, res) \/ (x \in DOMAIN ResultsWithTimeouts /\ ResultsWithTimeouts[x] = res)
    BY <1>4, NewBlock
  <2> QED
    BY <1>2, <2>1, <2>2, Zenon DEF Result
<1> QED
  BY <1>3, <1>4, Zenon
-----------------------------------------------------------------------------
(* PromiseInv is an invariant.                                             *)

\* The votes kept for a transaction that a step neither decides nor votes on.
LEMMA SameVotesOf ==
  ASSUME NEW D, votes' = Without(votes, D), NEW x, x \notin D
  PROVE  VotesOf(x)' = VotesOf(x)
<1>1. /\ x \in DOMAIN votes' <=> x \in DOMAIN votes
      /\ x \in DOMAIN votes => votes'[x] = votes[x]
  BY Zenon DEF Without
<1> QED
  BY <1>1, Zenon DEF VotesOf

\* A vote that decides: the transaction has a result, and no votes are needed.
LEMMA DecidePromiseInv ==
  ASSUME ChainInv, PromiseInv, NEW id \in DOMAIN awaitingVotes, NEW commit \in BOOLEAN, NEW s,
         Decide(id, commit), blocks' = blocks,
         ballots' = ballots \cup {[id |-> id, shard |-> s, vote |-> commit]}
  PROVE  PromiseInv'
<1>1. /\ awaitingVotes' = Del(awaitingVotes, id) /\ votes' = Del(votes, id)
      /\ pendingResult' = Put(pendingResult, id, commit)
  BY Zenon DEF Decide
<1>2. DOMAIN awaitingVotes' = DOMAIN awaitingVotes \ {id} /\ votes' = Without(votes, {id})
  BY <1>1, Zenon DEF Del, Without
<1>3. \A x, res : Result(x, res)' <=> (x = id /\ res = commit) \/ Result(x, res)
  BY <1>1, DecideResults, Zenon
<1>4. Located'
  <2>1. \A x : IsOrdered(x)' <=> IsOrdered(x)
    BY SameBlocks, Zenon DEF IsOrdered
  <2> QED
    BY <1>2, <1>3, <2>1, Zenon DEF PromiseInv, Located
<1>5. BallotsKept'
  <2> DEFINE new == [id |-> id, shard |-> s, vote |-> commit]
  <2>1. new.id = id /\ ballots' = ballots \cup {new}
    OBVIOUS
  <2> HIDE DEF new
  <2> SUFFICES ASSUME NEW b \in ballots', b.id \in DOMAIN awaitingVotes'
               PROVE  b.shard \in DOMAIN VotesOf(b.id)'
    BY Zenon DEF BallotsKept
  <2>2. b.id # id /\ b \in ballots /\ b.id \in DOMAIN awaitingVotes
    BY <1>2, <2>1, Zenon
  <2>3. VotesOf(b.id)' = VotesOf(b.id)
    <3>1. b.id \notin {id}
      BY <2>2
    <3> QED
      BY <1>2, <3>1, SameVotesOf, Zenon
  <2> QED
    BY <2>2, <2>3, Zenon DEF PromiseInv, BallotsKept
<1> QED
  BY <1>4, <1>5 DEF PromiseInv

\* A YES vote that leaves the transaction open is kept.
LEMMA VotePromiseInv ==
  ASSUME ChainInv, PromiseInv, NEW id \in DOMAIN awaitingVotes, NEW s,
         votes' = Put(votes, id, Put(VotesOf(id), s, TRUE)),
         blocks' = blocks, awaitingVotes' = awaitingVotes, pendingResult' = pendingResult,
         ballots' = ballots \cup {[id |-> id, shard |-> s, vote |-> TRUE]}
  PROVE  PromiseInv'
<1>1. \A x, res : Result(x, res)' <=> Result(x, res)
  BY SameBlocks, Zenon DEF Result
<1>2. \A x : IsOrdered(x)' <=> IsOrdered(x)
  BY SameBlocks, Zenon DEF IsOrdered
<1>3. Located'
  BY <1>1, <1>2, Zenon DEF PromiseInv, Located
<1>4. /\ DOMAIN VotesOf(id)' = DOMAIN VotesOf(id) \cup {s}
      /\ \A x : x # id => VotesOf(x)' = VotesOf(x)
  BY Zenon DEF VotesOf, Put
<1>5. BallotsKept'
  <2> DEFINE new == [id |-> id, shard |-> s, vote |-> TRUE]
  <2>1. new.id = id /\ new.shard = s /\ ballots' = ballots \cup {new}
    OBVIOUS
  <2> HIDE DEF new
  <2> SUFFICES ASSUME NEW b \in ballots', b.id \in DOMAIN awaitingVotes'
               PROVE  b.shard \in DOMAIN VotesOf(b.id)'
    BY Zenon DEF BallotsKept
  <2>2. CASE b = new
    BY <1>4, <2>1, <2>2, Zenon
  <2>3. CASE b \in ballots
    <3>1. b.shard \in DOMAIN VotesOf(b.id)
      BY <2>3, Zenon DEF PromiseInv, BallotsKept
    <3> QED
      BY <1>4, <3>1, Zenon
  <2> QED
    BY <2>1, <2>2, <2>3
<1> QED
  BY <1>3, <1>5 DEF PromiseInv

\* checkTimeouts decides what it gives up; a new block opens what it orders.
LEMMA TimeoutPromiseInv ==
  ASSUME ChainInv, PromiseInv, CheckTimeouts \/ ProduceBlock
  PROVE  PromiseInv'
<1>1. /\ votes' = Without(votes, TimedOut) /\ ballots' = ballots
      /\ \A x : x \in DOMAIN awaitingVotes' => x \in DOMAIN awaitingVotes \ TimedOut \/ x \in PendingIDs
      /\ \A x \in DOMAIN awaitingVotes : x \in DOMAIN awaitingVotes' \/ x \in TimedOut
  BY Zenon DEF CheckTimeouts, ProduceBlock, Ordered, Without
<1>2. \A x : IsOrdered(x)' => IsOrdered(x) \/ x \in DOMAIN awaitingVotes'
  <2>1. CASE CheckTimeouts
    BY <2>1, SameBlocks, Zenon DEF IsOrdered, CheckTimeouts
  <2>2. CASE ProduceBlock
    <3>1. \A x \in PendingIDs : x \in DOMAIN awaitingVotes'
      BY <2>2, Zenon DEF ProduceBlock, Ordered
    <3>2. /\ \A h : h \in 1..height' <=> h \in 1..height \/ h = height + 1
          /\ \A h, x : Orders(h, x)' <=> Orders(h, x) \/ (h = height + 1 /\ x \in PendingIDs)
      BY <2>2, NewBlock
    <3>3. \A h, x : Orders(h, x) => h \in 1..height
      BY Zenon DEF Orders
    <3> QED
      BY <3>1, <3>2, <3>3, Zenon DEF IsOrdered
  <2> QED
    BY <2>1, <2>2
<1>3. \A x, res : Result(x, res)' <=> (x \in TimedOut /\ res = FALSE) \/ Result(x, res)
  BY TimeoutResults, Zenon
<1>4. Located'
  <2> SUFFICES ASSUME NEW x \in TxIDs, IsOrdered(x)', x \notin DOMAIN awaitingVotes'
               PROVE  \E res \in BOOLEAN : Result(x, res)'
    BY Zenon DEF Located
  <2>1. x \in TimedOut \/ \E res \in BOOLEAN : Result(x, res)
    BY <1>1, <1>2, Zenon DEF PromiseInv, Located
  <2> QED
    BY <1>3, <2>1, Zenon
<1>5. BallotsKept'
  <2> SUFFICES ASSUME NEW b \in ballots, b.id \in DOMAIN awaitingVotes'
               PROVE  b.shard \in DOMAIN VotesOf(b.id)'
    BY <1>1, Zenon DEF BallotsKept
  <2>1. b.id \in DOMAIN awaitingVotes \ TimedOut
    BY <1>1, PendingIsNew, Zenon
  <2>2. VotesOf(b.id)' = VotesOf(b.id)
    BY <1>1, <2>1, SameVotesOf, Zenon
  <2> QED
    BY <2>1, <2>2, Zenon DEF PromiseInv, BallotsKept
<1> QED
  BY <1>4, <1>5 DEF PromiseInv

\* A step that only adds a pending transaction, or nothing.
LEMMA SamePromiseInv ==
  ASSUME PromiseInv, blocks' = blocks, awaitingVotes' = awaitingVotes,
         pendingResult' = pendingResult, votes' = votes, ballots' = ballots
  PROVE  PromiseInv' /\ \A x, res : Result(x, res)' <=> Result(x, res)
<1>1. \A x, res : Result(x, res)' <=> Result(x, res)
  BY SameBlocks, Zenon DEF Result
<1>2. \A x : IsOrdered(x)' <=> IsOrdered(x)
  BY SameBlocks, Zenon DEF IsOrdered
<1>3. Located'
  BY <1>1, <1>2, Zenon DEF PromiseInv, Located
<1>4. BallotsKept'
  BY Zenon DEF PromiseInv, BallotsKept, VotesOf
<1> QED
  BY <1>1, <1>3, <1>4 DEF PromiseInv
-----------------------------------------------------------------------------
(* Every step of the chain is a step of AtomicCommit, or changes nothing   *)
(* there.                                                                  *)

\* The outcomes as AtomicCommit sees them.
Outcomes == [id \in TxIDs |-> Outcome(id)]

\* An accepted vote is a Vote of AtomicCommit, if it decides the transaction when
\* it is a NO or completes the agreement, and only then.
LEMMA VoteStep ==
  ASSUME ChainInv, PromiseInv, NEW id \in TxIDs, NEW s \in Shards, NEW vote \in BOOLEAN,
         Accepts(id, s), blocks' = blocks,
         ballots' = ballots \cup {[id |-> id, shard |-> s, vote |-> vote]},
         NEW tx, tx = awaitingVotes[id], NEW decides \in BOOLEAN,
         decides <=> ~vote \/ InvolvedShards(tx) \subseteq DOMAIN VotesOf(id) \cup {s},
         \A x, res : Result(x, res)' <=> (decides /\ x = id /\ res = vote) \/ Result(x, res)
  PROVE  tx \in CrossShardTx /\ Promise!Vote(tx, s, vote)
<1> DEFINE new == [id |-> id, shard |-> s, vote |-> vote]
<1>0. new.id = id /\ new.shard = s /\ new.vote = vote /\ ballots' = ballots \cup {new}
  OBVIOUS
<1>1. id \in DOMAIN awaitingVotes /\ s \notin DOMAIN VotesOf(id)
  BY DEF Accepts
<1>2. tx \in CrossShardTx /\ tx.id = id /\ OrderedIn(tx, voteStartBlock[id])
  BY <1>1 DEF ChainInv, ChainTypeOK, BookkeepingInStep
<1> HIDE DEF new
<1>3. tx \in OrderedTxs /\ OrderedTxs' = OrderedTxs
  <2>1. voteStartBlock[id] \in 1..height
    BY <1>2 DEF OrderedIn
  <2> QED
    BY <1>2, <2>1, SameBlocks, Zenon DEF OrderedTxs
<1>4. Outcome(id) = "open"
  BY <1>1, OutcomeIs DEF PromiseInv
<1>5. \A b \in ballots : b.id = id => b.shard # s
  BY <1>1, Zenon DEF PromiseInv, BallotsKept
<1>6. \A v : v \in DOMAIN VotesOf(id) <=> [id |-> id, shard |-> v, vote |-> TRUE] \in ballots
  <2>1. ASSUME NEW v, v \in DOMAIN VotesOf(id) PROVE [id |-> id, shard |-> v, vote |-> TRUE] \in ballots
    BY <2>1, Zenon DEF VotesOf, EmptyMap, ChainInv, BallotsMatch
  <2>2. ASSUME NEW v, [id |-> id, shard |-> v, vote |-> TRUE] \in ballots PROVE v \in DOMAIN VotesOf(id)
    <3> DEFINE b == [id |-> id, shard |-> v, vote |-> TRUE]
    <3>1. b.id = id /\ b.shard = v /\ b \in ballots
      BY <2>2
    <3> HIDE DEF b
    <3> QED
      BY <1>1, <3>1, Zenon DEF PromiseInv, BallotsKept
  <2> QED
    BY <2>1, <2>2
<1>7. ASSUME vote
      PROVE  decides <=> \A v \in InvolvedShards(tx) : [id |-> tx.id, shard |-> v, vote |-> TRUE] \in ballots'
  <2>1. \A v : [id |-> id, shard |-> v, vote |-> TRUE] = new <=> v = s
    BY <1>7, Zenon DEF new
  <2>2. \A v : v \in DOMAIN VotesOf(id) \cup {s} <=> [id |-> id, shard |-> v, vote |-> TRUE] \in ballots'
    BY <1>0, <1>6, <2>1, Zenon
  <2> QED
    BY <1>2, <1>7, <2>2, Zenon
<1>8. Outcome(id)' = IF ~vote THEN "abort" ELSE IF decides THEN "commit" ELSE "open"
  <2>1. \A res : ~Result(id, res)
    BY <1>1, AwaitingUndecided
  <2>2. \A res : Result(id, res)' <=> decides /\ res = vote
    BY <2>1, Zenon
  <2>3. (\E h \in 1..height : Orders(h, id))'
    <3>1. \E h \in 1..height : Orders(h, id)
      BY <1>1, AwaitingOrdered
    <3> QED
      BY <3>1, SameBlocks, Zenon
  <2>4. CASE ~vote
    <3>0. vote = FALSE /\ decides
      BY <2>4
    <3>1. Result(id, FALSE)' /\ ~Result(id, TRUE)'
      BY <2>2, <3>0, Zenon
    <3> QED
      BY <2>4, <3>1, Zenon DEF Outcome
  <2>5. CASE vote /\ decides
    BY <2>2, <2>5, Zenon DEF Outcome
  <2>6. CASE vote /\ ~decides
    BY <2>2, <2>3, <2>6, Zenon DEF Outcome
  <2> QED
    BY <2>4, <2>5, <2>6
<1>9. \A x \in TxIDs : x # id => Outcome(x)' = Outcome(x)
  BY SameOutcome, Zenon
<1>10. Outcomes' = [Outcomes EXCEPT ![id] = IF ~vote THEN "abort" ELSE IF decides THEN "commit" ELSE "open"]
  BY <1>8, <1>9, Zenon DEF Outcomes
<1> HIDE DEF Outcomes
<1>11. Promise!Agreed(tx)' <=>
         \A v \in InvolvedShards(tx) : [id |-> tx.id, shard |-> v, vote |-> TRUE] \in ballots'
  BY Zenon DEF Promise!Agreed, Promise!InvolvedShards, Promise!TargetShards, InvolvedShards, TargetShards
<1>12. Outcomes' = [Outcomes EXCEPT ![tx.id] =
                      IF ~vote THEN "abort" ELSE IF Promise!Agreed(tx)' THEN "commit" ELSE "open"]
  BY <1>2, <1>7, <1>10, <1>11, Zenon
<1>13. Outcomes[tx.id] = "open"
  BY <1>2, <1>4 DEF Outcomes
<1>14. ballots' = ballots \cup {[id |-> tx.id, shard |-> s, vote |-> vote]}
  BY <1>2
<1> QED
  BY <1>2, <1>3, <1>5, <1>12, <1>13, <1>14, Zenon DEF Promise!Vote, Outcomes

\* CheckTimeouts is an Order of nothing that gives up the overdue transactions.
LEMMA CheckTimeoutsStep ==
  ASSUME ChainInv, PromiseInv, CheckTimeouts
  PROVE  Promise!Order({}, TimedOut)
<1>1. blocks' = blocks /\ ballots' = ballots
  BY DEF CheckTimeouts
<1>2. TimedOut \subseteq DOMAIN awaitingVotes /\ TimedOut \subseteq TxIDs
  BY PublishedResults, Zenon DEF ChainInv, ChainTypeOK
<1>3. \A x, res : Result(x, res)' <=> (x \in TimedOut /\ res = FALSE) \/ Result(x, res)
  BY TimeoutResults, Zenon
<1>4. \A x \in TimedOut : Outcome(x) = "open" /\ Outcome(x)' = "abort"
  <2> SUFFICES ASSUME NEW x \in TimedOut PROVE Outcome(x) = "open" /\ Outcome(x)' = "abort"
    OBVIOUS
  <2>1. Outcome(x) = "open"
    BY <1>2, OutcomeIs, Zenon DEF PromiseInv
  <2>2. \A res : ~Result(x, res)
    BY <1>2, AwaitingUndecided
  <2>3. Result(x, FALSE)' /\ ~Result(x, TRUE)'
    BY <1>3, <2>2, Zenon
  <2> QED
    BY <2>1, <2>3, Zenon DEF Outcome
<1>5. \A x \in TxIDs \ TimedOut : Outcome(x)' = Outcome(x)
  BY <1>1, <1>3, SameOutcome, Zenon
<1>6. Outcomes' = [x \in TxIDs |-> IF \E tx \in {} : tx.id = x THEN "open"
                                   ELSE IF x \in TimedOut THEN "abort" ELSE Outcomes[x]]
  BY <1>4, <1>5 DEF Outcomes
<1>7. \A x \in TimedOut : Outcomes[x] = "open"
  BY <1>2, <1>4 DEF Outcomes
<1>8. OrderedTxs' = OrderedTxs \cup {}
  BY <1>1, SameBlocks, Zenon DEF OrderedTxs
<1> QED
  BY <1>1, <1>6, <1>7, <1>8, Zenon DEF Promise!Order, Outcomes

\* ProduceBlock is an Order of the pending transactions that gives up the overdue
\* ones.
LEMMA ProduceBlockStep ==
  ASSUME ChainInv, PromiseInv, ProduceBlock
  PROVE  \E txs \in SUBSET CrossShardTx : Promise!Order(txs, TimedOut)
<1> DEFINE txs == {PendingTx(id) : id \in PendingIDs}
<1>1. \A id \in PendingIDs : PendingTx(id) \in CrossShardTx /\ PendingTx(id).id = id
  BY PendingIDsTx
<1>2. \A tx : tx \in txs <=> tx.id \in PendingIDs /\ tx = PendingTx(tx.id)
  BY <1>1, Zenon
<1>3. \A tx : tx \in txs <=> \E i \in 1..Len(pendingTxs) : pendingTxs[i] = tx
  <2>1. ASSUME NEW tx, tx \in txs PROVE \E i \in 1..Len(pendingTxs) : pendingTxs[i] = tx
    BY <2>1, PendingIDsTx, ZenonT(60)
  <2>2. ASSUME NEW i \in 1..Len(pendingTxs) PROVE pendingTxs[i] \in txs
    BY PendingTxIsUnique, Zenon DEF PendingIDs
  <2> QED
    BY <2>1, <2>2, Zenon
<1>4. txs \in SUBSET CrossShardTx
  BY <1>1, Zenon
<1>5. \A x : x \in PendingIDs <=> \E tx \in txs : tx.id = x
  BY <1>1, <1>2, Zenon
<1> HIDE DEF txs
<1>6. TimedOut \subseteq DOMAIN awaitingVotes /\ TimedOut \subseteq TxIDs
  BY PublishedResults, Zenon DEF ChainInv, ChainTypeOK
<1>7. \A x, res : Result(x, res)' <=> (x \in TimedOut /\ res = FALSE) \/ Result(x, res)
  BY TimeoutResults, Zenon
<1>8. \A x : (\E h \in 1..height : Orders(h, x))' <=> (\E h \in 1..height : Orders(h, x)) \/ x \in PendingIDs
  <2>1. /\ \A h : h \in 1..height' <=> h \in 1..height \/ h = height + 1
        /\ \A h, x : Orders(h, x)' <=> Orders(h, x) \/ (h = height + 1 /\ x \in PendingIDs)
    BY NewBlock
  <2>2. \A h, x : Orders(h, x) => h \in 1..height
    BY Zenon DEF Orders
  <2> QED
    BY <2>1, <2>2, Zenon
<1>9. \A x \in PendingIDs : x \notin TimedOut /\ Outcome(x) = "new" /\ Outcome(x)' = "open"
  <2> SUFFICES ASSUME NEW x \in PendingIDs
               PROVE  x \notin TimedOut /\ Outcome(x) = "new" /\ Outcome(x)' = "open"
    OBVIOUS
  <2>1. x \in TxIDs /\ x \notin TimedOut /\ \A res : ~Result(x, res)
    BY <1>6, PendingIsNew, Zenon
  <2>2. Outcome(x) = "new"
    BY <2>1, OutcomeIs, Zenon DEF PromiseInv
  <2>3. ~Result(x, FALSE)' /\ ~Result(x, TRUE)'
    BY <1>7, <2>1, Zenon
  <2>4. (\E h \in 1..height : Orders(h, x))'
    BY <1>8, Zenon
  <2> QED
    BY <2>1, <2>2, <2>3, <2>4, Zenon DEF Outcome
<1>10. \A x \in TimedOut : Outcome(x) = "open" /\ Outcome(x)' = "abort"
  <2> SUFFICES ASSUME NEW x \in TimedOut PROVE Outcome(x) = "open" /\ Outcome(x)' = "abort"
    OBVIOUS
  <2>1. Outcome(x) = "open"
    BY <1>6, OutcomeIs, Zenon DEF PromiseInv
  <2>2. \A res : ~Result(x, res)
    BY <1>6, AwaitingUndecided
  <2>3. Result(x, FALSE)' /\ ~Result(x, TRUE)'
    BY <1>7, <2>2, Zenon
  <2> QED
    BY <2>1, <2>3, Zenon DEF Outcome
<1>11. \A x \in TxIDs : x \notin PendingIDs /\ x \notin TimedOut => Outcome(x)' = Outcome(x)
  <2> SUFFICES ASSUME NEW x \in TxIDs, x \notin PendingIDs, x \notin TimedOut
               PROVE  Outcome(x)' = Outcome(x)
    OBVIOUS
  <2>1. (\E h \in 1..height : Orders(h, x))' <=> \E h \in 1..height : Orders(h, x)
    BY <1>8, Zenon
  <2>2. (Result(x, TRUE)' <=> Result(x, TRUE)) /\ (Result(x, FALSE)' <=> Result(x, FALSE))
    BY <1>7, Zenon
  <2> QED
    BY <2>1, <2>2, Zenon DEF Outcome
<1>12. Outcomes' = [x \in TxIDs |-> IF \E tx \in txs : tx.id = x THEN "open"
                                    ELSE IF x \in TimedOut THEN "abort" ELSE Outcomes[x]]
  BY <1>5, <1>9, <1>10, <1>11, Zenon DEF Outcomes
<1>13. \A x \in TimedOut : Outcomes[x] = "open"
  BY <1>6, <1>10 DEF Outcomes
<1>14. \A tx \in txs : Outcomes[tx.id] = "new"
  <2>1. \A x \in PendingIDs : x \in TxIDs /\ Outcome(x) = "new"
    BY <1>9, PendingIsNew
  <2>2. \A x \in PendingIDs : Outcomes[x] = "new"
    BY <2>1 DEF Outcomes
  <2> QED
    BY <1>2, <2>2, Zenon
<1>15. \A tx, ty \in txs : tx.id = ty.id => tx = ty
  <2> SUFFICES ASSUME NEW tx \in txs, NEW ty \in txs, tx.id = ty.id PROVE tx = ty
    OBVIOUS
  <2>1. tx = PendingTx(tx.id) /\ ty = PendingTx(ty.id)
    BY <1>2, Zenon
  <2> QED
    BY <2>1
<1>16. OrderedTxs' = OrderedTxs \cup txs
  <2>1. /\ \A h : h \in 1..height' <=> h \in 1..height \/ h = height + 1
        /\ \A h, tx : OrderedIn(tx, h)' <=>
             OrderedIn(tx, h) \/ (h = height + 1 /\ \E i \in 1..Len(pendingTxs) : pendingTxs[i] = tx)
    BY NewBlock
  <2>2. \A h, tx : OrderedIn(tx, h) => h \in 1..height
    BY Zenon DEF OrderedIn
  <2>3. \A tx \in CrossShardTx :
          (\E h \in 1..height : OrderedIn(tx, h))' <=> (\E h \in 1..height : OrderedIn(tx, h)) \/ tx \in txs
    BY <1>3, <2>1, <2>2, Zenon
  <2> QED
    BY <1>4, <2>3, Zenon DEF OrderedTxs
<1>17. ballots' = ballots
  BY DEF ProduceBlock
<1>18. Promise!Order(txs, TimedOut)
  BY <1>12, <1>13, <1>14, <1>15, <1>16, <1>17, Zenon DEF Promise!Order, Outcomes
<1> QED
  BY <1>4, <1>18, Zenon

\* A step that publishes, decides and accepts nothing is invisible.
LEMMA InvisibleStep ==
  ASSUME blocks' = blocks, ballots' = ballots, \A x, res : Result(x, res)' <=> Result(x, res)
  PROVE  UNCHANGED <<OrderedTxs, Outcomes, ballots>>
<1>1. \A x \in TxIDs : Outcome(x)' = Outcome(x)
  BY SameOutcome, Zenon
<1>2. Outcomes' = Outcomes
  BY <1>1 DEF Outcomes
<1>3. OrderedTxs' = OrderedTxs
  BY SameBlocks, Zenon DEF OrderedTxs
<1> QED
  BY <1>2, <1>3

\* Every step of the chain preserves PromiseInv and is a step of AtomicCommit.
LEMMA NextPromise ==
  ASSUME ChainInv, PromiseInv, [ChainNext]_chainVars
  PROVE  PromiseInv' /\ [Promise!Next]_<<OrderedTxs, Outcomes, ballots>>
<1> DEFINE goal == PromiseInv' /\ [Promise!Next]_<<OrderedTxs, Outcomes, ballots>>
<1>1. CASE /\ blocks' = blocks /\ awaitingVotes' = awaitingVotes /\ pendingResult' = pendingResult
           /\ votes' = votes /\ ballots' = ballots
  BY <1>1, SamePromiseInv, InvisibleStep, Zenon
<1>2. ASSUME NEW tx \in CrossShardTx, AddTransaction(tx) PROVE goal
  BY <1>1, <1>2, Zenon DEF AddTransaction
<1>3. ASSUME NEW id \in TxIDs, NEW s \in Shards, RecordNo(id, s) PROVE goal
  <2>1. /\ Accepts(id, s) /\ id \in DOMAIN awaitingVotes /\ Decide(id, FALSE) /\ blocks' = blocks
        /\ ballots' = ballots \cup {[id |-> id, shard |-> s, vote |-> FALSE]}
        /\ pendingResult' = Put(pendingResult, id, FALSE)
    BY <1>3, Zenon DEF RecordNo, Accepts, Decide
  <2>2. PromiseInv'
    BY <2>1, DecidePromiseInv, Zenon
  <2>3. \A x, res : Result(x, res)' <=> (TRUE /\ x = id /\ res = FALSE) \/ Result(x, res)
    BY <2>1, DecideResults, Zenon
  <2>4. PICK tx : tx = awaitingVotes[id]
    OBVIOUS
  <2>5. TRUE <=> ~FALSE \/ InvolvedShards(tx) \subseteq DOMAIN VotesOf(id) \cup {s}
    OBVIOUS
  <2>6. tx \in CrossShardTx /\ Promise!Vote(tx, s, FALSE)
    BY <2>1, <2>3, <2>4, <2>5, VoteStep, Zenon
  <2> QED
    BY <2>2, <2>6, Zenon DEF Promise!Next
<1>4. ASSUME NEW id \in TxIDs, NEW s \in Shards, RecordYes(id, s) PROVE goal
  <2> DEFINE mine == Put(VotesOf(id), s, TRUE)
  <2>1. /\ Accepts(id, s) /\ id \in DOMAIN awaitingVotes /\ blocks' = blocks
        /\ ballots' = ballots \cup {[id |-> id, shard |-> s, vote |-> TRUE]}
    BY <1>4, Zenon DEF RecordYes, Accepts
  <2>2. PICK tx : tx = awaitingVotes[id]
    OBVIOUS
  <2>3. AllVoted(id, DOMAIN mine) <=> InvolvedShards(tx) \subseteq DOMAIN VotesOf(id) \cup {s}
    <3>1. expectedVoters[id] = InvolvedShards(tx)
      BY <2>1, <2>2, Zenon DEF ChainInv, BookkeepingInStep
    <3>2. DOMAIN mine = DOMAIN VotesOf(id) \cup {s}
      BY Zenon DEF Put
    <3> QED
      BY <3>1, <3>2, Zenon DEF AllVoted
  <2>4. CASE AllVoted(id, DOMAIN mine)
    <3>1. Decide(id, TRUE) /\ pendingResult' = Put(pendingResult, id, TRUE)
      BY <1>4, <2>4, Zenon DEF RecordYes, Decide
    <3>2. PromiseInv'
      BY <2>1, <3>1, DecidePromiseInv, Zenon
    <3>3. \A x, res : Result(x, res)' <=> (TRUE /\ x = id /\ res = TRUE) \/ Result(x, res)
      BY <2>1, <3>1, DecideResults, Zenon
    <3>4. TRUE <=> ~TRUE \/ InvolvedShards(tx) \subseteq DOMAIN VotesOf(id) \cup {s}
      BY <2>3, <2>4, Zenon
    <3>5. tx \in CrossShardTx /\ Promise!Vote(tx, s, TRUE)
      BY <2>1, <2>2, <3>3, <3>4, VoteStep, Zenon
    <3> QED
      BY <3>2, <3>5, Zenon DEF Promise!Next
  <2>5. CASE ~AllVoted(id, DOMAIN mine)
    <3>1. /\ votes' = Put(votes, id, Put(VotesOf(id), s, TRUE))
          /\ awaitingVotes' = awaitingVotes /\ pendingResult' = pendingResult
      BY <1>4, <2>5, Zenon DEF RecordYes
    <3>2. PromiseInv'
      BY <2>1, <3>1, VotePromiseInv, Zenon
    <3>3. \A x, res : Result(x, res)' <=> (FALSE /\ x = id /\ res = TRUE) \/ Result(x, res)
      BY <2>1, <3>1, SameBlocks, Zenon DEF Result
    <3>4. FALSE <=> ~TRUE \/ InvolvedShards(tx) \subseteq DOMAIN VotesOf(id) \cup {s}
      BY <2>3, <2>5, Zenon
    <3>5. tx \in CrossShardTx /\ Promise!Vote(tx, s, TRUE)
      BY <2>1, <2>2, <3>3, <3>4, VoteStep, Zenon
    <3> QED
      BY <3>2, <3>5, Zenon DEF Promise!Next
  <2> QED
    BY <2>4, <2>5, Zenon
<1>5. CASE CheckTimeouts
  <2>1. TimedOut \in SUBSET TxIDs
    BY PublishedResults, Zenon DEF ChainInv, ChainTypeOK
  <2> QED
    BY <1>5, <2>1, TimeoutPromiseInv, CheckTimeoutsStep, Zenon DEF Promise!Next
<1>6. CASE ProduceBlock
  <2>1. TimedOut \in SUBSET TxIDs
    BY PublishedResults, Zenon DEF ChainInv, ChainTypeOK
  <2> QED
    BY <1>6, <2>1, TimeoutPromiseInv, ProduceBlockStep, Zenon DEF Promise!Next
<1>7. CASE UNCHANGED chainVars
  BY <1>1, <1>7, Zenon DEF chainVars
<1> QED
  BY <1>2, <1>3, <1>4, <1>5, <1>6, <1>7, Zenon DEF ChainNext, RecordVote, IgnoreVote
-----------------------------------------------------------------------------
\* RecordVote, checkTimeouts and ProduceBlock order and decide transactions as
\* AtomicCommit says: once each, an abort at the first NO, a commit at the last
\* YES, and no decision is ever taken back.
THEOREM ChainKeepsPromise == ChainSpec => KeepsPromise
<1>1. ChainInit => PromiseInv /\ Promise!Init
  <2> SUFFICES ASSUME ChainInit PROVE PromiseInv /\ Promise!Init
    OBVIOUS
  <2>1. height = 0 /\ ballots = {} /\ \A h : h \notin 1..height
    BY DEF ChainInit, height
  <2>2. \A x, res : ~Result(x, res)
    BY <2>1, Zenon DEF ChainInit, Result, Published, EmptyMap
  <2>3. \A x \in TxIDs : Outcome(x) = "new"
    BY <2>1, <2>2, Zenon DEF Outcome
  <2>4. OrderedTxs = {}
    BY <2>1, Zenon DEF OrderedTxs
  <2>5. PromiseInv
    BY <2>1, Zenon DEF PromiseInv, Located, BallotsKept, IsOrdered
  <2> QED
    BY <2>1, <2>3, <2>4, <2>5, Zenon DEF Promise!Init
<1>2. ChainInv /\ PromiseInv /\ [ChainNext]_chainVars => PromiseInv' /\ [Promise!Next]_Promise!vars
  BY NextPromise, Zenon DEF Promise!vars, Outcomes
<1> QED
  BY <1>1, <1>2, ChainInvariant, PTL DEF ChainSpec, KeepsPromise, Promise!Spec
-----------------------------------------------------------------------------
(* Every abort has a reason.                                               *)

\* A reason stays one: ballots and blocks are only added.
LEMMA ReasonStays ==
  ASSUME ChainInv, ballots \subseteq ballots',
         blocks' = blocks \/ ProduceBlock,
         NEW id, NEW h, AbortReason(id, h)
  PROVE  AbortReason(id, h)'
<1>1. \A k \in 1..height : Orders(k, id) => k \in 1..height' /\ Orders(k, id)'
  <2>1. CASE blocks' = blocks
    BY <2>1, SameBlocks, Zenon
  <2>2. CASE ProduceBlock
    BY <2>2, NewBlock, Zenon
  <2> QED
    BY <2>1, <2>2
<1> QED
  BY <1>1, Zenon DEF AbortReason

\* What checkTimeouts finds overdue has a reason to be aborted in the next block.
LEMMA TimeoutIsReason ==
  ASSUME ChainInv, NEW id \in TimedOut
  PROVE  AbortReason(id, height + 1)
<1>1. id \in DOMAIN awaitingVotes /\ height >= voteStartBlock[id] + VoteTimeout
  BY DEF TimedOut
<1>2. /\ awaitingVotes[id] \in CrossShardTx /\ awaitingVotes[id].id = id
      /\ OrderedIn(awaitingVotes[id], voteStartBlock[id])
  BY <1>1 DEF ChainInv, ChainTypeOK, BookkeepingInStep
<1>3. Orders(voteStartBlock[id], id)
  BY <1>2, OrdersIsOrderedIn DEF ChainInv
<1>4. voteStartBlock[id] \in 1..height
  BY <1>3 DEF Orders
<1>5. height \in Nat /\ VoteTimeout \in Nat
  BY ChainAssumption DEF height, ChainInv, ChainTypeOK
<1>6. height + 1 > voteStartBlock[id] + VoteTimeout
  BY <1>1, <1>4, <1>5
<1> QED
  BY <1>3, <1>4, <1>6, Zenon DEF AbortReason

\* AbortJustified in terms of ResultAt.
AbortsPublished ==
  \A h \in 1..height : \A id : ResultAt(id, h) /\ ~blocks[h].tpcResult[id] => AbortReason(id, h)

AbortInv == AbortsPending /\ AbortsPublished

\* A step that decides at most one transaction, and no abort without a reason.
LEMMA SameBlocksAbortInv ==
  ASSUME ChainInv, AbortInv, blocks' = blocks, ballots \subseteq ballots',
         \A id \in DOMAIN pendingResult' : ~pendingResult'[id] =>
           \/ id \in DOMAIN pendingResult /\ ~pendingResult[id]
           \/ AbortReason(id, height + 1)'
  PROVE  AbortInv'
<1>1. height' = height
  BY SameBlocks
<1>2. AbortsPending'
  <2> SUFFICES ASSUME NEW id \in DOMAIN pendingResult', ~pendingResult'[id]
               PROVE  AbortReason(id, height + 1)'
    BY Zenon DEF AbortsPending
  <2>1. CASE id \in DOMAIN pendingResult /\ ~pendingResult[id]
    <3>1. AbortReason(id, height + 1)
      BY <2>1, Zenon DEF AbortInv, AbortsPending
    <3>2. PICK h : h = height + 1
      OBVIOUS
    <3>3. AbortReason(id, h)'
      BY <3>1, <3>2, ReasonStays, Zenon
    <3> QED
      BY <1>1, <3>2, <3>3
  <2> QED
    BY <2>1, Zenon
<1>3. AbortsPublished'
  <2> SUFFICES ASSUME NEW h \in 1..height, NEW id, ResultAt(id, h)', ~blocks[h].tpcResult[id]
               PROVE  AbortReason(id, h)'
    BY <1>1, Zenon DEF AbortsPublished
  <2>1. AbortReason(id, h)
    BY SameBlocks, Zenon DEF AbortInv, AbortsPublished
  <2> QED
    BY <2>1, ReasonStays, Zenon
<1> QED
  BY <1>2, <1>3 DEF AbortInv

\* Every step of the chain preserves AbortInv.
LEMMA NextAbortInv ==
  ASSUME ChainInv, AbortInv, [ChainNext]_chainVars
  PROVE  AbortInv'
<1>1. CASE blocks' = blocks /\ pendingResult' = pendingResult /\ ballots \subseteq ballots'
  BY <1>1, SameBlocksAbortInv, Zenon
<1>2. ASSUME NEW tx \in CrossShardTx, AddTransaction(tx) PROVE AbortInv'
  BY <1>1, <1>2, Zenon DEF AddTransaction
<1>3. ASSUME NEW id \in TxIDs, NEW s \in Shards, RecordNo(id, s) PROVE AbortInv'
  <2> DEFINE new == [id |-> id, shard |-> s, vote |-> FALSE]
  <2>1. /\ blocks' = blocks /\ ballots' = ballots \cup {new}
        /\ pendingResult' = Put(pendingResult, id, FALSE)
    BY <1>3, Zenon DEF RecordNo, Decide
  <2>2. new.id = id /\ ~new.vote
    OBVIOUS
  <2> HIDE DEF new
  <2>3. AbortReason(id, height + 1)'
    BY <2>1, <2>2, Zenon DEF AbortReason
  <2>4. \A x \in DOMAIN pendingResult' :
          x = id \/ (x \in DOMAIN pendingResult /\ pendingResult'[x] = pendingResult[x])
    BY <2>1, Zenon DEF Put
  <2>5. ballots \subseteq ballots'
    BY <2>1, Zenon
  <2> QED
    BY <2>1, <2>3, <2>4, <2>5, SameBlocksAbortInv, Zenon
<1>4. ASSUME NEW id \in TxIDs, NEW s \in Shards, RecordYes(id, s) PROVE AbortInv'
  <2>1. /\ blocks' = blocks /\ ballots \subseteq ballots'
        /\ pendingResult' = pendingResult \/ pendingResult' = Put(pendingResult, id, TRUE)
    BY <1>4, Zenon DEF RecordYes, Decide
  <2>2. \A x \in DOMAIN pendingResult' : ~pendingResult'[x] =>
          x \in DOMAIN pendingResult /\ ~pendingResult[x]
    BY <2>1, Zenon DEF Put
  <2> QED
    BY <2>1, <2>2, SameBlocksAbortInv, Zenon
<1>5. CASE CheckTimeouts
  <2>1. blocks' = blocks /\ ballots' = ballots /\ pendingResult' = ResultsWithTimeouts
    BY <1>5, Zenon DEF CheckTimeouts
  <2>2. \A x \in TimedOut : AbortReason(x, height + 1)'
    BY <2>1, TimeoutIsReason, SameBlocks, Zenon DEF AbortReason
  <2>3. \A x \in DOMAIN pendingResult' :
          x \in TimedOut \/ (x \in DOMAIN pendingResult /\ pendingResult'[x] = pendingResult[x])
    BY <2>1, PublishedResults, Zenon
  <2> QED
    BY <2>1, <2>2, <2>3, SameBlocksAbortInv, Zenon
<1>6. CASE ProduceBlock
  <2>1. ballots' = ballots /\ \A x : x \notin DOMAIN pendingResult'
    BY <1>6, Zenon DEF ProduceBlock, EmptyMap
  <2>2. AbortsPending'
    BY <2>1, Zenon DEF AbortsPending
  <2>3. /\ \A h : h \in 1..height' <=> h \in 1..height \/ h = height + 1
        /\ \A h, id : ResultAt(id, h)' <=>
              ResultAt(id, h) \/ (h = height + 1 /\ id \in DOMAIN ResultsWithTimeouts)
        /\ height \in Nat
    BY <1>6, NewBlock
  <2>4. /\ \A h \in 1..height : blocks'[h] = blocks[h]
        /\ blocks'[height + 1].tpcResult = ResultsWithTimeouts
    BY <1>6 DEF ProduceBlock, ChainInv, ChainTypeOK, height
  <2>5. ASSUME NEW h \in 1..height', NEW id, ResultAt(id, h)', ~blocks'[h].tpcResult[id]
        PROVE  AbortReason(id, h)'
    <3>1. CASE h \in 1..height
      <4>1. ResultAt(id, h) /\ ~blocks[h].tpcResult[id]
        <5>1. h # height + 1
          BY <2>3, <3>1
        <5>2. ResultAt(id, h)
          BY <2>3, <2>5, <5>1, Zenon
        <5>3. blocks'[h] = blocks[h]
          BY <2>4, <3>1, Zenon
        <5> QED
          BY <2>5, <5>2, <5>3
      <4>2. AbortReason(id, h)
        BY <3>1, <4>1, Zenon DEF AbortInv, AbortsPublished
      <4> QED
        BY <1>6, <2>1, <4>2, ReasonStays, Zenon
    <3>2. CASE h = height + 1
      <4>1. id \in DOMAIN ResultsWithTimeouts /\ ~ResultsWithTimeouts[id]
        <5>1. ~ResultAt(id, height + 1)
          BY <2>3 DEF ResultAt
        <5> QED
          BY <2>3, <2>4, <2>5, <3>2, <5>1, Zenon
      <4>2. id \in TimedOut \/ (id \in DOMAIN pendingResult /\ ~pendingResult[id])
        BY <4>1, PublishedResults, Zenon
      <4>3. AbortReason(id, h)
        BY <3>2, <4>2, TimeoutIsReason, Zenon DEF AbortInv, AbortsPending
      <4> QED
        BY <1>6, <2>1, <4>3, ReasonStays, Zenon
    <3> QED
      BY <2>3, <3>1, <3>2, Zenon
  <2>6. AbortsPublished'
    BY <2>5, Zenon DEF AbortsPublished
  <2> QED
    BY <2>2, <2>6 DEF AbortInv
<1>7. CASE UNCHANGED chainVars
  BY <1>1, <1>7, Zenon DEF chainVars
<1> QED
  BY <1>2, <1>3, <1>4, <1>5, <1>6, <1>7, Zenon DEF ChainNext, RecordVote, IgnoreVote

\* RecordVote aborts a transaction only on a NO vote, checkTimeouts only when
\* VoteTimeout blocks have followed the one that ordered it.
THEOREM AbortsAreJustified == ChainSpec => []AbortJustified
<1>1. ChainInit => AbortInv
  <2> SUFFICES ASSUME ChainInit PROVE AbortInv
    OBVIOUS
  <2>1. \A h : h \notin 1..height
    BY DEF ChainInit, height
  <2> QED
    BY <2>1, Zenon DEF ChainInit, AbortInv, AbortsPending, AbortsPublished, EmptyMap
<1>2. ChainInv /\ AbortInv /\ [ChainNext]_chainVars => AbortInv'
  BY NextAbortInv
<1>3. AbortInv => AbortJustified
  BY Zenon DEF AbortInv, AbortsPublished, AbortJustified, ResultAt
<1> QED
  BY <1>1, <1>2, <1>3, ChainInvariant, PTL DEF ChainSpec
=============================================================================
