-------------------------- MODULE OrchestratorChain --------------------------
(***************************************************************************)
(* The orchestrator's chain (internal/orchestrator/chain.go): it orders    *)
(* cross-shard transactions into blocks, collects the prepare votes of the *)
(* involved shards, and publishes one commit or abort result per           *)
(* transaction in a later block.  Every method holds the chain's mutex, so *)
(* every method is one action.                                             *)
(*                                                                         *)
(* Votes come from an unconstrained environment: any shard may send any    *)
(* vote for any transaction at any time, any number of times.              *)
(***************************************************************************)
EXTENDS Protocol, Sequences, FiniteSets

CONSTANTS
  CrossShardTx, \* the transactions clients may submit
  VoteTimeout,  \* blocks to wait for votes
  MaxHeight     \* bound: the chain stops at this height

ASSUME ChainAssumption ==
  /\ VoteTimeout \in Nat
  /\ MaxHeight \in Nat
  /\ \A tx \in CrossShardTx : tx.id \in TxIDs /\ InvolvedShards(tx) \subseteq Shards

VARIABLES
  blocks,         \* the blocks after genesis; blocks[h] has height h
  pendingTxs,     \* transactions for the next block, a sequence
  awaitingVotes,  \* map txID -> transaction
  pendingResult,  \* map txID -> BOOLEAN, results for the next block
  votes,          \* map txID -> (map shard -> BOOLEAN)
  expectedVoters, \* map txID -> set of shards
  voteStartBlock, \* map txID -> height at which it was ordered
  ballots         \* history: the votes RecordVote accepted

chainVars == <<blocks, pendingTxs, awaitingVotes, pendingResult, votes,
               expectedVoters, voteStartBlock, ballots>>

height == Len(blocks)

Block == [tpcResult : UNION {[ids -> BOOLEAN] : ids \in SUBSET TxIDs},
          ctToOrder : Seq(CrossShardTx)]
Ballot == [id : TxIDs, shard : Shards, vote : BOOLEAN]
-----------------------------------------------------------------------------
\* NewOrchestratorChain; the genesis block carries nothing.
ChainInit ==
  /\ blocks = <<>>
  /\ pendingTxs = <<>>
  /\ awaitingVotes = EmptyMap
  /\ pendingResult = EmptyMap
  /\ votes = EmptyMap
  /\ expectedVoters = EmptyMap
  /\ voteStartBlock = EmptyMap
  /\ ballots = {}

\* The block at height h orders a transaction with this ID.
Orders(h, id) ==
  /\ h \in 1..height
  /\ \E i \in 1..Len(blocks[h].ctToOrder) : blocks[h].ctToOrder[i].id = id

\* Whether a transaction with this ID has ever been submitted.
Submitted(id) ==
  \/ \E i \in 1..Len(pendingTxs) : pendingTxs[i].id = id
  \/ \E h \in 1..height : Orders(h, id)

\* AddTransaction.  IDs are fresh UUIDs.  Clients stop early enough for every
\* transaction to time out before the bound on the height is reached.
AddTransaction(tx) ==
  /\ ~Submitted(tx.id)
  /\ height + VoteTimeout + 2 <= MaxHeight
  /\ pendingTxs' = Append(pendingTxs, tx)
  /\ UNCHANGED <<blocks, awaitingVotes, pendingResult, votes, expectedVoters,
                 voteStartBlock, ballots>>

\* votes[txID], created on first use.
VotesOf(id) == IF id \in DOMAIN votes THEN votes[id] ELSE EmptyMap

\* Mutant of Accepts: a second vote of the same shard counts as well.
AcceptsAgain(id, s) == id \in DOMAIN awaitingVotes

\* The conditions under which RecordVote records the vote and returns true.
Accepts(id, s) == id \in DOMAIN awaitingVotes /\ s \notin DOMAIN VotesOf(id)

\* Mutants of Decide: the votes stay behind; the transaction keeps awaiting votes;
\* the result is not recorded.
DecideKeepsVotes(id, commit) ==
  /\ pendingResult' = Put(pendingResult, id, commit)
  /\ awaitingVotes' = Del(awaitingVotes, id)
  /\ expectedVoters' = Del(expectedVoters, id)
  /\ voteStartBlock' = Del(voteStartBlock, id)
  /\ UNCHANGED votes

DecideKeepsAwaiting(id, commit) ==
  /\ pendingResult' = Put(pendingResult, id, commit)
  /\ UNCHANGED <<awaitingVotes, votes, expectedVoters, voteStartBlock>>

DecideForgetsResult(id, commit) ==
  /\ awaitingVotes' = Del(awaitingVotes, id)
  /\ votes' = Del(votes, id)
  /\ expectedVoters' = Del(expectedVoters, id)
  /\ voteStartBlock' = Del(voteStartBlock, id)
  /\ UNCHANGED pendingResult

\* The result of a transaction is known: it waits for the next block and the
\* bookkeeping of its votes is dropped.
Decide(id, commit) ==
  /\ pendingResult' = Put(pendingResult, id, commit)
  /\ awaitingVotes' = Del(awaitingVotes, id)
  /\ votes' = Del(votes, id)
  /\ expectedVoters' = Del(expectedVoters, id)
  /\ voteStartBlock' = Del(voteStartBlock, id)

\* Mutant of AllVoted: enough votes, of whatever shards.
AllVotedByCount(id, voters) == Cardinality(voters) >= Cardinality(expectedVoters[id])

\* All expected shards are among the voters.  The length test of the code is
\* implied.
AllVoted(id, voters) == expectedVoters[id] \subseteq voters

\* Mutant of RecordNo: the vote is recorded like a YES.
RecordNoKeepsWaiting(id, s) ==
  /\ Accepts(id, s)
  /\ votes' = Put(votes, id, Put(VotesOf(id), s, FALSE))
  /\ ballots' = ballots \cup {[id |-> id, shard |-> s, vote |-> FALSE]}
  /\ UNCHANGED <<blocks, pendingTxs, pendingResult, awaitingVotes, expectedVoters, voteStartBlock>>

\* RecordVote, NO: abort at once.
RecordNo(id, s) ==
  /\ Accepts(id, s)
  /\ Decide(id, FALSE)
  /\ ballots' = ballots \cup {[id |-> id, shard |-> s, vote |-> FALSE]}
  /\ UNCHANGED <<blocks, pendingTxs>>

\* RecordVote, YES: commit if it was the last one missing, else keep waiting.
RecordYes(id, s) ==
  /\ Accepts(id, s)
  /\ LET mine == Put(VotesOf(id), s, TRUE) IN
       \/ /\ AllVoted(id, DOMAIN mine)
          /\ Decide(id, TRUE)
       \/ /\ ~AllVoted(id, DOMAIN mine)
          /\ votes' = Put(votes, id, mine)
          /\ UNCHANGED <<pendingResult, awaitingVotes, expectedVoters, voteStartBlock>>
  /\ ballots' = ballots \cup {[id |-> id, shard |-> s, vote |-> TRUE]}
  /\ UNCHANGED <<blocks, pendingTxs>>

\* RecordVote returns false: not awaiting votes, or this shard has voted.
IgnoreVote(id, s) ==
  /\ ~Accepts(id, s)
  /\ UNCHANGED chainVars

RecordVote(id, s, canCommit) ==
  \/ ~canCommit /\ RecordNo(id, s)
  \/ canCommit /\ RecordYes(id, s)
  \/ IgnoreVote(id, s)

\* Mutants of TimedOut: one block early, one block late.
TimedOutEarly == {id \in DOMAIN awaitingVotes : height + 1 >= voteStartBlock[id] + VoteTimeout}
TimedOutLate == {id \in DOMAIN awaitingVotes : height > voteStartBlock[id] + VoteTimeout}

\* checkTimeouts: the transactions that have waited too long.
TimedOut == {id \in DOMAIN awaitingVotes : height >= voteStartBlock[id] + VoteTimeout}

\* pendingResult after checkTimeouts.
ResultsWithTimeouts ==
  [id \in DOMAIN pendingResult \cup TimedOut |->
     IF id \in TimedOut THEN FALSE ELSE pendingResult[id]]

\* A bookkeeping map without the entries of the given IDs.
Without(m, ids) == [id \in DOMAIN m \ ids |-> m[id]]

\* CheckTimeouts, the exported method.
CheckTimeouts ==
  /\ TimedOut # {}
  /\ pendingResult' = ResultsWithTimeouts
  /\ awaitingVotes' = Without(awaitingVotes, TimedOut)
  /\ votes' = Without(votes, TimedOut)
  /\ expectedVoters' = Without(expectedVoters, TimedOut)
  /\ voteStartBlock' = Without(voteStartBlock, TimedOut)
  /\ UNCHANGED <<blocks, pendingTxs, ballots>>

PendingIDs == {pendingTxs[i].id : i \in 1..Len(pendingTxs)}

\* The pending transaction with this ID that the loop of ProduceBlock meets last.
PendingTx(id) ==
  pendingTxs[CHOOSE i \in 1..Len(pendingTxs) :
               /\ pendingTxs[i].id = id
               /\ \A j \in i+1..Len(pendingTxs) : pendingTxs[j].id # id]

\* A bookkeeping map m after ProduceBlock: timed-out entries are gone, and each
\* newly ordered transaction has the entry new[id].
Ordered(m, new) ==
  [id \in (DOMAIN m \ TimedOut) \cup PendingIDs |->
     IF id \in PendingIDs THEN new[id] ELSE m[id]]

\* ProduceBlock: time out, publish all results and all pending transactions,
\* and start waiting for the votes on the latter.
ProduceBlock ==
  /\ height < MaxHeight
  /\ blocks' = Append(blocks, [tpcResult |-> ResultsWithTimeouts, ctToOrder |-> pendingTxs])
  /\ awaitingVotes' = Ordered(awaitingVotes, [id \in PendingIDs |-> PendingTx(id)])
  /\ expectedVoters' = Ordered(expectedVoters,
                             [id \in PendingIDs |-> InvolvedShards(PendingTx(id))])
  /\ voteStartBlock' = Ordered(voteStartBlock, [id \in PendingIDs |-> height + 1])
  /\ votes' = Without(votes, TimedOut)
  /\ pendingTxs' = <<>>
  /\ pendingResult' = EmptyMap
  /\ UNCHANGED ballots

ChainNext ==
  \/ \E tx \in CrossShardTx : AddTransaction(tx)
  \/ \E id \in TxIDs, s \in Shards, canCommit \in BOOLEAN : RecordVote(id, s, canCommit)
  \/ CheckTimeouts
  \/ ProduceBlock

\* blockProducer's ticker keeps producing blocks; nothing else is promised.
ChainFairness == WF_chainVars(ProduceBlock)

ChainSpec == ChainInit /\ [][ChainNext]_chainVars /\ ChainFairness
-----------------------------------------------------------------------------
\* The block at height h orders tx.
OrderedIn(tx, h) ==
  /\ h \in 1..height
  /\ \E i \in 1..Len(blocks[h].ctToOrder) : blocks[h].ctToOrder[i] = tx

\* The block at height h holds the result of the transaction.
ResultAt(id, h) == h \in 1..height /\ id \in DOMAIN blocks[h].tpcResult

\* A block holds the result res of the transaction.
Published(id, res) == \E h \in 1..height : ResultAt(id, h) /\ blocks[h].tpcResult[id] = res

\* The result of the transaction is known to be res, published or not.
Result(id, res) ==
  \/ id \in DOMAIN pendingResult /\ pendingResult[id] = res
  \/ Published(id, res)

\* The transactions ordered so far.
OrderedTxs == {tx \in CrossShardTx : \E h \in 1..height : OrderedIn(tx, h)}

\* Every variable of the chain has its type.
ChainTypeOK ==
  /\ blocks \in Seq(Block)
  /\ pendingTxs \in Seq(CrossShardTx)
  /\ DOMAIN awaitingVotes \subseteq TxIDs
  /\ awaitingVotes \in [DOMAIN awaitingVotes -> CrossShardTx]
  /\ DOMAIN pendingResult \subseteq TxIDs
  /\ pendingResult \in [DOMAIN pendingResult -> BOOLEAN]
  /\ DOMAIN votes \subseteq TxIDs
  /\ \A id \in DOMAIN votes : /\ DOMAIN votes[id] \subseteq Shards
                              /\ votes[id] \in [DOMAIN votes[id] -> {TRUE}]
  /\ DOMAIN expectedVoters \subseteq TxIDs
  /\ expectedVoters \in [DOMAIN expectedVoters -> SUBSET Shards]
  /\ DOMAIN voteStartBlock \subseteq TxIDs
  /\ voteStartBlock \in [DOMAIN voteStartBlock -> Nat]
  /\ ballots \subseteq Ballot

\* RecordVote and checkTimeouts drop four maps in step with each other, and
\* ProduceBlock fills three of them: a transaction that awaits votes has its
\* expected voters and its start block, both of the block that ordered it, and
\* no votes are kept for any other transaction.
BookkeepingInStep ==
  /\ DOMAIN expectedVoters = DOMAIN awaitingVotes
  /\ DOMAIN voteStartBlock = DOMAIN awaitingVotes
  /\ DOMAIN votes \subseteq DOMAIN awaitingVotes
  /\ \A id \in DOMAIN awaitingVotes :
       /\ awaitingVotes[id].id = id
       /\ expectedVoters[id] = InvolvedShards(awaitingVotes[id])
       /\ OrderedIn(awaitingVotes[id], voteStartBlock[id])

\* Every shard that tx involves has an accepted YES vote, none an accepted NO.
Unanimous(tx) ==
  /\ \A s \in InvolvedShards(tx) : [id |-> tx.id, shard |-> s, vote |-> TRUE] \in ballots
  /\ \A b \in ballots : b.id = tx.id => b.vote

\* Commit needs every involved shard: a transaction whose result is commit has
\* an accepted YES vote of each shard it involves, and no accepted NO vote.
CommitUnanimous ==
  \A h \in 1..height : \A i \in 1..Len(blocks[h].ctToOrder) :
    LET tx == blocks[h].ctToOrder[i] IN Result(tx.id, TRUE) => Unanimous(tx)

\* A transaction is decided once: its result is in at most one block, never
\* both published and waiting to be, never while votes are still collected,
\* and always in a later block than the one that ordered it.
DecidedOnce ==
  \A id \in TxIDs :
    /\ \A h1, h2 \in 1..height : ResultAt(id, h1) /\ ResultAt(id, h2) => h1 = h2
    /\ \A h \in 1..height : ResultAt(id, h) =>
         /\ id \notin DOMAIN pendingResult
         /\ id \notin DOMAIN awaitingVotes
         /\ \E k \in 1..h-1 : Orders(k, id)
    /\ ~(id \in DOMAIN pendingResult /\ id \in DOMAIN awaitingVotes)

\* A shard voted NO, or height h is more than VoteTimeout above the block that
\* ordered the transaction.
AbortReason(id, h) ==
  \/ \E b \in ballots : b.id = id /\ ~b.vote
  \/ \E k \in 1..height : Orders(k, id) /\ h > k + VoteTimeout

\* An abort has a reason: a shard voted NO, or VoteTimeout blocks after the one
\* that ordered the transaction had been produced when it was decided.
AbortJustified ==
  \A h \in 1..height : \A id \in DOMAIN blocks[h].tpcResult :
    ~blocks[h].tpcResult[id] => AbortReason(id, h)

\* The vote timeout is a bound: no transaction awaits votes once VoteTimeout
\* blocks have followed the block that ordered it.
NoOverdueTx ==
  \A id \in DOMAIN awaitingVotes : height <= voteStartBlock[id] + VoteTimeout

\* Lost votes do not block the chain: every submitted transaction is eventually
\* ordered, and its result is eventually published.
EveryTxDecided ==
  \A id \in TxIDs : Submitted(id) ~> (\E h \in 1..height : ResultAt(id, h))
-----------------------------------------------------------------------------
\* What a client can know of a transaction: nothing before a block orders it,
\* then its result once it is decided, published or not.
Outcome(id) ==
  IF Result(id, TRUE) THEN "commit"
  ELSE IF Result(id, FALSE) THEN "abort"
  ELSE IF \E h \in 1..height : Orders(h, id) THEN "open" ELSE "new"

Promise == INSTANCE AtomicCommit WITH ordered <- OrderedTxs,
                                      outcome <- [id \in TxIDs |-> Outcome(id)]

\* The chain keeps its promise: through its blocks, maps and timeouts, each
\* transaction is ordered once and decided once; a NO aborts it, the last YES
\* commits it, and a decision is never taken back.
KeepsPromise == Promise!Spec
=============================================================================
