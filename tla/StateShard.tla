----------------------------- MODULE StateShard -----------------------------
(***************************************************************************)
(* A state shard: the chain that queues, orders and executes the           *)
(* transactions of its blocks (internal/shard/chain.go), the state changes *)
(* of its EVM (internal/shard/evm.go), and the handler that turns an       *)
(* orchestrator block into queued transactions (processOrchestratorBlock   *)
(* of internal/shard/server.go).  Every variable but the accounts is a     *)
(* function over Shards; an account lives on the shard of its address.     *)
(*                                                                         *)
(* Three goroutines of a shard interleave: the block producer, the handler *)
(* of orchestrator blocks, and client requests.  The chain's mutex makes   *)
(* AddTx atomic and keeps ProduceBlock apart from it, so executing[s]      *)
(* excludes AddTx; between two AddTx of the handler a whole block can be   *)
(* produced.                                                               *)
(***************************************************************************)
EXTENDS Protocol, Sequences, FiniteSets

CONSTANTS
  Addrs,          \* addresses of accounts and contracts
  Slots,          \* storage slots
  AddressToShard, \* map address -> shard
  InitBalance     \* map address -> amount

ASSUME ShardAssumption ==
  /\ AddressToShard \in [Addrs -> Shards]
  /\ InitBalance \in [Addrs -> Nat]

VARIABLES
  currentTxs,       \* transactions queued for the next block
  adding,           \* transactions the block handler is about to queue, in order
  executing,        \* ProduceBlock holds the mutex
  sortedTxs,        \* the rest of the block that ProduceBlock executes
  prepares,         \* map txID -> vote, for the block being built
  locked,           \* map txID -> [addr, amount]
  pendingCredits,   \* map txID -> sequence of [addr, amount]
  pendingCalls,     \* map txID -> transaction
  slotLocks,        \* map <<addr, slot>> -> txID
  pendingRwSets,    \* map txID -> set of RwVariables
  processedCommits, \* set of txIDs
  lastOrchestratorHeight,
  ordersDone,       \* how many CtToOrder entries of the next block are handled
  balance,          \* map address -> amount
  storage           \* map address -> (map slot -> value)

metadata == <<locked, pendingCredits, pendingCalls, slotLocks, pendingRwSets>>
accounts == <<balance, storage>>
handlerVars == <<adding, processedCommits, lastOrchestratorHeight, ordersDone>>
blockVars == <<currentTxs, executing, sortedTxs, prepares>>
shardVars == <<metadata, accounts, handlerVars, blockVars>>

\* NewServer and NewChain, over the accounts the storage was created with.
ShardInit ==
  /\ currentTxs = [s \in Shards |-> <<>>]
  /\ adding = [s \in Shards |-> <<>>]
  /\ executing = [s \in Shards |-> FALSE]
  /\ sortedTxs = [s \in Shards |-> <<>>]
  /\ prepares = [s \in Shards |-> EmptyMap]
  /\ locked = [s \in Shards |-> EmptyMap]
  /\ pendingCredits = [s \in Shards |-> EmptyMap]
  /\ pendingCalls = [s \in Shards |-> EmptyMap]
  /\ slotLocks = [s \in Shards |-> EmptyMap]
  /\ pendingRwSets = [s \in Shards |-> EmptyMap]
  /\ processedCommits = [s \in Shards |-> {}]
  /\ lastOrchestratorHeight = [s \in Shards |-> 0]
  /\ ordersDone = [s \in Shards |-> 0]
  /\ balance = InitBalance
  /\ storage = [a \in Addrs |-> [slot \in Slots |-> 0]]
-----------------------------------------------------------------------------
(* The handler of orchestrator blocks.                                     *)

\* The entries of an RwSet that belong to this shard.
LocalRwSet(s, rwSet) == {rw \in rwSet : rw.shard = s}

\* The state changes queued for a committed transaction: debit the locked
\* funds, apply each pending credit, apply the write set of a pending call, and
\* finalize the RwSet that the Lock validated.
CommitTxs(s, id) ==
  LET credits == IF id \in DOMAIN pendingCredits[s] THEN pendingCredits[s][id] ELSE <<>>
      callRwSet == IF id \in DOMAIN pendingCalls[s]
                   THEN LocalRwSet(s, pendingCalls[s][id].rwSet) ELSE {}
      rwSet == IF id \in DOMAIN pendingRwSets[s] THEN pendingRwSets[s][id] ELSE {}
  IN  (IF id \in DOMAIN locked[s]
       THEN <<[type |-> "cross_debit", id |-> id, from |-> locked[s][id].addr,
               value |-> locked[s][id].amount]>>
       ELSE <<>>)
      \o [i \in 1..Len(credits) |->
            [type |-> "cross_credit", id |-> id, to |-> credits[i].addr,
             value |-> credits[i].amount]]
      \o (IF callRwSet # {}
          THEN <<[type |-> "cross_writeset", id |-> id, rwSet |-> callRwSet]>> ELSE <<>>)
      \o (IF rwSet # {}
          THEN <<[type |-> "finalize", id |-> id, rwSet |-> rwSet]>> ELSE <<>>)

\* Whether the shard holds anything for the transaction.
HasData(s, id) ==
  \/ id \in DOMAIN locked[s]
  \/ id \in DOMAIN pendingCredits[s]
  \/ id \in DOMAIN pendingCalls[s]
  \/ id \in DOMAIN pendingRwSets[s]

\* The cleanup queued for an aborted transaction, if there is something to clean.
AbortTxs(s, id) ==
  IF HasData(s, id) THEN <<[type |-> "cross_abort", id |-> id]>> ELSE <<>>

\* Mutant of ProcessResult: without the idempotency check.
ProcessResultAgain(s, id, committed) ==
  /\ ~executing[s] /\ adding[s] = <<>>
  /\ processedCommits' = [processedCommits EXCEPT ![s] = @ \cup {id}]
  /\ adding' = [adding EXCEPT ![s] =
       (IF committed THEN CommitTxs(s, id) ELSE AbortTxs(s, id))
         \o <<[type |-> "unlock", id |-> id]>>]
  /\ UNCHANGED <<metadata, accounts, blockVars, lastOrchestratorHeight, ordersDone>>

\* One iteration of phase 1: an entry of TpcResult that was not processed yet.
\* An Unlock is queued after the rest, whatever the result.  The code reads the
\* locks, credits, calls and RwSets one by one, between its calls of AddTx; a
\* block produced in between executes only what was already read and queued, so
\* the reads are one step.
ProcessResult(s, id, committed) ==
  /\ ~executing[s] /\ adding[s] = <<>>
  /\ id \notin processedCommits[s]
  /\ processedCommits' = [processedCommits EXCEPT ![s] = @ \cup {id}]
  /\ adding' = [adding EXCEPT ![s] =
       (IF committed THEN CommitTxs(s, id) ELSE AbortTxs(s, id))
         \o <<[type |-> "unlock", id |-> id]>>]
  /\ UNCHANGED <<metadata, accounts, blockVars, lastOrchestratorHeight, ordersDone>>

\* The Lock queued for a transaction: only the sender's shard locks funds.
LockTx(s, tx) ==
  [type |-> "lock", id |-> tx.id, from |-> tx.from,
   value |-> IF tx.fromShard = s THEN tx.value ELSE 0,
   rwSet |-> LocalRwSet(s, tx.rwSet)]

\* StorePendingCredit for a transaction that pays an address of this shard.
WithCredit(s, tx) ==
  IF tx.value > 0 /\ AddressToShard[tx.to] = s
  THEN Put(pendingCredits[s], tx.id,
           (IF tx.id \in DOMAIN pendingCredits[s] THEN pendingCredits[s][tx.id] ELSE <<>>)
             \o <<[addr |-> tx.to, amount |-> tx.value]>>)
  ELSE pendingCredits[s]

\* One iteration of phase 2: an entry of CtToOrder, in order.  A shard that the
\* transaction does not involve skips it; a shard that is not the sender's keeps
\* the call as well, if there is one.
ProcessOrder(s, tx) ==
  LET involved == tx.fromShard = s \/ LocalRwSet(s, tx.rwSet) # {} IN
  /\ ~executing[s] /\ adding[s] = <<>>
  /\ ordersDone' = [ordersDone EXCEPT ![s] = @ + 1]
  /\ pendingCredits' = [pendingCredits EXCEPT ![s] =
                          IF involved THEN WithCredit(s, tx) ELSE @]
  /\ pendingCalls' = [pendingCalls EXCEPT ![s] =
                        IF involved /\ tx.fromShard # s /\ tx.data
                        THEN Put(@, tx.id, tx) ELSE @]
  /\ adding' = [adding EXCEPT ![s] = IF involved THEN <<LockTx(s, tx)>> ELSE <<>>]
  /\ UNCHANGED <<locked, slotLocks, pendingRwSets, accounts, blockVars,
                 processedCommits, lastOrchestratorHeight>>

\* AddTx: the handler queues the next transaction.
AddTx(s) ==
  /\ ~executing[s] /\ adding[s] # <<>>
  /\ currentTxs' = [currentTxs EXCEPT ![s] = Append(@, Head(adding[s]))]
  /\ adding' = [adding EXCEPT ![s] = Tail(@)]
  /\ UNCHANGED <<metadata, accounts, executing, sortedTxs, prepares,
                 processedCommits, lastOrchestratorHeight, ordersDone>>

\* SetLastOrchestratorHeight, at the end of processOrchestratorBlock.
EndOrchestratorBlock(s) ==
  /\ ~executing[s] /\ adding[s] = <<>>
  /\ lastOrchestratorHeight' = [lastOrchestratorHeight EXCEPT ![s] = @ + 1]
  /\ ordersDone' = [ordersDone EXCEPT ![s] = 0]
  /\ UNCHANGED <<metadata, accounts, blockVars, adding, processedCommits>>
-----------------------------------------------------------------------------
(* The block producer.                                                     *)

\* The order of a stable sort by priority, on positions of the queue.
RunsBefore(txs, i, j) ==
  \/ Priority(txs[i].type) < Priority(txs[j].type)
  \/ Priority(txs[i].type) = Priority(txs[j].type) /\ i < j

\* How many transactions of the queue run before the one at position i.
Rank(txs, i) == Cardinality({j \in 1..Len(txs) : RunsBefore(txs, j, i)})

\* sortTransactionsByPriority: the transaction of rank n - 1 comes n-th.
SortTransactionsByPriority(txs) ==
  [n \in 1..Len(txs) |-> txs[CHOOSE i \in 1..Len(txs) : Rank(txs, i) = n - 1]]

\* ProduceBlock takes the mutex and sorts the queue.  A block of no transactions
\* changes nothing and is left out.
StartBlock(s) ==
  /\ ~executing[s]
  /\ currentTxs[s] # <<>>
  /\ executing' = [executing EXCEPT ![s] = TRUE]
  /\ sortedTxs' = [sortedTxs EXCEPT ![s] = SortTransactionsByPriority(currentTxs[s])]
  /\ currentTxs' = [currentTxs EXCEPT ![s] = <<>>]
  /\ UNCHANGED <<metadata, accounts, handlerVars, prepares>>

\* The loop of ProduceBlock takes the next transaction, one of the given type.
Executes(s, type) ==
  /\ executing[s]
  /\ sortedTxs[s] # <<>>
  /\ Head(sortedTxs[s]).type = type
  /\ sortedTxs' = [sortedTxs EXCEPT ![s] = Tail(@)]
  /\ UNCHANGED <<currentTxs, executing, handlerVars>>

\* Mutant of UnlockAllSlotsForTx: without the check of the holder.
UnlockAllSlots(locks, id) == EmptyMap

\* unlockAllSlotsForTxLocked
UnlockAllSlotsForTx(locks, id) == [k \in {k \in DOMAIN locks : locks[k] # id} |-> locks[k]]

\* clearAllMetadataLocked
ClearAllMetadata(s, id) ==
  /\ locked' = [locked EXCEPT ![s] = Del(@, id)]
  /\ pendingCredits' = [pendingCredits EXCEPT ![s] = Del(@, id)]
  /\ pendingCalls' = [pendingCalls EXCEPT ![s] = Del(@, id)]
  /\ slotLocks' = [slotLocks EXCEPT ![s] = UnlockAllSlotsForTx(@, id)]
  /\ pendingRwSets' = [pendingRwSets EXCEPT ![s] = Del(@, id)]

\* applyWriteSet
ApplyWriteSet(rwSet) ==
  storage' = [a \in Addrs |-> [slot \in Slots |->
    LET written == {rw \in rwSet : rw.addr = a /\ slot \in DOMAIN rw.writes} IN
    IF written = {} THEN storage[a][slot]
    ELSE (CHOOSE rw \in written : TRUE).writes[slot]]]

\* Debit the locked funds and drop the fund lock.  Debit fails when the balance
\* is too small: the transaction is reverted and nothing is cleaned up.
ExecuteCrossDebit(s) == LET tx == Head(sortedTxs[s]) IN
  /\ Executes(s, "cross_debit")
  /\ \/ /\ balance[tx.from] >= tx.value
        /\ balance' = [balance EXCEPT ![tx.from] = @ - tx.value]
        /\ locked' = [locked EXCEPT ![s] = Del(@, tx.id)]
     \/ /\ balance[tx.from] < tx.value
        /\ UNCHANGED <<balance, locked>>
  /\ UNCHANGED <<pendingCredits, pendingCalls, slotLocks, pendingRwSets, storage, prepares>>

\* clearPendingCreditForAddressLocked
ClearCreditFor(credits, id, addr) ==
  IF id \notin DOMAIN credits THEN credits
  ELSE LET remaining == SelectSeq(credits[id], LAMBDA c : c.addr # addr) IN
       IF remaining = <<>> THEN Del(credits, id) ELSE Put(credits, id, remaining)

ExecuteCrossCredit(s) == LET tx == Head(sortedTxs[s]) IN
  /\ Executes(s, "cross_credit")
  /\ balance' = [balance EXCEPT ![tx.to] = @ + tx.value]
  /\ pendingCredits' = [pendingCredits EXCEPT ![s] = ClearCreditFor(@, tx.id, tx.to)]
  /\ UNCHANGED <<locked, pendingCalls, slotLocks, pendingRwSets, storage, prepares>>

ExecuteCrossWriteSet(s) == LET tx == Head(sortedTxs[s]) IN
  /\ Executes(s, "cross_writeset")
  /\ ApplyWriteSet(tx.rwSet)
  /\ pendingCalls' = [pendingCalls EXCEPT ![s] = Del(@, tx.id)]
  /\ UNCHANGED <<locked, pendingCredits, slotLocks, pendingRwSets, balance, prepares>>

ExecuteFinalize(s) == LET tx == Head(sortedTxs[s]) IN
  /\ Executes(s, "finalize")
  /\ ApplyWriteSet(tx.rwSet)
  /\ slotLocks' = [slotLocks EXCEPT ![s] = UnlockAllSlotsForTx(@, tx.id)]
  /\ pendingRwSets' = [pendingRwSets EXCEPT ![s] = Del(@, tx.id)]
  /\ UNCHANGED <<locked, pendingCredits, pendingCalls, balance, prepares>>

ExecuteUnlock(s) == LET tx == Head(sortedTxs[s]) IN
  /\ Executes(s, "unlock")
  /\ ClearAllMetadata(s, tx.id)
  /\ UNCHANGED <<accounts, prepares>>

ExecuteCrossAbort(s) == LET tx == Head(sortedTxs[s]) IN
  /\ Executes(s, "cross_abort")
  /\ ClearAllMetadata(s, tx.id)
  /\ UNCHANGED <<accounts, prepares>>

\* getLockedAmountForAddrLocked: the sum of lockedByAddr[addr], which indexes
\* the entries of locked by address.
LockedAmount(s, addr) ==
  SumOf([id \in {id \in DOMAIN locked[s] : locked[s][id].addr = addr} |-> locked[s][id].amount])

\* Mutant of CanDebit: reserved funds count as available.
CanDebitReserved(s, addr, amount) == balance[addr] >= amount

\* CanDebit: available = balance - locked amount.
CanDebit(s, addr, amount) == balance[addr] >= amount + LockedAmount(s, addr)

\* The slots that a Lock must hold.
ReadSlots(rwSet) == UNION {{<<rw.addr, slot>> : slot \in DOMAIN rw.reads} : rw \in rwSet}

\* Mutant of CanLockReadSet: the values read are not validated.
CanLockStaleReadSet(s, id, rwSet) ==
  \A k \in ReadSlots(rwSet) : k \in DOMAIN slotLocks[s] => slotLocks[s][k] = id

\* validateAndLockReadSetLocked succeeds: every value read is still current, and
\* no slot is held by another transaction.
CanLockReadSet(s, id, rwSet) ==
  /\ \A rw \in rwSet : \A slot \in DOMAIN rw.reads :
       storage[rw.addr][slot] = rw.reads[slot]
  /\ \A k \in ReadSlots(rwSet) : k \in DOMAIN slotLocks[s] => slotLocks[s][k] = id

CanLock(s, tx) ==
  /\ tx.value > 0 => CanDebit(s, tx.from, tx.value)
  /\ CanLockReadSet(s, tx.id, tx.rwSet)

\* A Lock that succeeds takes the funds and the slots, keeps the RwSet for the
\* Finalize, and votes YES.
LockSucceeds(s, tx) ==
  /\ CanLock(s, tx)
  /\ locked' = [locked EXCEPT ![s] =
       IF tx.value > 0 THEN Put(@, tx.id, [addr |-> tx.from, amount |-> tx.value]) ELSE @]
  /\ slotLocks' = [slotLocks EXCEPT ![s] =
       [k \in DOMAIN @ \cup ReadSlots(tx.rwSet) |->
          IF k \in ReadSlots(tx.rwSet) THEN tx.id ELSE @[k]]]
  /\ pendingRwSets' = [pendingRwSets EXCEPT ![s] = Put(@, tx.id, tx.rwSet)]
  /\ prepares' = [prepares EXCEPT ![s] = Put(@, tx.id, TRUE)]
  /\ UNCHANGED <<pendingCredits, pendingCalls>>

\* Mutant of LockFails: funds reserved before the read set failed stay reserved.
LockFailsKeepsFunds(s, tx) ==
  /\ ~CanLock(s, tx)
  /\ locked' = [locked EXCEPT ![s] =
       IF tx.value > 0 /\ CanDebit(s, tx.from, tx.value)
       THEN Put(@, tx.id, [addr |-> tx.from, amount |-> tx.value]) ELSE @]
  /\ prepares' = [prepares EXCEPT ![s] = Put(@, tx.id, FALSE)]
  /\ UNCHANGED <<slotLocks, pendingCredits, pendingCalls, pendingRwSets>>

\* A Lock that fails drops everything held for the transaction and votes NO.
LockFails(s, tx) ==
  /\ ~CanLock(s, tx)
  /\ ClearAllMetadata(s, tx.id)
  /\ prepares' = [prepares EXCEPT ![s] = Put(@, tx.id, FALSE)]

ExecuteLock(s) == LET tx == Head(sortedTxs[s]) IN
  /\ Executes(s, "lock")
  /\ LockSucceeds(s, tx) \/ LockFails(s, tx)
  /\ UNCHANGED accounts

\* isAddressLockedLocked: some slot of the address is locked.
IsAddressLocked(s, addr) == \E k \in DOMAIN slotLocks[s] : k[1] = addr

\* The EVM runs a local transaction: it moves the value and increments the slots
\* that the call writes, in the callee and in the contracts that the callee calls.
ExecuteLocalTx(tx) ==
  /\ balance' = IF tx.from = tx.to THEN balance
                ELSE [balance EXCEPT ![tx.from] = @ - tx.value, ![tx.to] = @ + tx.value]
  /\ storage' = [a \in Addrs |-> [slot \in Slots |->
       IF <<a, slot>> \in tx.writes THEN storage[a][slot] + 1 ELSE storage[a][slot]]]

\* Mutant of LocalTxRuns: without the check of the locks.
LocalTxRunsAnyway(s, tx) == balance[tx.from] >= tx.value

\* checkLocalTxLockConflict finds no locked slot at either address, and the
\* balance covers the value.  It does not look at the contracts of nested calls.
LocalTxRuns(s, tx) ==
  /\ ~IsAddressLocked(s, tx.from)
  /\ ~IsAddressLocked(s, tx.to)
  /\ balance[tx.from] >= tx.value

ExecuteLocal(s) == LET tx == Head(sortedTxs[s]) IN
  /\ Executes(s, "")
  /\ \/ LocalTxRuns(s, tx) /\ ExecuteLocalTx(tx)
     \/ ~LocalTxRuns(s, tx) /\ UNCHANGED accounts
  /\ UNCHANGED <<metadata, prepares>>

ExecuteTx(s) ==
  \/ ExecuteCrossDebit(s) \/ ExecuteCrossCredit(s) \/ ExecuteCrossWriteSet(s)
  \/ ExecuteFinalize(s) \/ ExecuteUnlock(s) \/ ExecuteLock(s)
  \/ ExecuteCrossAbort(s) \/ ExecuteLocal(s)

\* Mutant of FinishBlock: the block ends before all its transactions ran.
FinishBlockEarly(s) ==
  /\ executing[s]
  /\ executing' = [executing EXCEPT ![s] = FALSE]
  /\ prepares' = [prepares EXCEPT ![s] = EmptyMap]
  /\ UNCHANGED <<metadata, accounts, handlerVars, currentTxs, sortedTxs>>

\* The block is complete and its votes leave with it; the mutex is released.
FinishBlock(s) ==
  /\ executing[s] /\ sortedTxs[s] = <<>>
  /\ executing' = [executing EXCEPT ![s] = FALSE]
  /\ prepares' = [prepares EXCEPT ![s] = EmptyMap]
  /\ UNCHANGED <<metadata, accounts, handlerVars, currentTxs, sortedTxs>>
-----------------------------------------------------------------------------
(* Client requests.                                                        *)

\* handleTxSubmit, a transaction between addresses of this shard.  The available
\* balance is checked first (the two reads of the check are one step), ...
CheckLocal(s, tx) ==
  /\ ~executing[s]
  /\ AddressToShard[tx.from] = s /\ AddressToShard[tx.to] = s
  /\ tx.value > 0 => CanDebit(s, tx.from, tx.value)
  /\ UNCHANGED shardVars

\* ... the transaction is queued some time later, and runs in a later block.
QueueLocal(s, tx) ==
  /\ ~executing[s]
  /\ currentTxs' = [currentTxs EXCEPT ![s] = Append(@, tx)]
  /\ UNCHANGED <<metadata, accounts, handlerVars, executing, sortedTxs, prepares>>
=============================================================================
