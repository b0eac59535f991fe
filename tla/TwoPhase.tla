------------------------------ MODULE TwoPhase ------------------------------
(***************************************************************************)
(* The whole cross-shard protocol: the simulator turns a request into a    *)
(* CrossShardTx with the values it read, the orchestrator's chain orders   *)
(* it, the state shards lock, vote, and apply or drop it.                  *)
(*                                                                         *)
(* A shard handles orchestrator blocks in order (BlockBuffer), each after  *)
(* an arbitrary delay.  A shard sends each vote once: a vote that is never *)
(* delivered is a lost one, and a late vote is delivered late.             *)
(***************************************************************************)
EXTENDS OrchestratorChain, StateShard

CONSTANTS
  Requests, \* what clients may ask for: from, to, value, data, and the slots that
            \* the execution reads and increments
  CanFail,  \* transactions whose simulation may fail
  LocalTxs  \* local transactions clients may submit, each once: from, to, value, and
            \* the slots that it increments, those of nested calls included

\* The entries of an RwSet are on the shard of their address.  What a local transaction
\* writes is on the shard of the callee.
ASSUME TwoPhaseAssumption ==
  /\ \A tx \in CrossShardTx :
       /\ tx.from \in Addrs /\ tx.to \in Addrs /\ tx.value \in Nat
       /\ \A rw \in tx.rwSet :
            /\ rw.addr \in Addrs /\ rw.shard = AddressToShard[rw.addr]
            /\ DOMAIN rw.reads \subseteq Slots
            /\ \A slot \in DOMAIN rw.writes : rw.writes[slot] \in Nat
  /\ \A tx \in LocalTxs :
       /\ tx.type = "" /\ tx.from \in Addrs /\ tx.to \in Addrs /\ tx.value \in Nat
       /\ \A k \in tx.writes : AddressToShard[k[1]] = AddressToShard[tx.to]

\* RwSets as BuildRwSet returns them: one entry per address, and every slot that it
\* writes is one that it read (WritesAreRead in SimulationStateDB).  The orchestrator
\* does not enforce this on an RwSet that a client supplies to handleSubmit.
SimulatedRwSets ==
  \A tx \in CrossShardTx : \A rw \in tx.rwSet :
    /\ DOMAIN rw.writes \subseteq DOMAIN rw.reads
    /\ \A other \in tx.rwSet : other.addr = rw.addr => other = rw

VARIABLES
  simulations,  \* map txID -> [request, reads]: the running simulation, and the values
                \* of the slots it has read
  voteNet,      \* votes sent and not delivered
  localChecked, \* local transactions that passed the balance check
  localSent,    \* local transactions queued
  localRan,     \* history: local transactions that took effect
  bypassed      \* history: locked slots that a nested call of a local transaction wrote

localVars == <<localChecked, localSent, localRan, bypassed>>
vars == <<chainVars, shardVars, simulations, voteNet, localVars>>

Init ==
  /\ ChainInit
  /\ ShardInit
  /\ simulations = EmptyMap
  /\ voteNet = {}
  /\ localChecked = {}
  /\ localSent = {}
  /\ localRan = {}
  /\ bypassed = {}
-----------------------------------------------------------------------------
(* The simulator.                                                          *)

\* worker: one simulation at a time.
StartSimulation(id, req) ==
  /\ DOMAIN simulations = {}
  /\ ~Submitted(id)
  /\ simulations' = Put(simulations, id, [request |-> req, reads |-> EmptyMap])
  /\ UNCHANGED <<chainVars, shardVars, voteNet, localVars>>

\* GetState: a slot is fetched from its shard when the execution first needs it,
\* without any lock; the value is kept for the rest of the simulation.  A fetch
\* that fails reads as zero, and is not an error of the simulation.
FetchSlot(id, k) ==
  /\ id \in DOMAIN simulations
  /\ k \in simulations[id].request.reads \ DOMAIN simulations[id].reads
  /\ \E value \in {storage[k[1]][k[2]], 0} :
       simulations' = [simulations EXCEPT ![id].reads = Put(@, k, value)]
  /\ UNCHANGED <<chainVars, shardVars, voteNet, localVars>>

RwVariable(addr, reads, writes) ==
  [addr |-> addr, shard |-> AddressToShard[addr], reads |-> reads, writes |-> writes]

\* Mutant of BuildRwSet: the old value in place of the new one.
BuildRwSetOldValues(req, reads) ==
  LET touched == {k[1] : k \in req.reads} \cup {req.from, req.to}
      slotsOf(keys, a) == {k[2] : k \in {k \in keys : k[1] = a}}
  IN  {RwVariable(a, [slot \in slotsOf(req.reads, a) |-> reads[<<a, slot>>]],
                     [slot \in slotsOf(req.writes, a) |-> reads[<<a, slot>>]]) :
        a \in touched}

\* BuildRwSet: one entry per address that was read, written, or whose balance
\* changed.  The execution increments the slots it writes.
BuildRwSet(req, reads) ==
  LET touched == {k[1] : k \in req.reads}
                   \cup (IF req.value > 0 /\ req.from # req.to THEN {req.from, req.to} ELSE {})
      slotsOf(keys, a) == {k[2] : k \in {k \in keys : k[1] = a}}
  IN  {RwVariable(a, [slot \in slotsOf(req.reads, a) |-> reads[<<a, slot>>]],
                     [slot \in slotsOf(req.writes, a) |-> reads[<<a, slot>>] + 1]) :
        a \in touched}

\* The RwSet of a request before simulation (forwardToOrchestrator): the
\* recipient if it is on another shard or the local simulation failed, else the
\* remote addresses that the local simulation touched.
SubmittedRwSet(addrs) == {RwVariable(a, EmptyMap, EmptyMap) : a \in addrs}
SubmittedAddrs(req) ==
  LET remote == {a \in {k[1] : k \in req.reads} : AddressToShard[a] # AddressToShard[req.from]}
  IN  IF AddressToShard[req.to] = AddressToShard[req.from] /\ remote # {}
      THEN {{req.to}, remote} ELSE {{req.to}}

Tx(id, req, rwSet, simStatus) ==
  [id |-> id, fromShard |-> AddressToShard[req.from], from |-> req.from, to |-> req.to,
   value |-> req.value, data |-> req.data, rwSet |-> rwSet, simStatus |-> simStatus]

\* The transaction goes to the chain; CrossShardTx holds whatever a simulation builds.
Submit(tx) == tx \in CrossShardTx /\ AddTransaction(tx)

\* runSimulation ends well: the transaction goes to the chain with the RwSet.
SimulationSucceeds(id) ==
  /\ id \in DOMAIN simulations
  /\ LET req == simulations[id].request IN
       /\ DOMAIN simulations[id].reads = req.reads
       /\ Submit(Tx(id, req, BuildRwSet(req, simulations[id].reads), "success"))
  /\ simulations' = Del(simulations, id)
  /\ UNCHANGED <<shardVars, voteNet, localVars>>

\* runSimulation fails (revert, out of gas, a fetch error): the error callback
\* passes the transaction to the same chain, with the RwSet it came with.
SimulationFails(id) ==
  /\ id \in DOMAIN simulations \cap CanFail
  /\ LET req == simulations[id].request IN
       \E addrs \in SubmittedAddrs(req) : Submit(Tx(id, req, SubmittedRwSet(addrs), "failed"))
  /\ simulations' = Del(simulations, id)
  /\ UNCHANGED <<shardVars, voteNet, localVars>>
-----------------------------------------------------------------------------
(* The orchestrator.                                                       *)

Produce ==
  /\ ProduceBlock
  /\ UNCHANGED <<shardVars, simulations, voteNet, localVars>>

\* handleStateShardBlock, one vote of a received block.
DeliverVote(b) ==
  /\ RecordVote(b.id, b.shard, b.vote)
  /\ voteNet' = voteNet \ {b}
  /\ UNCHANGED <<shardVars, simulations, localVars>>
-----------------------------------------------------------------------------
(* The shards.                                                             *)

NextBlock(s) == blocks[lastOrchestratorHeight[s] + 1]

\* processOrchestratorBlock goes through the results of the next block in any
\* order, then through its new transactions in order, then ends.
HandleResult(s) ==
  /\ lastOrchestratorHeight[s] < height
  /\ \E id \in DOMAIN NextBlock(s).tpcResult :
       ProcessResult(s, id, NextBlock(s).tpcResult[id])
  /\ UNCHANGED <<chainVars, simulations, voteNet, localVars>>

ResultsDone(s) == DOMAIN NextBlock(s).tpcResult \subseteq processedCommits[s]

HandleOrder(s) ==
  /\ lastOrchestratorHeight[s] < height
  /\ ResultsDone(s)
  /\ ordersDone[s] < Len(NextBlock(s).ctToOrder)
  /\ ProcessOrder(s, NextBlock(s).ctToOrder[ordersDone[s] + 1])
  /\ UNCHANGED <<chainVars, simulations, voteNet, localVars>>

HandlerAtEnd(s) ==
  /\ ~executing[s] /\ adding[s] = <<>>
  /\ lastOrchestratorHeight[s] < height
  /\ ResultsDone(s)
  /\ ordersDone[s] = Len(NextBlock(s).ctToOrder)

HandleEnd(s) ==
  /\ HandlerAtEnd(s)
  /\ EndOrchestratorBlock(s)
  /\ UNCHANGED <<chainVars, simulations, voteNet, localVars>>

HandlerAddsTx(s) ==
  /\ AddTx(s)
  /\ UNCHANGED <<chainVars, simulations, voteNet, localVars>>

BeginShardBlock(s) ==
  /\ StartBlock(s)
  /\ UNCHANGED <<chainVars, simulations, voteNet, localVars>>

\* The locked slots that a local transaction writes in contracts other than the two
\* whose locks are checked.
NestedWrites(s, tx) == {k \in tx.writes \cap DOMAIN slotLocks[s] : k[1] \notin {tx.from, tx.to}}

RunTx(s) ==
  /\ ExecuteTx(s)
  /\ LET tx == Head(sortedTxs[s]) IN
       IF tx.type = "" /\ LocalTxRuns(s, tx)
       THEN /\ localRan' = localRan \cup {tx}
            /\ bypassed' = bypassed \cup NestedWrites(s, tx)
       ELSE UNCHANGED <<localRan, bypassed>>
  /\ UNCHANGED <<chainVars, simulations, voteNet, localChecked, localSent>>

\* The finished block goes to the orchestrator (sendBlockToOrchestratorShard).
EndShardBlock(s) ==
  /\ FinishBlock(s)
  /\ voteNet' = voteNet \cup
       {[id |-> id, shard |-> s, vote |-> prepares[s][id]] : id \in DOMAIN prepares[s]}
  /\ UNCHANGED <<chainVars, simulations, localVars>>

ClientChecksLocal(s, tx) ==
  /\ tx \notin localChecked
  /\ CheckLocal(s, tx)
  /\ localChecked' = localChecked \cup {tx}
  /\ UNCHANGED <<chainVars, simulations, voteNet, localSent, localRan, bypassed>>

ClientQueuesLocal(s, tx) ==
  /\ tx \in localChecked \ localSent
  /\ AddressToShard[tx.from] = s
  /\ QueueLocal(s, tx)
  /\ localSent' = localSent \cup {tx}
  /\ UNCHANGED <<chainVars, simulations, voteNet, localChecked, localRan, bypassed>>

\* The steps of shard s that the rest of the system need not wait for: executing
\* a block, and queueing what the handler took from an orchestrator block.
Busy(s) == executing[s] \/ adding[s] # <<>> \/ HandlerAtEnd(s)

BusyStep(s) ==
  \/ HandlerAddsTx(s) \/ HandleEnd(s)
  \/ RunTx(s) \/ EndShardBlock(s)
  \/ \E tx \in LocalTxs : ClientQueuesLocal(s, tx)
  \/ BeginShardBlock(s)

IdleStep ==
  \/ \E id \in TxIDs : \/ \E req \in Requests : StartSimulation(id, req)
                       \/ SimulationSucceeds(id)
                       \/ SimulationFails(id)
  \/ Produce
  \/ \E b \in voteNet : DeliverVote(b)
  \/ \E s \in Shards :
       \/ HandleResult(s) \/ HandleOrder(s) \/ BeginShardBlock(s)
       \/ \E tx \in LocalTxs : ClientChecksLocal(s, tx) \/ ClientQueuesLocal(s, tx)

\* Votes that RecordVote ignores, since the transaction is decided.
StaleVotes == {b \in voteNet : b.id \notin DOMAIN awaitingVotes}

\* The mutex of a chain hides its half executed blocks, and only the block
\* producer and clients of the same shard see the queue grow: the other steps
\* commute with those of a busy shard, and are taken when no shard is busy.  A
\* simulation reads the accounts without the mutex, at any time.
Next ==
  \/ \E id \in DOMAIN simulations : \E k \in simulations[id].request.reads : FetchSlot(id, k)
  \/ \E s \in Shards : Busy(s) /\ BusyStep(s)
  \/ \E b \in StaleVotes : DeliverVote(b)
  \/ StaleVotes = {} /\ (\A s \in Shards : ~Busy(s)) /\ IdleStep

Spec == Init /\ [][Next]_vars
-----------------------------------------------------------------------------
\* The transactions whose result is commit, published or not.
Committed ==
  {tx \in UNION {{blocks[h].ctToOrder[i] : i \in 1..Len(blocks[h].ctToOrder)} : h \in 1..height} :
     Result(tx.id, TRUE)}

\* What shard s has still to queue or to execute, in order.
Outstanding(s) == sortedTxs[s] \o currentTxs[s] \o adding[s]

\* Shard s has nothing left to do for the transaction.
Settled(s, id) ==
  /\ id \in processedCommits[s]
  /\ \A i \in 1..Len(Outstanding(s)) :
       LET tx == Outstanding(s)[i] IN tx.type # "" => tx.id # id

\* Shard s has still to execute a transaction of this type for id.
Due(s, type, id) ==
  \/ id \notin processedCommits[s]
  \/ \E i \in 1..Len(Outstanding(s)) :
       LET tx == Outstanding(s)[i] IN tx.type = type /\ tx.id = id

\* What the shards and the network hold is of the right shape.
TypeOK ==
  /\ voteNet \subseteq Ballot
  /\ \A s \in Shards :
       /\ \A i \in 1..Len(Outstanding(s)) : Outstanding(s)[i].type \in TxType
       /\ DOMAIN locked[s] \cup DOMAIN pendingCredits[s] \cup DOMAIN pendingCalls[s]
            \cup DOMAIN pendingRwSets[s] \cup processedCommits[s] \subseteq TxIDs
       /\ slotLocks[s] \in [DOMAIN slotLocks[s] -> TxIDs]
       /\ lastOrchestratorHeight[s] \in 0..height
       /\ ~executing[s] => sortedTxs[s] = <<>>
  /\ balance \in [Addrs -> Nat]
  /\ storage \in [Addrs -> [Slots -> Nat]]

\* A YES vote is a promise: until a shard has processed the commit of a
\* transaction that involves it, it holds the transaction's RwSet, a lock on
\* every slot the transaction read there, and the sender's funds.
CommitFindsLocks ==
  \A tx \in Committed : \A s \in InvolvedShards(tx) :
    tx.id \notin processedCommits[s] =>
      /\ tx.id \in DOMAIN pendingRwSets[s]
      /\ pendingRwSets[s][tx.id] = LocalRwSet(s, tx.rwSet)
      /\ \A k \in ReadSlots(LocalRwSet(s, tx.rwSet)) :
           k \in DOMAIN slotLocks[s] /\ slotLocks[s][k] = tx.id
      /\ (s = tx.fromShard /\ tx.value > 0) =>
           tx.id \in DOMAIN locked[s] /\ locked[s][tx.id] = [addr |-> tx.from, amount |-> tx.value]

\* A lock protects what was validated: while a shard holds the RwSet of a
\* transaction, every slot that the transaction read has the value it read, or
\* the value it wrote once its commit is being applied.  The exception is the known
\* limitation of checkLocalTxLockConflict: a slot that a nested call of a local
\* transaction wrote while it was locked.
LockedReadsStable ==
  \A s \in Shards : \A id \in DOMAIN pendingRwSets[s] :
    \A rw \in pendingRwSets[s][id] : \A slot \in DOMAIN rw.reads :
      \/ <<rw.addr, slot>> \in bypassed
      \/ storage[rw.addr][slot] = rw.reads[slot]
      \/ /\ id \in processedCommits[s]
         /\ slot \in DOMAIN rw.writes
         /\ storage[rw.addr][slot] = rw.writes[slot]

\* No update is lost: a slot whose committed writers are all settled holds as
\* many increments as transactions, cross-shard and local, incremented it, also in
\* nested calls.  The exception is again a slot that such a call wrote while it was
\* locked: a Finalize may overwrite it.
NoLostUpdate ==
  \A a \in Addrs : \A slot \in Slots :
    LET s == AddressToShard[a]
        writers == {tx \in Committed : \E rw \in tx.rwSet : rw.addr = a /\ slot \in DOMAIN rw.writes}
    IN  <<a, slot>> \notin bypassed /\ (\A tx \in writers : Settled(s, tx.id)) =>
          storage[a][slot] = Cardinality(writers)
            + Cardinality({tx \in localRan : <<a, slot>> \in tx.writes})

\* A local transaction writes no locked slot, not even in a nested call: docs/V2.md
\* says that it "Fails when it tries to write on locked state variable".
LocalRespectsLocks == bypassed = {}

\* The balance of an address covers the amounts locked for it.
Backed(a) == balance[a] >= LockedAmount(AddressToShard[a], a)

\* Reserved funds are there: Locks that compete for the balance of an address never
\* reserve more than it holds, so the debit of a committed transaction cannot fail.
\* The exception is an address that a local transaction spent from, which does not
\* look at what is reserved.
FundsBacked ==
  \A a \in Addrs : (\A tx \in localRan : tx.from = a => tx.value = 0) => Backed(a)

\* Reserved funds are there, whatever local transactions spend.
FundsStayBacked == \A a \in Addrs : Backed(a)

\* Funds are reserved only by a Lock that succeeded and is not yet settled: a Lock whose
\* read set fails its validation gives back what it had reserved before, and a result
\* drops the reservation no later than the RwSet.  Like ValueConserved, it is about
\* histories in which no local transaction spends reserved funds.
NoStrayReservation == \A s \in Shards : DOMAIN locked[s] \subseteq DOMAIN pendingRwSets[s]

\* Value is neither created nor destroyed: once the debits and credits still due
\* are applied, the balances add up to what they were.  It is about histories in which
\* no local transaction spends reserved funds: a debit that finds too little is dropped
\* while the credit is not.
ValueConserved ==
  LET committed == Committed
      debitDue == {tx \in committed : Due(tx.fromShard, "cross_debit", tx.id)}
      creditDue == {tx \in committed : Due(AddressToShard[tx.to], "cross_credit", tx.id)}
  IN  SumOf(balance) + SumOf([tx \in creditDue |-> tx.value])
      = SumOf(InitBalance) + SumOf([tx \in debitDue |-> tx.value])

\* Nothing is held for a settled transaction: once a shard has executed what the
\* result of a transaction queued, it holds no lock and no data for it.
SettledHoldsNothing ==
  \A s \in Shards : \A id \in processedCommits[s] :
    Settled(s, id) => ~HasData(s, id) /\ \A k \in DOMAIN slotLocks[s] : slotLocks[s][k] # id

\* A failed simulation is only a record: the transaction is never committed.
FailedSimulationNotCommitted == \A tx \in Committed : tx.simStatus # "failed"
-----------------------------------------------------------------------------
\* The accounts as they will be once every shard has applied what is committed:
\* writes that a Finalize has still to apply, and debits and credits still due.
ApplyDue(apply(_, _), acc) ==
  MapThenFoldSet(apply, acc, LAMBDA tx : tx, LAMBDA txs : CHOOSE tx \in txs : TRUE, Committed)

LedgerStorage ==
  ApplyDue(LAMBDA tx, acc : [a \in Addrs |-> [slot \in Slots |->
             LET writes == {rw \in tx.rwSet : /\ rw.addr = a /\ slot \in DOMAIN rw.writes
                                              /\ Due(rw.shard, "finalize", tx.id)}
             IN  IF writes = {} THEN acc[a][slot]
                 ELSE (CHOOSE rw \in writes : TRUE).writes[slot]]],
           storage)

LedgerBalance ==
  ApplyDue(LAMBDA tx, acc : [acc EXCEPT
             ![tx.from] = IF Due(tx.fromShard, "cross_debit", tx.id) THEN @ - tx.value ELSE @,
             ![tx.to] = IF Due(AddressToShard[tx.to], "cross_credit", tx.id)
                        THEN @ + tx.value ELSE @],
           balance)

\* What the ledger keeps of a transaction.
Executed(tx) ==
  [id |-> tx.id, from |-> tx.from, to |-> tx.to, value |-> tx.value,
   writes |-> UNION {{<<rw.addr, slot>> : slot \in DOMAIN rw.writes} : rw \in tx.rwSet}]

Ledger == INSTANCE SerialLedger WITH balance <- LedgerBalance, storage <- LedgerStorage,
                                     executed <- {Executed(tx) : tx \in Committed}

\* The decision to commit executes the transaction on all its shards at once: the
\* values its simulation read, at different times and without locks, are those of
\* the accounts as the transactions committed before it leave them, and applying
\* a result later, shard by shard, changes nothing more.
SerialExecution == Ledger!Spec
=============================================================================
