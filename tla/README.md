# Verification of the sharded two-phase commit

TLA+ models of the system in `src/`, checked with TLC on small instances, and
theorems about seven of them that TLAPS proves for every instance.

## The system

An *orchestrator shard* orders cross-shard transactions; *state shards* hold the
accounts. There is no consensus protocol in the code: each shard is one process.

1. A client sends a transaction to a state shard (`handleTxSubmit`), which queues
   it when it is local and forwards it to the orchestrator otherwise.
2. The orchestrator simulates a call (`Simulator`), fetching accounts and slots
   from the shards as the EVM needs them, without locking anything. The values
   read and written are the transaction's `RwSet`.
3. Every few seconds the orchestrator produces a block with new transactions
   (`CtToOrder`) and results (`TpcResult`), and sends it to every shard.
4. A shard turns the block into queued transactions (debit, credit, finalize,
   unlock for a result; lock for a new transaction). Its block producer executes
   the queue in the order of priorities. A Lock validates the values read, takes
   slot and fund locks, and its success is the shard's vote.
5. Votes go back with the shard's block. All YES commits; a NO, or too many blocks
   without all votes, aborts.

## Inventory

| Part | Source | Modules | Status |
|---|---|---|---|
| Orchestrator chain | `orchestrator/chain.go`, `protocol/block.go` | `OrchestratorChain`, `AtomicCommit` | modelled |
| Protocol types | `protocol/types.go` | `Protocol` | partly: no encodings, no copies |
| Orchestrator service | `orchestrator/service.go` | `Service`, `BlockDelivery` | partly: no read-only handlers |
| Simulator | `orchestrator/simulator.go` | `Service`, `TwoPhase`, `SimulationStateDB` | modelled |
| Simulation state database | `orchestrator/statedb.go` | `SimulationStateDB`, `TwoPhase` | partly: no nonces, code, logs, refunds, transient storage |
| State fetcher | `orchestrator/statefetcher.go` | `SimulationStateDB`, `TwoPhase` | partly: no proofs |
| Bytecode store | `orchestrator/bytecode_store.go` | | not modelled: storage of code |
| State shard chain | `shard/chain.go` | `StateShard`, `TwoPhase`, `SerialLedger`, `CrashRecovery` | partly: no failure of `Commit`, no receipts |
| Account state, EVM | `shard/evm.go` | `StateShard`, `TrackingStateDB`, `CrashRecovery` | partly: contract code is abstract in blocks |
| Server, orchestrator blocks | `shard/server.go` | `StateShard`, `BlockDelivery`, `TwoPhase`, `CrashRecovery` | modelled |
| Server, unified endpoint | `shard/server.go` | `TrackingStateDB`, `StateShard`, `TwoPhase` | modelled |
| Server, direct endpoints | `shard/server.go` | | not modelled: legacy, see below |
| Block buffer | `shard/block_buffer.go` | `BlockBuffer`, `BlockDelivery` | modelled |
| Tracking state database | `shard/tracking_statedb.go` | `TrackingStateDB` | partly: no nonces, code, refunds, logs, transient storage |
| JSON-RPC, receipts | `shard/jsonrpc.go`, `shard/receipt.go` | | not modelled: translation, write-once store |
| Network | `network/*.go` | `BlockDelivery` | partly: delay as reordering |
| Configuration, `main`, storage generator, contracts, scripts | | | not modelled |

The paths are relative to `src/internal`. `PROJECT.json` gives the reasons, the
lines that each definition models, and the hazards of the code.

## Modules

**`Protocol`**: involved shards of a transaction, transaction types and
priorities, and maps as Go has them.

**`OrchestratorChain`**: one variable for each field of the struct (`blocks`,
`pendingTxs`, `awaitingVotes`, `votes`, `expectedVoters`, `voteStartBlock`,
`pendingResult`), one action for each method, atomic because each holds the mutex.
Votes come from any shard, with any value, any number of times, or never.
`ballots` is history: the votes that were accepted. Transactions have fresh IDs.

**`AtomicCommit`**: what the chain promises. A transaction is new, open, committed
or aborted; the first vote of a shard counts, a NO aborts, the YES that completes
the agreement commits, and open transactions may be given up. `KeepsPromise` maps
the blocks and decided results of the chain to these outcomes.

**`BlockBuffer`**: `ProcessBlock`, called with any height. `released` is history.

**`BlockDelivery`** composes the buffer with the broadcast to one shard, which is
independent of the others. An attempt is a request that may be refused, time out
at the orchestrator while it is still travelling or being handled, or succeed. A
handler takes blocks from the buffer in one step and processes them in others,
since the mutex of the buffer is released in between. A crash loses everything in
memory; `recoverFromOrchestrator` then replays, and any of its fetches may fail.

**`StateShard`**: the chain and the accounts of every shard. The handler of an
orchestrator block computes what a result or a new transaction queues, and queues
it transaction by transaction (`adding`), so a block can be produced in between.
A shard block starts (the queue is sorted), executes its transactions one at a
time, and finishes (votes are emitted, the queue is cleared). The sort is defined by
how many transactions run before each one, which a stable sort by priority
determines. Contract code is
abstract: a cross-shard call increments the slots it writes, and so does a local
one, so that a lost update shows in the value. What a local transaction writes
includes what its nested calls write, on any contract of its shard, and
`checkLocalTxLockConflict` looks at its sender and its callee only. Value that nested
calls move is left out.

**`TwoPhase`** composes `OrchestratorChain` and `StateShard` with simulations,
which read one slot at a time from any shard, and a network that loses, delays
and reorders votes. Delivery of blocks is in order here; `BlockDelivery` is about
when that is so. The direct path (`handleSubmit` with a transfer) is a transaction
whose RwSet has the recipient only. While a shard executes a block or queues
transactions, only steps that can see it interleave: `ProduceBlock` holds the
chain's mutex throughout, the queue is seen by the same shard only, and a
simulation, which reads accounts without the mutex, may read at any time.
A vote for a decided transaction changes nothing and is delivered at once.
`CrossShardTx` is the set of transactions that a simulation may build, and
`TwoPhaseAssumption` types it. `SimulatedRwSets` says in addition what `BuildRwSet`
guarantees and nothing enforces on an RwSet that a client sends to `handleSubmit`: one
entry per address, and no write without a read (`WritesAreRead` in
`SimulationStateDB`). The MC modules assume it, since their transactions come from
simulations, and so does the one theorem that needs it. `localRan` and `bypassed` are
history: the local transactions that took effect, and the locked slots that a nested
call of one wrote.

**`SerialLedger`**: what the protocol promises to clients, one ledger on which each
committed transaction runs once, at one instant. In `TwoPhase` that instant is the
decision; `LedgerBalance` and `LedgerStorage` are the accounts with the effects of
committed transactions that a shard has still to apply.

**`CrashRecovery`**: `TwoPhase` with shards that crash at any point. A restart finds
the accounts at the root the storage was created with, as `NewEVMState` reads the
same root file each time, and an empty chain; it replays the blocks before its block
producer starts. A shard that has replayed gets no later block, as its buffer
expects block 1 again.

**`TrackingStateDB`**: the dry run by which `handleTxSubmit` tells a local call from
a cross-shard one, and the one that `handleRwSet` makes for a sub-call. The EVM is
external: it opens calls with a snapshot, transfers, reads, writes, returns and
reverts, on the StateDB of the shard through the wrapper that records it. Requests
are served one at a time. A block writes one slot and commits the StateDB; if it
comes in the middle of a dry run, `Commit` replaces the StateDB, and the dry run ends
in a panic when it goes back to its snapshot. Nothing in the code prevents that, so it
may happen in every run and in every theorem. Blocks are one step here: a dry run that
begins in the middle of one is not modelled. `start`, `visited`, `undone`, `made` and
`ledger` are history.

**`Service`** composes `OrchestratorChain` with the handlers of requests and
votes, the simulator's queue and worker, the statuses, and `Close`. Each handler
is split where the code releases a mutex.

**`SimulationStateDB`**: one simulation. The EVM is external: it opens calls with
a snapshot, reads, writes, moves balances, creates accounts, returns and reverts.
Any fetch may fail. The `frames` are the reference: what the execution has written
and moved by the start of each open call, to which a revert must return.

`MC*` modules give the constants their values. Operators named as mutants are
plausible mistakes in the definition that follows them; no specification uses them.

## Runs

Passing:

| Run | Instance | What it shows |
|---|---|---|
| `orchestrator_chain` | 2 transactions, 3 shards, timeout 2, 6 blocks | a transaction is decided once, committed only with a YES of each involved shard, aborted only for a reason, never overdue; all maps stay in step; every transaction is decided; the chain implements `AtomicCommit` |
| `block_delivery` | 4 blocks, room for 2, 1 retry, 1 timeout, 1 crash | the buffer releases blocks in order, once, as soon as possible and within its limit; no block is applied twice; without timeouts and crashes they are applied in order, also when some are given up; with none given up, all are applied |
| `two_phase` | 2 calls from one sender, that compete for slots on 2 shards or for the sender's balance, timeout 0 | a YES vote is kept until the commit is processed; Locks never reserve more than there is, and only while they hold their RwSet; value is conserved; the shards together implement `SerialLedger` |
| `two_phase_local` | 1 call whose simulation may fail, a local increment, the same increment in a nested call | locked reads are stable and no update is lost, against local transactions, but for slots that a nested call wrote while they were locked |
| `service` | 2 requests out of a submitted transaction and 2 calls, queue of 1 | statuses tell what the chain did; a client can ask for what the chain has; a refused call is never ordered, a queued one is decided unless the service closes |
| `simulation_statedb` | 2 addresses, 1 slot, 3 snapshots | reverts undo exactly the reverted calls; writes have a validated read; the RwSet names every address whose storage or balance changed |
| `tracking_statedb` | a sender, a contract with a slot, a remote address, 5 snapshots, 2 blocks at any time | a dry run that reaches its end leaves the StateDB as it found it; reads are recorded as of its start, writes as they stand unless reverted; a transaction queued as local called no other shard |

Violated, each a disagreement of the code with a comment or a document, quoted in
the findings of `PROJECT.json`:

| Run | Property | What happens |
|---|---|---|
| `leaked_locks` | `SettledHoldsNothing` | the Unlock of an aborted transaction runs before its queued Lock; the locks stay for ever |
| `failed_simulation` | `FailedSimulationNotCommitted` | a failed simulation goes through two-phase commit and commits |
| `block_delivery_order` | `AppliedInOrder` | handlers overtake each other after the buffer; a block is skipped |
| `replay_after_crash` | `ValueConserved` | the sender's shard restarts after a commit: the replay finds no executed Lock, so nothing is debited, while the recipient is credited |
| `dry_run_race` | `BlocksHoldTheirTxs` | a block produced during a dry run commits what the dry run wrote |

More properties are stated in the modules without a run of their own; TLC finds
each violated when it is put in the cfg named here (the first five cfgs have it):

| Property | cfg | What happens |
|---|---|---|
| `FundsStayBacked` | `MCReservedFunds.cfg` | a local transfer spends reserved funds |
| `LocalRespectsLocks` | `MCNestedCall.cfg` | a nested call of a local transaction writes a locked slot, the known limitation that `chain.go` documents and `docs/V2.md` does not |
| `BufferFollowsChain` | `BlockDeliveryResume.cfg` | after recovery the buffer still expects block 1 |
| `AllReadsTracked` | `MCSimulationReads.cfg` | the reads of a reverted call are not in the RwSet of a simulation |
| `PreciseRwSet` | `MCPreciseRwSet.cfg` | the writes of a reverted call are in the RwSet of a sub-call |
| `NoBlockMissing` | `BlockDeliveryResume.cfg` | recovery skips a block it cannot fetch, for good |
| `FinalStatusStays` (a `PROPERTY`) | `MCService.cfg` | a late handler sets a committed transaction back to prepared |
| `NoSendOnClosedQueue` | `MCService.cfg` | a call is sent to the closed queue; the panic loses the request |
| `FailedFetchFails` | `MCSimulationReads.cfg` | a failed storage fetch reads as zero in a simulation that succeeds |

`FundsBacked` leaves out addresses that a local transaction spent from, which is what
`FundsStayBacked` does not. `NoStrayReservation`, `ValueConserved` and
`SerialExecution` are checked without local transactions for the same reason: a debit
that finds too little is dropped, and its reservation kept, while the credit is not.

### Bounds

Two transactions are enough to compete for a slot, a balance, or a place in the
queue, and two shards for a vote to be missing; the chain has three shards, so that
one of them is not involved. In `two_phase` the sender has two coins. Two small calls,
of one coin each, both fit and read and increment a slot on each shard, so that a Lock
on the sender's shard may reserve the funds, find the slot changed or locked, and give
the funds back. A large call, of two coins, does not fit with another, so that
`CanDebit` refuses it while the other's funds are reserved or spent. It uses no slot
and is made after the other was submitted (`LargeLast`), which keeps the run short:
the large call is the one that is refused, never the small one. `MaxHeight` leaves every transaction time to be
ordered, to time out and to have its result processed: clients stop when there is
no room for that. The timeout of 0 in `two_phase` makes results arrive while Locks
are queued and votes travel; with it, a block is empty only when no transaction
waits, and `NoEmptyBlock` leaves these blocks out. The timeout of 1 in `two_phase_local` lets slow votes
count. In `service` the chain has one shard, since counting votes is the subject of
`orchestrator_chain`, and `MaxRequests` lets two of three requests meet.
One timeout and one crash of each kind suffice for the races above; the buffer is
smaller than the number of blocks, so it overflows. Three snapshots allow a call
within a call within the outermost one; `tracking_statedb` has two more, as
`SimulateCall` takes one of its own, and its contract calls itself, so that two open
calls write the same slot. One transaction and one crash are enough for
`replay_after_crash`. Transaction IDs are symmetric in
`two_phase`: both may make any request and the properties do not name them.

Where `CHECK_DEADLOCK` is off the system may stop: all transactions are decided and
the bound on the height is reached, or the simulation has ended.

### Fairness

Block producers are driven by a ticker and goroutines that can run do run: weak
fairness for producing blocks, for the worker, for handlers that have begun. No
fairness is assumed of votes, clients, fetches or timeouts. In `Service` the
producer is fair until `Close`, as `blockProducer` may then return.

## Proofs

`OrchestratorChainProofs` (any shards, transactions, timeout and height; assumes
`ChainAssumption`: both bounds are naturals, and involved shards are shards):

- `ChainTypeCorrect`, `BookkeepingStaysInStep`, `TxDecidedOnce`,
  `CommitIsUnanimous`, `NoTxOverdue`: the invariants of the run.

They are not inductive alone. That a transaction commits with a YES from every
shard needs the link between the accepted votes and the `votes` map while the
transaction waits, and the same fact for results that are decided and not yet
published; that it is decided once needs that a transaction is in exactly one
place on its way (pending, awaiting, decided, published) and was ordered once. The
inductive invariant states these, and each action is shown to keep each conjunct.

The same module shows what the chain promises:

- `ChainKeepsPromise`: the chain implements `AtomicCommit`. Each action is shown to be
  one of its steps or a stutter: an accepted vote is `Vote`, `ProduceBlock` is `Order`
  with the transactions that time out as `late`. The mapping needs two facts more:
  an ordered transaction awaits votes or has a result (`Located`), and `ballots` and
  `votes` agree while it is open (`BallotsKept`).
- `AbortsAreJustified`: the reason is there from the decision on (`AbortsPending`).

`TrackingStateDBProofs` (any addresses, keys, values, balances, depth of calls and
number of blocks, produced at any time; assumes `TrackingAssumption`):

- `DryRunTypeCorrect`, `DryRunReadsOriginal`, `DryRunWritesCurrent`,
  `LocalTxsStayHome`: the invariants of the run.
- `DryRunIsUndone`: its action property.

The inductive invariant adds that the snapshots of open calls are on the stack in
the order of the calls (`Nested`), that the first one is the state the dry run started
from, that the StateDB and every snapshot differ from the start only in slots recorded
as written (`Undoable`), without which a revert could leave an unrecorded change, that
written slots are read ones (`Recorded`), and that a dry run at work has no answer yet
(`Unanswered`), so that one that a block interrupts never gives one.

`BlockDeliveryProofs`, on the buffer alone (any height and buffer size; assumes
`BufferAssumption`):

- `BufferTypeCorrect`, `BufferReleasesInOrder`, `BufferHoldsNothingReady`. The
  invariant adds that the buffer is finite. The drain loop ends at the least height
  that is not buffered, which exists because the order on naturals is well founded.

`BlockDeliveryProofs`, on the delivery (any number of blocks, size of the buffer, retries, timeouts
and crashes; assumes `BufferAssumption` and `DeliveryAssumption`: bounds are naturals):

- `DeliveryTypeCorrect`, `BlocksAppliedOnce`, `BlocksInOrderWithoutTimeouts`, and
  `BufferKeepsOrder`, the two properties of the buffer inside the composition.

`lastOrchestratorHeight` can fall when two handlers are at work, so it does not say
what has been applied. `DeliveryInv` is about the heights that may still come up:
no two handlers hold the same (`Queues`), and one of them that has been applied, by
the recovery, is not above any value that `lastOrchestratorHeight` is about to get
(`Guarded`), so the check at the start of `processOrchestratorBlock` skips it. That
blocks are in order without timeouts needs that there is then one request at a time,
and that its handler continues where the last one ended (`OneAtATime`).

`ServiceProofs` (any transactions, calls, length of the queue; assumes
`ServiceAssumption`: bounds are naturals and every ID is that of some transaction; and
`ChainAssumption`):

- `ServiceTypeCorrect`, `StatusIsTruthful`, `TxsAreKnown`, `RefusedCallsNotOrdered`.

`ServiceInv` extends `ChainInv` by what each handler knows between two critical
sections: what the producer is about to announce has been published, the vote that a
handler is about to mark was accepted (`Announced`), a submitted transaction was put
in the map before it went to the chain (`Known`), and the queue, the worker and the
refused calls do not overlap (`Apart`).

`SimulationStateDBProofs` (any addresses, slots, values, depth of calls and failing
fetches; assumes `SimulationAssumption`: storage belongs to contracts, and 0 is a
value):

- `SimulationTypeCorrect`, `CallsAreNested`, `WritesAreAlwaysRead`,
  `RwSetCoversEffects`.

`RevertsAsNested` says nothing of the snapshots that a later revert goes back to.
`SimInv` adds that the snapshot of every open call holds what its caller saw
(`Faithful`), that these snapshots are in the order of the calls (`Nested`), and that
the reads in each of them are grounded in what a shard returned (`Sound`).

`TwoPhaseHandlerProofs`, `TwoPhaseExecutionProofs` and `TwoPhaseProofs`, of which each
extends the one before (any shards, addresses, slots, transactions, requests, timeout
and height; assumes `ChainAssumption`, `ShardAssumption` and `TwoPhaseAssumption`):

- `SortRearranges`: the sort of a block permutes the queue and is stable.
- `TwoPhaseTypeCorrect`: types; a debit and a local transfer leave no negative balance.
- `CommitsFindTheirLocks`: a YES vote is kept until the commit is processed.
- `LocksProtectReads`: what was locked is not changed by anyone else, if RwSets are as
  `BuildRwSet` returns them (`SimulatedRwSets`), and except for nested calls of local
  transactions. Without the first condition a write set could write a slot that its
  transaction never locked.

`CommitFindsLocks` is about blocks, votes on their way, and the tables of every shard
at once, and is far from inductive. `TwoPhaseInv` says, of each shard: a transaction
has at most one Lock queued, never together with its write set, and the write set is
before what drops the locks (`Queues`; the sort keeps this because of the priorities);
a queued Lock was ordered here and has no vote yet, and a queued effect belongs to a
processed result (`Entries`); every RwSet that is kept has its slots locked by its
transaction (`Locks`); and whoever voted YES still holds RwSet and funds until the
result is processed (`Promises`), whether the vote is in the block being built, on its
way, or delivered. With `CommitUnanimous` of the chain, a commit then finds all that
was promised. Each action of a shard is shown to keep the invariant of that shard and
leave the others alone; `Produce` must not order a transaction that a shard has
handled before, which is `UniqueIDs` of the chain. `LockedReadsStable` is inductive
together with this: a write set touches only slots that its transaction has locked,
since writes are reads, and a slot has one lock.

Only model-checked:

- Liveness (`EveryTxDecided`, `EveryBlockApplied`, `QueuedCallDecided`): fairness is
  out of the prover's reach.
- `FundsBacked`, `ValueConserved` and `SerialExecution`: they are about sums over sets
  of locks, accounts and transactions, and what a sum over a set is needs induction
  over the set.
- `NoStrayReservation`: it would need `FundsBacked`, for a debit that fails keeps its
  reservation.
- `NoLostUpdate`: it counts committed and local increments.
- `CrashRecovery`, whose run shows a disagreement, and the other violated properties.

## Not modelled

- The failure of `Commit` in `ProduceBlock`: it needs an I/O error of the database,
  and what the StateDB holds after one is up to the library.
- The direct endpoints (`/transfer`, `/cross-shard/transfer`, prepare, commit, abort,
  credit, faucet, deploy): the legacy interface, which orchestrator blocks do not use.
- A restart of the orchestrator: the code has no recovery to state a property of.
- Several dry runs at a time on one StateDB. The results about `TrackingStateDB` do not
  cover them: going back to the earlier snapshot drops the later one.
- Contract code in blocks, beyond the slots that a transaction increments; in particular
  value that nested calls move.
- Bytecode store, JSON-RPC, receipts, Merkle proofs, configuration, `main`, the
  storage generator, contracts and scripts: storage, translation and I/O.

Left to prove: `NoLostUpdate` of `TwoPhase`, from `LockedReadsStable` and the fact that
a write is the value read plus one, for requests that write what they read.
