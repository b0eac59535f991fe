--------------------------- MODULE TrackingStateDB ---------------------------
(***************************************************************************)
(* The dry run by which a state shard tells a cross-shard call from a local *)
(* one: SimulateCall and SimulateCallForRwSet (internal/shard/evm.go) run  *)
(* the call on the shard's own StateDB, through a wrapper that records     *)
(* what it touches (internal/shard/tracking_statedb.go), and undo it with  *)
(* a snapshot.  handleTxSubmit (internal/shard/server.go) then rejects,    *)
(* queues or forwards the transaction; handleRwSet returns the RwSet of a  *)
(* sub-call to the orchestrator.  One request is served at a time.         *)
(*                                                                         *)
(* Nothing locks the StateDB: the block producer executes and commits its  *)
(* blocks on the same one, at any time, also while a dry run is at work.   *)
(* The EVM and the StateDB itself are external.                            *)
(***************************************************************************)
EXTENDS Naturals, Sequences

CONSTANTS
  Addrs,        \* addresses
  Contracts,    \* the addresses with code on this shard
  Remote,       \* the addresses of other shards
  Keys,         \* storage keys, pairs of an address and a slot
  Values,       \* values of a slot, with 0
  Balance,      \* map address -> balance at the start
  MaxCalls,     \* bound: snapshots on the stack
  MaxBlocks     \* bound: blocks produced

ASSUME TrackingAssumption ==
  /\ Contracts \subseteq Addrs \ Remote
  /\ Keys \subseteq Contracts \X Nat
  /\ 0 \in Values
  /\ Balance \in [Addrs -> Nat]

VARIABLES
  db,            \* the StateDB: [balance, storage]
  revisions,     \* its snapshots, a stack of such records
  phase,         \* of the request: "idle", "running", "ok", "failed" or "poor"
  request,       \* the request in progress: [kind, from, to, value]
  calls,         \* the open calls, as [addr, revid]
  accessedAddrs, \* set of addresses
  storageReads,  \* map key -> value first read
  storageWrites, \* map key -> value last written
  blocks,        \* number of blocks
  committed,     \* what the last block committed
  answer,        \* the last answer: [kind, addrs, rwSet]
  start,         \* ghost: the StateDB when the dry run began
  visited,       \* ghost: the addresses of all calls of the dry run
  undone,        \* ghost: the keys whose last write was reverted
  made,          \* ghost: the storage when the outermost call ended
  ledger         \* ghost: what the transactions of the blocks alone make

tracking == <<accessedAddrs, storageReads, storageWrites>>
ghosts == <<start, visited, undone, made, ledger>>
vars == <<db, revisions, phase, request, calls, tracking, blocks, committed, answer, ghosts>>

Store(m, k, v) == [x \in DOMAIN m \cup {k} |-> IF x = k THEN v ELSE m[x]]
Nothing == [x \in {} |-> 0]
Answer(kind, addrs, rwSet) == [kind |-> kind, addrs |-> addrs, rwSet |-> rwSet]
Plain(kind) == Answer(kind, {}, Nothing)
InitDB == [balance |-> Balance, storage |-> [k \in Keys |-> 0]]
NoRequest == [kind |-> "", from |-> "", to |-> "", value |-> 0]

Init ==
  /\ db = InitDB /\ revisions = <<>>
  /\ phase = "idle" /\ request = NoRequest /\ calls = <<>>
  /\ accessedAddrs = {} /\ storageReads = Nothing /\ storageWrites = Nothing
  /\ blocks = 0 /\ committed = InitDB /\ answer = Plain("none")
  /\ start = InitDB /\ visited = {} /\ undone = {} /\ made = InitDB.storage
  /\ ledger = InitDB
-----------------------------------------------------------------------------
(* The calls of the EVM on the wrapper.                                    *)

\* The StateDB after a transfer.
Transferred(d, from, to, n) ==
  LET paid == [d.balance EXCEPT ![from] = @ - n]
  IN  [d EXCEPT !.balance = [paid EXCEPT ![to] = @ + n]]

\* A dry run begins: SimulateCall takes its snapshot and a new wrapper, and the EVM
\* opens the outermost call: CanTransfer, Snapshot, Exist, Transfer, GetCode.
SimulateCall(kind, from, to, n) ==
  /\ request' = [kind |-> kind, from |-> from, to |-> to, value |-> n]
  /\ storageReads' = Nothing /\ storageWrites' = Nothing
  /\ start' = db /\ undone' = {} /\ made' = db.storage
  /\ answer' = Plain("none")
  /\ \/ /\ db.balance[from] >= n
        /\ phase' = "running"
        /\ revisions' = <<db, db>>
        /\ db' = Transferred(db, from, to, n)
        /\ calls' = <<[addr |-> to, revid |-> 2]>>
        /\ accessedAddrs' = {from, to}
        /\ visited' = {from, to}
     \/ /\ db.balance[from] < n
        /\ phase' = "poor"
        /\ accessedAddrs' = {from}
        /\ visited' = {from}
        /\ UNCHANGED <<db, revisions, calls>>
  /\ UNCHANGED <<blocks, committed, ledger>>

Running == phase = "running" /\ calls # <<>>
Current == calls[Len(calls)].addr

\* A contract calls an address: of another shard, it has no code here.
Call(to, n) ==
  /\ Running /\ Current \in Contracts
  /\ Len(revisions) < MaxCalls
  /\ \/ /\ db.balance[Current] >= n
        /\ revisions' = Append(revisions, db)
        /\ db' = Transferred(db, Current, to, n)
        /\ calls' = Append(calls, [addr |-> to, revid |-> Len(revisions) + 1])
        /\ accessedAddrs' = accessedAddrs \cup {Current, to}
        /\ visited' = visited \cup {to}
     \/ /\ db.balance[Current] < n
        /\ accessedAddrs' = accessedAddrs \cup {Current}
        /\ UNCHANGED <<revisions, db, calls, visited>>
  /\ UNCHANGED <<phase, request, storageReads, storageWrites, blocks, committed, answer, start, undone, made, ledger>>

\* The value that a slot is first read with.
FirstRead(k) == IF k \in DOMAIN storageReads THEN storageReads
                ELSE Store(storageReads, k, db.storage[k])

GetState(k) ==
  /\ Running /\ Current = k[1]
  /\ accessedAddrs' = accessedAddrs \cup {k[1]}
  /\ storageReads' = FirstRead(k)
  /\ UNCHANGED <<db, revisions, phase, request, calls, storageWrites, blocks, committed, answer, ghosts>>

\* Mutants of SetState: the old value is not recorded; the first write is kept.
SetStateUnread(k, v) ==
  /\ Running /\ Current = k[1]
  /\ accessedAddrs' = accessedAddrs \cup {k[1]}
  /\ storageWrites' = Store(storageWrites, k, v)
  /\ db' = [db EXCEPT !.storage[k] = v]
  /\ undone' = undone \ {k}
  /\ UNCHANGED <<revisions, phase, request, calls, storageReads, blocks, committed, answer,
                 start, visited, made, ledger>>

SetStateOnce(k, v) ==
  /\ Running /\ Current = k[1]
  /\ accessedAddrs' = accessedAddrs \cup {k[1]}
  /\ storageReads' = FirstRead(k)
  /\ storageWrites' = IF k \in DOMAIN storageWrites THEN storageWrites
                      ELSE Store(storageWrites, k, v)
  /\ db' = [db EXCEPT !.storage[k] = v]
  /\ undone' = undone \ {k}
  /\ UNCHANGED <<revisions, phase, request, calls, blocks, committed, answer, start, visited, made, ledger>>

\* SetState: the old value counts as read, the new one is recorded and set.
SetState(k, v) ==
  /\ Running /\ Current = k[1]
  /\ accessedAddrs' = accessedAddrs \cup {k[1]}
  /\ storageReads' = FirstRead(k)
  /\ storageWrites' = Store(storageWrites, k, v)
  /\ db' = [db EXCEPT !.storage[k] = v]
  /\ undone' = undone \ {k}
  /\ UNCHANGED <<revisions, phase, request, calls, blocks, committed, answer, start, visited, made, ledger>>

\* A nested call ends well.
Return ==
  /\ Running /\ Len(calls) > 1
  /\ calls' = SubSeq(calls, 1, Len(calls) - 1)
  /\ UNCHANGED <<db, revisions, phase, request, tracking, blocks, committed, answer, ghosts>>

\* Mutants of RevertToSnapshot: one snapshot too many is dropped; the wrapper forgets
\* the accesses as well.
RevertDropsTwo(revid) ==
  /\ db' = revisions[revid]
  /\ revisions' = SubSeq(revisions, 1, revid - 2)
  /\ UNCHANGED tracking

RevertForgets(revid) ==
  /\ db' = revisions[revid]
  /\ revisions' = SubSeq(revisions, 1, revid - 1)
  /\ accessedAddrs' = {calls[i].addr : i \in 1..Len(calls) - 1}
  /\ UNCHANGED <<storageReads, storageWrites>>

\* RevertToSnapshot: the inner StateDB goes back, what was recorded stays.
RevertToSnapshot(revid) ==
  /\ db' = revisions[revid]
  /\ revisions' = SubSeq(revisions, 1, revid - 1)
  /\ UNCHANGED tracking

\* A nested call ends with an error.
Revert ==
  /\ Running /\ Len(calls) > 1
  /\ LET revid == calls[Len(calls)].revid IN
       /\ RevertToSnapshot(revid)
       /\ undone' = undone \cup {k \in Keys : db.storage[k] # revisions[revid].storage[k]}
  /\ calls' = SubSeq(calls, 1, Len(calls) - 1)
  /\ UNCHANGED <<phase, request, blocks, committed, answer, start, visited, made, ledger>>
-----------------------------------------------------------------------------
(* The requests.                                                            *)

\* CanDebit, with the funds that are locked for the sender.
CanDebit(from, n, locked) == db.balance[from] >= n + locked

\* The end of handleTxSubmit for a local transaction: it is queued, unless its value
\* is more than the sender can be debited.
QueueLocal(from, n, locked) ==
  Plain(IF n > 0 /\ ~CanDebit(from, n, locked) THEN "reject" ELSE "local")

Idle == phase = "idle"

\* A request that is answered without a dry run.
AnswerNow(now, addrs) ==
  /\ answer' = now
  /\ request' = NoRequest
  /\ accessedAddrs' = {} /\ storageReads' = Nothing /\ storageWrites' = Nothing
  /\ start' = db /\ visited' = addrs /\ undone' = {} /\ made' = db.storage
  /\ UNCHANGED <<db, revisions, phase, calls, blocks, committed, ledger>>

\* handleTxSubmit up to the dry run, which only a call with data of a contract on
\* this shard needs.  The gas limit is in range or not.
TxSubmit(from, to, n, data, gasOk, locked) ==
  /\ Idle
  /\ \/ /\ gasOk /\ from \notin Remote /\ to \in Contracts /\ data
        /\ SimulateCall("submit", from, to, n)
     \/ /\ ~(gasOk /\ from \notin Remote /\ to \in Contracts /\ data)
        /\ AnswerNow(IF ~gasOk \/ from \in Remote THEN Plain("reject")
                     ELSE IF to \in Remote THEN Answer("forward", {to}, Nothing)
                     ELSE QueueLocal(from, n, locked), {from, to})

\* handleRwSet up to the dry run: the address must be one of this shard.
RwSet(caller, to, n) ==
  /\ Idle
  /\ \/ to \notin Remote /\ SimulateCall("rwset", caller, to, n)
     \/ to \in Remote /\ AnswerNow(Plain("error"), {})

\* Mutant of EndOfSimulation: only a call that fails is undone.
EndWithoutRevert(ok) ==
  /\ Running /\ Len(calls) = 1
  /\ db' = IF ok THEN db ELSE revisions[1]
  /\ revisions' = <<>> /\ calls' = <<>>
  /\ phase' = IF ok THEN "ok" ELSE "failed"
  /\ made' = db.storage
  /\ UNCHANGED <<request, tracking, blocks, committed, answer, start, visited, undone, ledger>>

\* The outermost call ends, well or not, and SimulateCall goes back to its own
\* snapshot, the first one.
EndOfSimulation(ok) ==
  /\ Running /\ Len(calls) = 1
  /\ db' = revisions[1]
  /\ revisions' = <<>> /\ calls' = <<>>
  /\ phase' = IF ok THEN "ok" ELSE "failed"
  /\ made' = db.storage
  /\ UNCHANGED <<request, tracking, blocks, committed, answer, start, visited, undone, ledger>>

CrossShardAddresses == accessedAddrs \cap Remote

\* BuildRwSet: what was read, and what was written with its old value.
BuildRwSet ==
  [reads |-> storageReads,
   writes |-> [k \in DOMAIN storageWrites |->
                 [old |-> IF k \in DOMAIN storageReads THEN storageReads[k] ELSE 0,
                  new |-> storageWrites[k]]]]

\* The rest of handleTxSubmit: an error about the sender rejects the transaction, any
\* other one forwards it to the orchestrator; else the addresses touched decide.
Route(locked) ==
  /\ request.kind = "submit" /\ phase \in {"ok", "failed", "poor"}
  /\ answer' = IF phase = "poor" THEN Plain("reject")
               ELSE IF phase = "failed" THEN Answer("forward", {request.to}, Nothing)
               ELSE IF CrossShardAddresses # {} THEN Answer("forward", CrossShardAddresses, Nothing)
               ELSE QueueLocal(request.from, request.value, locked)
  /\ phase' = "idle"
  /\ UNCHANGED <<db, revisions, request, calls, tracking, blocks, committed, ghosts>>

\* The rest of handleRwSet.
Reply ==
  /\ request.kind = "rwset" /\ phase \in {"ok", "failed", "poor"}
  /\ answer' = IF phase = "ok" THEN Answer("rwset", {}, BuildRwSet) ELSE Plain("error")
  /\ phase' = "idle"
  /\ UNCHANGED <<db, revisions, request, calls, tracking, blocks, committed, ghosts>>
-----------------------------------------------------------------------------
\* ProduceBlock executes a transaction that writes one slot, and Commit: all of
\* the StateDB is committed, its snapshots are gone, and a new StateDB takes its
\* place.  A dry run in progress goes on with the old one, and its RevertToSnapshot
\* on the new one panics, which ends the request: nothing it still does is seen.
ProduceBlock(k, v) ==
  /\ blocks < MaxBlocks
  /\ blocks' = blocks + 1
  /\ db' = [db EXCEPT !.storage[k] = v]
  /\ committed' = [db EXCEPT !.storage[k] = v]
  /\ ledger' = [ledger EXCEPT !.storage[k] = v]
  /\ revisions' = <<>> /\ calls' = <<>>
  /\ phase' = IF phase = "running" THEN "idle" ELSE phase
  /\ UNCHANGED <<request, tracking, answer, start, visited, undone, made>>

Next ==
  \/ \E from, to \in Addrs, n, locked \in {0, 1}, data, gasOk \in BOOLEAN :
       TxSubmit(from, to, n, data, gasOk, locked)
  \/ \E caller, to \in Addrs, n \in {0, 1} : RwSet(caller, to, n)
  \/ \E to \in Addrs, n \in {0, 1} : Call(to, n)
  \/ \E k \in Keys : GetState(k)
  \/ \E k \in Keys, v \in Values : SetState(k, v)
  \/ Return \/ Revert
  \/ \E ok \in BOOLEAN : EndOfSimulation(ok)
  \/ \E locked \in {0, 1} : Route(locked)
  \/ Reply
  \/ \E k \in Keys, v \in Values : ProduceBlock(k, v)

Spec == Init /\ [][Next]_vars
-----------------------------------------------------------------------------
DB == [balance : [Addrs -> Nat], storage : [Keys -> Values]]

\* The variables have their types, and the snapshot that each open call would go
\* back to is on the stack, above that of SimulateCall.
TypeOK ==
  /\ db \in DB /\ committed \in DB /\ start \in DB /\ ledger \in DB
  /\ \A i \in 1..Len(revisions) : revisions[i] \in DB
  /\ phase \in {"idle", "running", "ok", "failed", "poor"}
  /\ accessedAddrs \subseteq Addrs
  /\ DOMAIN storageReads \subseteq Keys /\ DOMAIN storageWrites \subseteq Keys
  /\ \A i \in 1..Len(calls) : /\ calls[i].revid \in 2..Len(revisions)
                              /\ \A j \in 1..i-1 : calls[j].revid < calls[i].revid

\* A dry run that gets to its end is undone: however its calls nested, returned or
\* were reverted, SimulateCall leaves the StateDB as it found it.
DryRunUndone == [][phase = "running" /\ phase' \in {"ok", "failed"} => db' = start]_vars

\* The read set is what the dry run started from: a slot is recorded with the value
\* it had before the dry run, also if it was written or reverted since, and so is
\* the old value of every slot in the write set of a reply.
ReadsOriginal ==
  /\ \A k \in DOMAIN storageReads : storageReads[k] = start.storage[k]
  /\ answer.kind = "rwset" /\ phase = "idle" /\ request.kind = "rwset" =>
       \A k \in DOMAIN answer.rwSet.writes : answer.rwSet.writes[k].old = start.storage[k]

\* The write set is what the dry run made: a slot whose last write was not reverted
\* is recorded with the value the StateDB holds, and every slot that the dry run
\* changed is in it.
WritesCurrent ==
  phase = "running" =>
    \A k \in Keys : /\ k \in DOMAIN storageWrites \ undone => storageWrites[k] = db.storage[k]
                    /\ db.storage[k] # start.storage[k] => k \in DOMAIN storageWrites

\* A transaction that is queued as local called no address of another shard in its
\* dry run, not even in a call that was reverted.
LocalStaysHome == answer.kind = "local" /\ phase = "idle" => visited \cap Remote = {}

\* A block holds what its transactions made, and nothing else: chain.go says that
\* block production "is atomic".
BlocksHoldTheirTxs == committed = ledger

\* The RwSet of a sub-call is precise: a slot in the write set has its value at the
\* end of the call.
PreciseRwSet ==
  answer.kind = "rwset" /\ phase = "idle" =>
    \A k \in DOMAIN answer.rwSet.writes : answer.rwSet.writes[k].new = made[k]
=============================================================================
