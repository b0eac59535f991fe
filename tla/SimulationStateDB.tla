-------------------------- MODULE SimulationStateDB --------------------------
(***************************************************************************)
(* The state database of one simulation on the orchestrator                *)
(* (internal/orchestrator/statedb.go): accounts and storage slots that are *)
(* fetched from the shards on first use, the reads and writes that become  *)
(* the RwSet, and the snapshots that nested calls of the EVM go back to.   *)
(* The EVM is external: it opens a call with a snapshot, reads, writes and *)
(* opens further calls, and ends the call or reverts it.                   *)
(*                                                                         *)
(* The shards produce blocks while a simulation runs, so a fetch returns   *)
(* any value, or fails.  A simulation is one goroutine: each operation is  *)
(* one step.  The ghost frames holds what each open call sees, as if every *)
(* call had a state of its own: it is the reference for the snapshots.     *)
(***************************************************************************)
EXTENDS Integers, Sequences

CONSTANTS
  Addrs,       \* addresses
  Contracts,   \* the addresses with code
  Keys,        \* storage keys, pairs of an address and a slot
  Values,      \* values of a slot, with 0
  Balances,    \* balances that a shard may report
  MaxSnapshots \* bound: snapshots on the stack

ASSUME SimulationAssumption ==
  /\ Contracts \subseteq Addrs
  /\ \A k \in Keys : k[1] \in Contracts
  /\ 0 \in Values
  /\ Balances \subseteq Nat
  /\ MaxSnapshots \in Nat

VARIABLES
  accounts,   \* map address -> [balance, original, created]
  reads,      \* map key -> value read
  writes,     \* map key -> new value
  writeOlds,  \* map key -> value before the first write
  snapshots,  \* stack of [accounts, reads, writes]
  fetchErrors,\* HasFetchErrors
  status,     \* "running", "success" or "failed"
  frames,     \* ghost: the open calls, as [revid, written, moved]: see View
  observed,   \* ghost: pairs of a key and a value that a fetch returned
  missed      \* ghost: some fetch has failed

vars == <<accounts, reads, writes, writeOlds, snapshots, fetchErrors, status, frames,
          observed, missed>>

Store(m, k, v) == [x \in DOMAIN m \cup {k} |-> IF x = k THEN v ELSE m[x]]
Nothing == [x \in {} |-> 0]
NoMoves == [a \in Addrs |-> 0]

\* What the innermost call sees: the slots written and the funds moved, by itself, by
\* its callers before they called, and by the calls that returned to any of them.
View ==
  IF frames = <<>> THEN [written |-> Nothing, moved |-> NoMoves]
  ELSE [written |-> frames[Len(frames)].written, moved |-> frames[Len(frames)].moved]

\* Funds moved, after a transfer.
Transferred(moved, from, to, n) ==
  LET paid == [moved EXCEPT ![from] = @ - n] IN [paid EXCEPT ![to] = @ + n]

\* NewSimulationStateDB.
Init ==
  /\ accounts = Nothing
  /\ reads = Nothing /\ writes = Nothing /\ writeOlds = Nothing
  /\ snapshots = <<>>
  /\ fetchErrors = FALSE
  /\ status = "running"
  /\ frames = <<>> /\ observed = {} /\ missed = FALSE
-----------------------------------------------------------------------------
\* getOrFetchAccount, from the accounts accts: what it may return, and what it
\* leaves behind.  An account that cannot be fetched is empty and not kept.
GetOrFetchAccount(accts, a) ==
  IF a \in DOMAIN accts
  THEN {[accts |-> accts, balance |-> accts[a].balance, failed |-> FALSE]}
  ELSE {[accts |-> Store(accts, a, [balance |-> b, original |-> b, created |-> FALSE]),
         balance |-> b, failed |-> FALSE] : b \in Balances}
       \cup {[accts |-> accts, balance |-> 0, failed |-> TRUE]}

\* GetState: own writes, then earlier reads, then the shard.  A slot that cannot be
\* fetched reads as zero.
ReadSlot(k) ==
  IF k \in DOMAIN writes \cup DOMAIN reads
  THEN {[value |-> IF k \in DOMAIN writes THEN writes[k] ELSE reads[k], reads |-> reads,
         accts |-> accounts, failed |-> FALSE, missed |-> FALSE, observed |-> observed]}
  ELSE {[value |-> v, reads |-> Store(reads, k, v),
         accts |-> r.accts, failed |-> r.failed, missed |-> r.failed,
         observed |-> observed \cup {<<k, v>>}] :
           r \in GetOrFetchAccount(accounts, k[1]), v \in Values}
       \cup {[value |-> 0, reads |-> Store(reads, k, 0),
              accts |-> r.accts, failed |-> r.failed, missed |-> TRUE,
              observed |-> observed] : r \in GetOrFetchAccount(accounts, k[1])}

\* What a read leaves behind.
Fetched(r) ==
  /\ accounts' = r.accts
  /\ reads' = r.reads
  /\ fetchErrors' = (fetchErrors \/ r.failed)
  /\ observed' = r.observed
  /\ missed' = (missed \/ r.missed)

\* The EVM executes code: a call is open.
Executing == status = "running" /\ frames # <<>>

GetState(k) ==
  /\ Executing
  /\ \E r \in ReadSlot(k) : Fetched(r)
  /\ UNCHANGED <<writes, writeOlds, snapshots, status, frames>>

\* Mutant of SetState: the slot is written without being read.
SetStateUnread(k, v) ==
  /\ Executing
  /\ writes' = Store(writes, k, v)
  /\ writeOlds' = IF k \in DOMAIN writeOlds THEN writeOlds ELSE Store(writeOlds, k, 0)
  /\ frames' = [frames EXCEPT ![Len(frames)].written = Store(@, k, v)]
  /\ UNCHANGED <<accounts, reads, fetchErrors, observed, missed, snapshots, status>>

\* SetState: the slot is read first, also when it is only written.
SetState(k, v) ==
  /\ Executing
  /\ \E r \in ReadSlot(k) :
       /\ Fetched(r)
       /\ writeOlds' = IF k \in DOMAIN writeOlds THEN writeOlds
                       ELSE Store(writeOlds, k, r.value)
  /\ writes' = Store(writes, k, v)
  /\ frames' = [frames EXCEPT ![Len(frames)].written = Store(@, k, v)]
  /\ UNCHANGED <<snapshots, status>>

\* SubBalance and AddBalance.
AddBalance(accts, a, n) ==
  IF a \in DOMAIN accts THEN [accts EXCEPT ![a].balance = @ + n] ELSE accts

\* Snapshot: a deep copy; the ID of the code is one less.
Snapshot(accts) == Append(snapshots, [accounts |-> accts, reads |-> reads, writes |-> writes])

\* CreateAccount: an empty account, whatever was there.
CreateAccount(accts, a) == Store(accts, a, [balance |-> 0, original |-> 0, created |-> TRUE])

\* Before it transfers, the EVM creates the recipient if Exist is false, that is, if
\* it has neither code nor balance; there are no nonces here.
Recipient(t, to, n) ==
  IF n > 0 /\ to \notin Contracts /\ t.balance = 0 THEN CreateAccount(t.accts, to) ELSE t.accts

\* An account without code can only open the outermost call.
MayCall(from) == status = "running" /\ (frames = <<>> \/ from \in Contracts)

\* The EVM opens a call that transfers n: canTransfer unless n is zero, Snapshot,
\* the recipient, transfer.
Call(from, to, n) ==
  /\ MayCall(from)
  /\ Len(snapshots) < MaxSnapshots
  /\ \E p \in IF n = 0 THEN {[accts |-> accounts, balance |-> 0, failed |-> FALSE]}
              ELSE GetOrFetchAccount(accounts, from) :
       /\ p.balance >= n
       /\ snapshots' = Snapshot(p.accts)
       /\ \E t \in GetOrFetchAccount(p.accts, to) :
          \E f \in GetOrFetchAccount(Recipient(t, to, n), from) :
            /\ accounts' = AddBalance(AddBalance(f.accts, from, -n), to, n)
            /\ fetchErrors' = (fetchErrors \/ p.failed \/ t.failed \/ f.failed)
            /\ missed' = (missed \/ p.failed \/ t.failed \/ f.failed)
  /\ frames' = Append(frames, [revid |-> Len(snapshots) + 1, written |-> View.written,
                               moved |-> Transferred(View.moved, from, to, n)])
  /\ UNCHANGED <<reads, writes, writeOlds, status, observed>>

\* canTransfer is false: the call fails before its snapshot, and so does the
\* simulation if it is the outermost one.
CallWithoutFunds(from, n) ==
  /\ MayCall(from)
  /\ \E f \in GetOrFetchAccount(accounts, from) :
       /\ f.balance < n
       /\ accounts' = f.accts
       /\ fetchErrors' = (fetchErrors \/ f.failed)
       /\ missed' = (missed \/ f.failed)
  /\ status' = IF frames = <<>> THEN "failed" ELSE "running"
  /\ UNCHANGED <<reads, writes, writeOlds, snapshots, frames, observed>>

\* A call ends without an error: its snapshot stays on the stack, and the caller sees
\* what it saw.  After the outermost call, the simulation fails if
\* some fetch error was noted.
Return ==
  /\ Executing
  /\ IF Len(frames) > 1
     THEN /\ frames' = Append(SubSeq(frames, 1, Len(frames) - 2),
                              [frames[Len(frames)] EXCEPT !.revid = frames[Len(frames) - 1].revid])
          /\ UNCHANGED status
     ELSE /\ status' = IF fetchErrors THEN "failed" ELSE "success"
          /\ UNCHANGED frames
  /\ UNCHANGED <<accounts, reads, writes, writeOlds, snapshots, fetchErrors, observed, missed>>

\* Mutants of RevertToSnapshot: the storage stays; one snapshot too many is dropped.
RevertKeepsStorage(revid) ==
  /\ accounts' = snapshots[revid].accounts
  /\ snapshots' = SubSeq(snapshots, 1, revid - 1)
  /\ UNCHANGED <<reads, writes>>

RevertDropsTwo(revid) ==
  /\ accounts' = snapshots[revid].accounts
  /\ reads' = snapshots[revid].reads
  /\ writes' = snapshots[revid].writes
  /\ snapshots' = SubSeq(snapshots, 1, revid - 2)

\* RevertToSnapshot: accounts, reads and writes go back, writeOlds and the fetch
\* errors do not.
RevertToSnapshot(revid) ==
  /\ accounts' = snapshots[revid].accounts
  /\ reads' = snapshots[revid].reads
  /\ writes' = snapshots[revid].writes
  /\ snapshots' = SubSeq(snapshots, 1, revid - 1)

\* A call ends with an error.
Revert ==
  /\ Executing
  /\ RevertToSnapshot(frames[Len(frames)].revid)
  /\ frames' = SubSeq(frames, 1, Len(frames) - 1)
  /\ status' = IF Len(frames) = 1 THEN "failed" ELSE "running"
  /\ UNCHANGED <<writeOlds, fetchErrors, observed, missed>>

\* Mutant of RwAddrs: storage accesses only.
RwAddrsStorage == {k[1] : k \in DOMAIN reads \cup DOMAIN writes}

\* The addresses of the RwSet that BuildRwSet returns.
RwAddrs ==
  {k[1] : k \in DOMAIN reads \cup DOMAIN writes}
    \cup {a \in DOMAIN accounts : accounts[a].balance # accounts[a].original}

Next ==
  \/ \E k \in Keys : GetState(k)
  \/ \E k \in Keys, v \in Values : SetState(k, v)
  \/ \E from, to \in Addrs, n \in {0, 1} : Call(from, to, n)
  \/ \E from \in Addrs : CallWithoutFunds(from, 1)
  \/ Return
  \/ Revert

Spec == Init /\ [][Next]_vars
-----------------------------------------------------------------------------
\* The variables have their types, and the snapshot that an open call would go back
\* to is on the stack.
TypeOK ==
  /\ \A a \in DOMAIN accounts : a \in Addrs /\ accounts[a].balance \in Int
  /\ DOMAIN reads \cup DOMAIN writes \cup DOMAIN writeOlds \subseteq Keys
  /\ \A k \in DOMAIN reads : reads[k] \in Values
  /\ \A i \in 1..Len(frames) : frames[i].revid \in 1..Len(snapshots)
  /\ status \in {"running", "success", "failed"}

\* Snapshots make nested calls transactional: whatever calls return or revert, the
\* write set is exactly what the innermost call sees and, but for accounts that the
\* EVM created and for failed fetches, so are the balance changes.
RevertsAsNested ==
  /\ writes = View.written
  /\ fetchErrors \/
     \A a \in Addrs \ {x \in DOMAIN accounts : accounts[x].created} :
       View.moved[a] = IF a \in DOMAIN accounts
                       THEN accounts[a].balance - accounts[a].original ELSE 0

\* What a simulation writes can be validated: every slot in the write set is in the
\* read set too, with a value that a shard returned, or with the zero of a failed
\* fetch, and never with a value of the simulation itself.
WritesAreRead ==
  /\ DOMAIN writes \subseteq DOMAIN reads
  /\ \A k \in DOMAIN reads : <<k, reads[k]>> \in observed \/ (missed /\ reads[k] = 0)

\* A successful simulation changes no slot and no balance of an address that
\* BuildRwSet leaves out of its RwSet.
RwSetCovers ==
  status = "success" => /\ \A k \in DOMAIN View.written : k[1] \in RwAddrs
                        /\ \A a \in Addrs : View.moved[a] # 0 => a \in RwAddrs

\* All reads are tracked: the read set of a successful simulation holds every value
\* that the execution got from a shard.
AllReadsTracked ==
  status = "success" => \A o \in observed : o[1] \in DOMAIN reads /\ reads[o[1]] = o[2]

\* A simulation that could not fetch some state does not succeed.
FailedFetchFails == status = "success" => ~missed
=============================================================================
