------------------------ MODULE TrackingStateDBProofs ------------------------
(***************************************************************************)
(* Proofs that a dry run on the StateDB of a shard is undone and that what *)
(* it records is right, for every number of nested calls and whenever      *)
(* blocks are produced.                                                    *)
(***************************************************************************)
EXTENDS TrackingStateDB, TLAPS

\* The types, of the sequences as well.
Types ==
  /\ db \in DB /\ committed \in DB /\ start \in DB /\ ledger \in DB
  /\ revisions \in Seq(DB)
  /\ calls \in Seq([addr : Addrs, revid : Nat])
  /\ phase \in {"idle", "running", "ok", "failed", "poor"}
  /\ accessedAddrs \subseteq Addrs
  /\ DOMAIN storageReads \subseteq Keys /\ DOMAIN storageWrites \subseteq Keys

\* The snapshots of the open calls are on the stack in the order of the calls, and
\* the first one, of SimulateCall, belongs to none.
Nested ==
  /\ \A i \in 1..Len(calls) : calls[i].revid \in 2..Len(revisions)
  /\ \A i, j \in 1..Len(calls) : j < i => calls[j].revid < calls[i].revid

\* While a dry run is at work its first snapshot is the state it started from, and
\* the StateDB and every snapshot differ from that only in slots that were recorded
\* as written.
Undoable ==
  phase = "running" =>
    /\ Len(revisions) > 0 /\ revisions[1] = start
    /\ \A k \in Keys \ DOMAIN storageWrites :
         /\ db.storage[k] = start.storage[k]
         /\ \A i \in 1..Len(revisions) : revisions[i].storage[k] = start.storage[k]

\* What is recorded.
Recorded ==
  /\ \A k \in DOMAIN storageReads : storageReads[k] = start.storage[k]
  /\ DOMAIN storageWrites \subseteq DOMAIN storageReads
  /\ phase \in {"running", "ok"} => visited \subseteq accessedAddrs
  /\ phase = "running" =>
       \A k \in DOMAIN storageWrites \ undone : storageWrites[k] = db.storage[k]

\* A request that is being served has no answer yet.
Unanswered == phase # "idle" => answer.kind = "none"

DryRunInv ==
  /\ Types /\ Nested /\ Undoable /\ Recorded /\ Unanswered
  /\ ReadsOriginal /\ LocalStaysHome
-----------------------------------------------------------------------------
\* A transfer that the balance covers (CanTransfer, Transfer) leaves a StateDB, and
\* no slot changed.
LEMMA TransferOK ==
  ASSUME NEW d \in DB, NEW from \in Addrs, NEW to \in Addrs, NEW n \in {0, 1},
         d.balance[from] >= n
  PROVE  /\ Transferred(d, from, to, n) \in DB
         /\ Transferred(d, from, to, n).storage = d.storage
PROOF
<1> DEFINE c == [d.balance EXCEPT ![from] = @ - n]
           e == [c EXCEPT ![to] = @ + n]
<1>1. d.balance \in [Addrs -> Nat] /\ d.storage \in [Keys -> Values]
  BY DEF DB
<1>2. c \in [Addrs -> Nat]
  BY <1>1
<1>3. e \in [Addrs -> Nat]
  BY <1>2
<1>4. Transferred(d, from, to, n) = [d EXCEPT !.balance = e]
  BY DEF Transferred
<1> HIDE DEF e
<1> QED BY <1>1, <1>3, <1>4 DEF DB

\* Writing a slot (SetState) leaves a StateDB with that slot changed.
LEMMA SlotSet ==
  ASSUME NEW d \in DB, NEW k \in Keys, NEW v \in Values
  PROVE  /\ [d EXCEPT !.storage[k] = v] \in DB
         /\ [d EXCEPT !.storage[k] = v].storage[k] = v
         /\ \A x \in Keys : x # k => [d EXCEPT !.storage[k] = v].storage[x] = d.storage[x]
BY DEF DB

\* The state of a new shard satisfies the invariant.
LEMMA InitDryRun == Init => DryRunInv
PROOF
<1> SUFFICES ASSUME Init PROVE DryRunInv
  OBVIOUS
<1>1. InitDB \in DB
  BY TrackingAssumption DEF InitDB, DB
<1>2. Types
  BY <1>1 DEF Init, Types, Nothing
<1>3. Nested /\ Undoable /\ Recorded /\ Unanswered
  BY DEF Init, Nested, Undoable, Recorded, Nothing, Unanswered
<1>4. ReadsOriginal /\ LocalStaysHome
  BY DEF Init, ReadsOriginal, LocalStaysHome,
         Nothing, Plain, Answer
<1> QED BY <1>2, <1>3, <1>4 DEF DryRunInv

\* The beginning of a dry run (SimulateCall, up to the outermost call).
LEMMA BeginStep ==
  ASSUME DryRunInv, NEW kind, NEW from \in Addrs, NEW to \in Addrs, NEW n \in {0, 1},
         Idle, SimulateCall(kind, from, to, n)
  PROVE  DryRunInv'
PROOF
<1> USE DEF DryRunInv, Idle
<1>0. /\ db \in DB /\ start' = db /\ ledger' = ledger /\ committed' = committed
      /\ storageReads' = Nothing /\ storageWrites' = Nothing /\ answer' = Plain("none")
  BY DEF SimulateCall, Types
<1>1. DOMAIN Nothing = {}
  BY DEF Nothing
<1>2. ReadsOriginal' /\ LocalStaysHome' /\ Unanswered'
  BY <1>0, <1>1 DEF ReadsOriginal, LocalStaysHome, Unanswered, Plain, Answer
<1>3. CASE db.balance[from] >= n
  <2>1. /\ phase' = "running" /\ revisions' = <<db, db>>
        /\ db' = Transferred(db, from, to, n)
        /\ calls' = <<[addr |-> to, revid |-> 2]>>
        /\ accessedAddrs' = {from, to} /\ visited' = {from, to}
    BY <1>0, <1>3 DEF SimulateCall, DB
  <2>2. db' \in DB /\ db'.storage = db.storage
    BY <1>0, <1>3, <2>1, TransferOK
  <2>3. Types'
    BY <1>0, <1>1, <2>1, <2>2 DEF Types
  <2>4. Nested'
    BY <2>1 DEF Nested
  <2>5. Undoable'
    BY <1>0, <2>1, <2>2 DEF Undoable
  <2>6. Recorded'
    BY <1>0, <1>1, <2>1 DEF Recorded
  <2> QED BY <1>2, <2>3, <2>4, <2>5, <2>6
<1>4. CASE ~(db.balance[from] >= n)
  <2>1. /\ phase' = "poor" /\ db' = db /\ revisions' = revisions /\ calls' = calls
        /\ accessedAddrs' = {from}
    BY <1>4 DEF SimulateCall
  <2>2. Types'
    BY <1>0, <1>1, <2>1 DEF Types
  <2>3. Nested' /\ Undoable'
    BY <1>0, <2>1 DEF Nested, Undoable
  <2>4. Recorded'
    BY <1>0, <1>1, <2>1 DEF Recorded
  <2> QED BY <1>2, <2>2, <2>3, <2>4
<1> QED BY <1>3, <1>4

\* An answer without a dry run.
LEMMA AnswerNowStep ==
  ASSUME DryRunInv, Idle, NEW now, NEW addrs, AnswerNow(now, addrs),
         now.kind # "rwset", now.kind = "local" => addrs \cap Remote = {}
  PROVE  DryRunInv'
PROOF
<1> USE DEF DryRunInv, Idle
<1>1. DOMAIN Nothing = {}
  BY DEF Nothing
<1>2. Types'
  BY <1>1 DEF AnswerNow, Types
<1>3. Nested' /\ Undoable' /\ Recorded' /\ Unanswered'
  BY <1>1 DEF AnswerNow, Nested, Undoable, Recorded, Unanswered
<1>4. ReadsOriginal' /\ LocalStaysHome'
  BY <1>1 DEF AnswerNow, ReadsOriginal, LocalStaysHome
<1> QED BY <1>2, <1>3, <1>4

\* handleTxSubmit up to the dry run.
LEMMA TxSubmitStep ==
  ASSUME DryRunInv, NEW from \in Addrs, NEW to \in Addrs, NEW n \in {0, 1},
         NEW data, NEW gasOk, NEW locked, TxSubmit(from, to, n, data, gasOk, locked)
  PROVE  DryRunInv'
PROOF
<1>1. CASE SimulateCall("submit", from, to, n)
  BY <1>1, BeginStep DEF TxSubmit
<1>2. CASE ~SimulateCall("submit", from, to, n)
  <2> DEFINE now == IF ~gasOk \/ from \in Remote THEN Plain("reject")
                    ELSE IF to \in Remote THEN Answer("forward", {to}, Nothing)
                    ELSE QueueLocal(from, n, locked)
  <2>1. Idle /\ AnswerNow(now, {from, to})
    BY <1>2, Zenon DEF TxSubmit
  <2>2. now.kind # "rwset" /\ (now.kind = "local" => {from, to} \cap Remote = {})
    BY DEF Plain, Answer, QueueLocal
  <2> HIDE DEF now
  <2> QED BY <2>1, <2>2, AnswerNowStep
<1> QED BY <1>1, <1>2

\* handleRwSet up to the dry run.
LEMMA RwSetStep ==
  ASSUME DryRunInv, NEW caller \in Addrs, NEW to \in Addrs, NEW n \in {0, 1},
         RwSet(caller, to, n)
  PROVE  DryRunInv'
PROOF
<1>1. CASE SimulateCall("rwset", caller, to, n)
  BY <1>1, BeginStep DEF RwSet
<1>2. CASE AnswerNow(Plain("error"), {})
  <2>1. Plain("error").kind = "error"
    BY DEF Plain, Answer
  <2> QED BY <1>2, <2>1, AnswerNowStep DEF RwSet
<1> QED BY <1>1, <1>2 DEF RwSet
-----------------------------------------------------------------------------
(* The steps of a dry run at work.                                         *)

\* What Running says of the calls.
LEMMA RunningCalls ==
  ASSUME DryRunInv, Running
  PROVE  /\ phase = "running" /\ Len(calls) \in Nat \ {0}
         /\ calls[Len(calls)] \in [addr : Addrs, revid : Nat]
         /\ Len(revisions) \in Nat \ {0}
PROOF
<1> DEFINE T == [addr : Addrs, revid : Nat]
<1>1. phase = "running" /\ calls # <<>> /\ calls \in Seq(T)
  BY DEF DryRunInv, Running, Types
<1> HIDE DEF T
<1>2. Len(calls) \in Nat \ {0} /\ calls[Len(calls)] \in T
  BY <1>1
<1>3. revisions \in Seq(DB) /\ Len(revisions) > 0
  BY <1>1 DEF DryRunInv, Types, Undoable
<1> QED BY <1>1, <1>2, <1>3 DEF T

\* A step of the dry run itself gives no answer.
LEMMA RunningStep ==
  ASSUME DryRunInv, phase = "running", phase' = "running", answer' = answer
  PROVE  LocalStaysHome' /\ Unanswered'
BY DEF DryRunInv, LocalStaysHome, Unanswered

\* A nested call: its snapshot is on top, and its transfer changes no slot.
LEMMA CallStep ==
  ASSUME DryRunInv, NEW to \in Addrs, NEW n \in {0, 1}, Call(to, n)
  PROVE  DryRunInv'
PROOF
<1> USE DEF DryRunInv
<1>1. /\ Running /\ phase' = phase /\ storageReads' = storageReads
      /\ storageWrites' = storageWrites /\ start' = start /\ undone' = undone
      /\ ledger' = ledger /\ committed' = committed /\ answer' = answer /\ Current \in Contracts
  BY DEF Call
<1>2. phase = "running" /\ Len(calls) \in Nat \ {0} /\ Len(revisions) \in Nat \ {0}
  BY <1>1, RunningCalls
<1>3. LocalStaysHome' /\ Unanswered'
  BY <1>1, <1>2, RunningStep
<1>4. ReadsOriginal'
  BY <1>1, <1>2 DEF ReadsOriginal
<1>5. Current \in Addrs
  BY <1>1, TrackingAssumption
<1>6. CASE db.balance[Current] >= n
  <2> DEFINE call == [addr |-> to, revid |-> Len(revisions) + 1]
  <2>1. /\ revisions' = Append(revisions, db)
        /\ db' = Transferred(db, Current, to, n)
        /\ calls' = Append(calls, call)
        /\ accessedAddrs' = accessedAddrs \cup {Current, to}
        /\ visited' = visited \cup {to}
    <3>1. db.balance[Current] \in Nat
      BY <1>5 DEF Types, DB
    <3>2. ~(db.balance[Current] < n)
      BY <1>6, <3>1
    <3> QED BY <3>2 DEF Call
  <2>2. db \in DB /\ revisions \in Seq(DB) /\ calls \in Seq([addr : Addrs, revid : Nat])
    BY DEF Types
  <2>3. db' \in DB /\ db'.storage = db.storage
    BY <1>5, <1>6, <2>1, <2>2, TransferOK
  <2>4. call \in [addr : Addrs, revid : Nat]
    BY <1>2
  <2>5. /\ Len(calls') = Len(calls) + 1 /\ calls'[Len(calls) + 1] = call
        /\ \A i \in 1..Len(calls) : calls'[i] = calls[i]
        /\ calls' \in Seq([addr : Addrs, revid : Nat])
    <3> HIDE DEF call
    <3> QED BY <2>1, <2>2, <2>4
  <2>6. /\ Len(revisions') = Len(revisions) + 1 /\ revisions'[Len(revisions) + 1] = db
        /\ \A i \in 1..Len(revisions) : revisions'[i] = revisions[i]
        /\ revisions' \in Seq(DB)
    BY <2>1, <2>2
  <2>7. Types'
    BY <1>1, <1>5, <2>1, <2>3, <2>5, <2>6 DEF Types
  <2>8. call.revid = Len(revisions) + 1
    OBVIOUS
  <2>9. Nested'
    <3> HIDE DEF call
    <3>1. ASSUME NEW i \in 1..Len(calls') PROVE calls'[i].revid \in 2..Len(revisions')
      <4>1. CASE i \in 1..Len(calls)
        <5>1. calls'[i] = calls[i] /\ calls[i].revid \in 2..Len(revisions)
          BY <2>5, <4>1 DEF Nested
        <5> QED BY <1>2, <2>6, <5>1
      <4>2. CASE i = Len(calls) + 1
        BY <1>2, <2>5, <2>6, <2>8, <4>2
      <4> QED BY <1>2, <2>5, <4>1, <4>2
    <3>2. ASSUME NEW i \in 1..Len(calls'), NEW j \in 1..Len(calls'), j < i
          PROVE  calls'[j].revid < calls'[i].revid
      <4>1. j \in 1..Len(calls) /\ calls'[j] = calls[j]
        BY <1>2, <2>5, <3>2
      <4>2. calls[j].revid \in 2..Len(revisions)
        BY <4>1 DEF Nested
      <4>3. CASE i \in 1..Len(calls)
        <5>1. calls'[i] = calls[i]
          BY <2>5, <4>3
        <5> QED BY <3>2, <4>1, <4>3, <5>1 DEF Nested
      <4>4. CASE i = Len(calls) + 1
        BY <1>2, <2>5, <2>8, <4>1, <4>2, <4>4, SMTT(60)
      <4> QED BY <1>2, <2>5, <4>3, <4>4
    <3> QED BY <3>1, <3>2 DEF Nested
  <2>10. Undoable'
    BY <1>1, <1>2, <2>3, <2>6 DEF Undoable
  <2>11. Recorded'
    BY <1>1, <1>2, <2>1, <2>3 DEF Recorded
  <2> QED BY <1>3, <1>4, <2>7, <2>9, <2>10, <2>11
<1>7. CASE ~(db.balance[Current] >= n)
  <2>1. /\ accessedAddrs' = accessedAddrs \cup {Current}
        /\ UNCHANGED <<revisions, db, calls, visited>>
    BY <1>7, Zenon DEF Call
  <2>2. Types' /\ Nested' /\ Undoable'
    BY <1>1, <1>5, <2>1, ZenonT(60) DEF Types, Nested, Undoable
  <2>3. Recorded'
    BY <1>1, <1>2, <2>1 DEF Recorded
  <2> QED BY <1>3, <1>4, <2>2, <2>3
<1> QED BY <1>6, <1>7

\* Reading a slot records the value it started with.
LEMMA FirstReadOK ==
  ASSUME DryRunInv, phase = "running", NEW k \in Keys
  PROVE  /\ DOMAIN FirstRead(k) = DOMAIN storageReads \cup {k}
         /\ \A x \in DOMAIN FirstRead(k) : FirstRead(k)[x] = start.storage[x]
PROOF
<1>1. CASE k \in DOMAIN storageReads
  BY <1>1 DEF FirstRead, DryRunInv, Recorded
<1>2. CASE k \notin DOMAIN storageReads
  <2>1. db.storage[k] = start.storage[k]
    BY <1>2 DEF DryRunInv, Recorded, Undoable
  <2>2. FirstRead(k) = Store(storageReads, k, db.storage[k])
    BY <1>2 DEF FirstRead
  <2>3. /\ DOMAIN FirstRead(k) = DOMAIN storageReads \cup {k}
        /\ FirstRead(k)[k] = db.storage[k]
        /\ \A x \in DOMAIN storageReads : x # k => FirstRead(k)[x] = storageReads[x]
    BY <2>2 DEF Store
  <2> QED BY <1>2, <2>1, <2>3 DEF DryRunInv, Recorded
<1> QED BY <1>1, <1>2

\* GetState and GetStateAndCommittedState.
LEMMA GetStateStep ==
  ASSUME DryRunInv, NEW k \in Keys, GetState(k)
  PROVE  DryRunInv'
PROOF
<1> USE DEF DryRunInv
<1>1. /\ phase = "running" /\ phase' = phase /\ storageWrites' = storageWrites
      /\ storageReads' = FirstRead(k) /\ accessedAddrs' = accessedAddrs \cup {k[1]}
      /\ UNCHANGED <<db, revisions, calls, committed, answer, start, visited, undone, ledger>>
  BY DEF GetState, Running, ghosts
<1>2. k[1] \in Addrs
  BY TrackingAssumption
<1>3. /\ DOMAIN storageReads' = DOMAIN storageReads \cup {k}
      /\ \A x \in DOMAIN storageReads' : storageReads'[x] = start.storage[x]
  BY <1>1, FirstReadOK, Zenon
<1>4. LocalStaysHome' /\ Unanswered'
  BY <1>1, RunningStep
<1>5. ReadsOriginal'
  BY <1>1, <1>3 DEF ReadsOriginal
<1>6. Types'
  BY <1>1, <1>2, <1>3 DEF Types
<1>7. Nested' /\ Undoable'
  BY <1>1 DEF Nested, Undoable
<1>8. Recorded'
  BY <1>1, <1>3 DEF Recorded
<1> QED BY <1>4, <1>5, <1>6, <1>7, <1>8

\* SetState.
LEMMA SetStateStep ==
  ASSUME DryRunInv, NEW k \in Keys, NEW v \in Values, SetState(k, v)
  PROVE  DryRunInv'
PROOF
<1> USE DEF DryRunInv
<1>1. /\ phase = "running" /\ phase' = phase
      /\ storageWrites' = Store(storageWrites, k, v)
      /\ storageReads' = FirstRead(k) /\ accessedAddrs' = accessedAddrs \cup {k[1]}
      /\ undone' = undone \ {k}
      /\ UNCHANGED <<revisions, calls, committed, answer, start, visited, ledger>>
  BY DEF SetState, Running
<1>2. k[1] \in Addrs
  BY TrackingAssumption, SMTT(60)
<1>3. /\ DOMAIN storageReads' = DOMAIN storageReads \cup {k}
      /\ \A x \in DOMAIN storageReads' : storageReads'[x] = start.storage[x]
  BY <1>1, FirstReadOK
<1>4. /\ DOMAIN storageWrites' = DOMAIN storageWrites \cup {k}
      /\ storageWrites'[k] = v
      /\ \A x \in DOMAIN storageWrites : x # k => storageWrites'[x] = storageWrites[x]
  BY <1>1 DEF Store
<1>5. /\ db' \in DB /\ db'.storage[k] = v
      /\ \A x \in Keys : x # k => db'.storage[x] = db.storage[x]
  <2>1. db \in DB /\ db' = [db EXCEPT !.storage[k] = v]
    BY DEF SetState, Types
  <2> QED BY <2>1, SlotSet
<1>6. LocalStaysHome' /\ Unanswered'
  BY <1>1, RunningStep
<1>7. ReadsOriginal'
  BY <1>1, <1>3 DEF ReadsOriginal
<1>8. Types'
  BY <1>1, <1>2, <1>3, <1>4, <1>5, SMTT(60) DEF Types
<1>9. Nested'
  BY <1>1, Zenon DEF Nested
<1>10. Undoable'
  BY <1>1, <1>4, <1>5, SMTT(60) DEF Undoable
<1>11. Recorded'
  BY <1>1, <1>3, <1>4, <1>5 DEF Recorded, Types
<1> QED BY <1>6, <1>7, <1>8, <1>9, <1>10, <1>11

\* A prefix of a sequence.
LEMMA Prefix ==
  ASSUME NEW S, NEW q \in Seq(S), NEW m \in 0..Len(q)
  PROVE  /\ SubSeq(q, 1, m) \in Seq(S) /\ Len(SubSeq(q, 1, m)) = m
         /\ \A i \in 1..m : SubSeq(q, 1, m)[i] = q[i]
OBVIOUS

\* The innermost call ends.
LEMMA Popped ==
  ASSUME NEW S, NEW q \in Seq(S), Len(q) \in Nat \ {0}
  PROVE  LET p == SubSeq(q, 1, Len(q) - 1)
         IN  /\ p \in Seq(S) /\ Len(p) = Len(q) - 1
             /\ \A i \in 1..Len(p) : i \in 1..Len(q) /\ i < Len(q) /\ p[i] = q[i]
PROOF
<1>1. Len(q) - 1 \in 0..Len(q)
  OBVIOUS
<1> DEFINE p == SubSeq(q, 1, Len(q) - 1)
<1>2. p \in Seq(S) /\ Len(p) = Len(q) - 1 /\ \A i \in 1..Len(q) - 1 : p[i] = q[i]
  BY <1>1, Prefix, ZenonT(60)
<1> HIDE DEF p
<1>3. \A i \in 1..Len(p) : i \in 1..Len(q) /\ i < Len(q) /\ p[i] = q[i]
  BY <1>2, SMTT(60)
<1> QED BY <1>2, <1>3 DEF p

\* A call that returns.
LEMMA ReturnStep ==
  ASSUME DryRunInv, Return
  PROVE  DryRunInv'
PROOF
<1> USE DEF DryRunInv
<1> DEFINE T == [addr : Addrs, revid : Nat]
<1>1. /\ Running /\ phase' = phase /\ calls' = SubSeq(calls, 1, Len(calls) - 1)
      /\ UNCHANGED <<db, revisions, accessedAddrs, storageReads, storageWrites, committed,
                     answer, start, visited, undone, ledger>>
  BY DEF Return, tracking, ghosts
<1>2. phase = "running" /\ Len(calls) \in Nat \ {0}
  BY <1>1, RunningCalls
<1>3. calls \in Seq(T)
  BY DEF Types
<1> HIDE DEF T
<1>4. /\ calls' \in Seq(T) /\ Len(calls') = Len(calls) - 1
      /\ \A i \in 1..Len(calls') : i \in 1..Len(calls) /\ calls'[i] = calls[i]
  BY <1>1, <1>2, <1>3, Popped
<1>5. Types'
  BY <1>1, <1>4 DEF Types, T
<1>6. Nested'
  BY <1>1, <1>4, ZenonT(60) DEF Nested
<1>7. Undoable' /\ Recorded'
  BY <1>1 DEF Undoable, Recorded
<1>8. LocalStaysHome' /\ Unanswered'
  BY <1>1, <1>2, RunningStep
<1>9. ReadsOriginal'
  BY <1>1, <1>2 DEF ReadsOriginal
<1> QED BY <1>5, <1>6, <1>7, <1>8, <1>9

\* A call that is reverted: the StateDB is as at its snapshot, which was taken after
\* the one of SimulateCall and after those of the calls around it.
LEMMA RevertStep ==
  ASSUME DryRunInv, Revert
  PROVE  DryRunInv'
PROOF
<1> USE DEF DryRunInv
<1> DEFINE T == [addr : Addrs, revid : Nat]
           id == calls[Len(calls)].revid
<1>1. /\ Running /\ phase' = phase /\ calls' = SubSeq(calls, 1, Len(calls) - 1)
      /\ db' = revisions[id] /\ revisions' = SubSeq(revisions, 1, id - 1)
      /\ undone' = undone \cup {k \in Keys : db.storage[k] # revisions[id].storage[k]}
      /\ UNCHANGED <<accessedAddrs, storageReads, storageWrites, committed,
                     answer, start, visited, ledger>>
  BY DEF Revert, RevertToSnapshot, tracking
<1>2. phase = "running" /\ Len(calls) \in Nat \ {0}
  BY <1>1, RunningCalls
<1>3. calls \in Seq(T) /\ revisions \in Seq(DB)
  BY DEF Types
<1>4. Len(calls) \in 1..Len(calls) /\ id \in 2..Len(revisions)
  BY <1>2 DEF Nested
<1> HIDE DEF T
<1>5. /\ calls' \in Seq(T) /\ Len(calls') = Len(calls) - 1
      /\ \A i \in 1..Len(calls') : i \in 1..Len(calls) /\ i < Len(calls) /\ calls'[i] = calls[i]
  BY <1>1, <1>2, <1>3, Popped
<1>6. \A i \in 1..Len(calls') : calls[i].revid < id /\ calls[i].revid \in 2..Len(revisions)
  BY <1>4, <1>5, SMTT(60) DEF Nested
<1> HIDE DEF id
<1>7. Len(revisions) \in Nat /\ id \in Nat /\ id - 1 \in 0..Len(revisions)
  BY <1>3, <1>4
<1>8. /\ revisions' \in Seq(DB) /\ Len(revisions') = id - 1
      /\ \A i \in 1..id - 1 : revisions'[i] = revisions[i]
  BY <1>1, <1>3, <1>7, Prefix
<1>9. db' \in DB
  BY <1>1, <1>3, <1>4
<1>10. Types'
  BY <1>1, <1>5, <1>8, <1>9, SMTT(60) DEF Types, T
<1>11. Nested'
  <2>1. ASSUME NEW i \in 1..Len(calls') PROVE calls'[i].revid \in 2..Len(revisions')
    <3>1. calls'[i] = calls[i]
      BY <1>5
    <3>2. calls[i].revid < id /\ calls[i].revid \in 2..Len(revisions)
      BY <1>6
    <3> QED BY <1>7, <1>8, <3>1, <3>2
  <2>2. ASSUME NEW i \in 1..Len(calls'), NEW j \in 1..Len(calls'), j < i
        PROVE  calls'[j].revid < calls'[i].revid
    BY <1>5, <2>2, Zenon DEF Nested
  <2> QED BY <2>1, <2>2 DEF Nested
<1>12. Undoable'
  BY <1>1, <1>2, <1>4, <1>7, <1>8 DEF Undoable
<1>13. Recorded'
  BY <1>1, <1>2 DEF Recorded, Types
<1>14. LocalStaysHome' /\ Unanswered'
  BY <1>1, <1>2, RunningStep
<1>15. ReadsOriginal'
  BY <1>1, <1>2 DEF ReadsOriginal
<1> QED BY <1>10, <1>11, <1>12, <1>13, <1>14, <1>15

\* The end of the dry run: back to the first snapshot.
LEMMA EndStep ==
  ASSUME DryRunInv, NEW ok \in BOOLEAN, EndOfSimulation(ok)
  PROVE  DryRunInv'
PROOF
<1> USE DEF DryRunInv
<1>1. /\ Running /\ db' = revisions[1] /\ revisions' = <<>> /\ calls' = <<>>
      /\ UNCHANGED <<accessedAddrs, storageReads, storageWrites, committed, answer, start,
                     visited, undone, ledger>>
  BY DEF EndOfSimulation, tracking
<1>2. phase' \in {"ok", "failed"}
  BY DEF EndOfSimulation
<1>3. phase = "running" /\ revisions[1] = start /\ start \in DB
  BY <1>1 DEF Running, Undoable, Types
<1>4. Types'
  BY <1>1, <1>2, <1>3 DEF Types
<1>5. Nested' /\ Undoable'
  BY <1>1, <1>2, <1>3, SMTT(60) DEF Nested, Undoable
<1>6. Recorded'
  BY <1>1, <1>2, <1>3 DEF Recorded
<1>7. ReadsOriginal' /\ LocalStaysHome' /\ Unanswered'
  BY <1>1, <1>2, <1>3 DEF ReadsOriginal, LocalStaysHome, Unanswered
<1> QED BY <1>4, <1>5, <1>6, <1>7

\* The rest of handleTxSubmit.
LEMMA RouteStep ==
  ASSUME DryRunInv, NEW locked, Route(locked)
  PROVE  DryRunInv'
PROOF
<1> USE DEF DryRunInv
<1>1. /\ phase \in {"ok", "failed", "poor"} /\ phase' = "idle"
      /\ request.kind = "submit" /\ request' = request
      /\ UNCHANGED <<db, revisions, calls, accessedAddrs, storageReads, storageWrites,
                     committed, start, visited, undone, ledger>>
  BY Zenon DEF Route, tracking, ghosts
<1>2. answer'.kind = "local" => phase = "ok" /\ CrossShardAddresses = {}
  BY <1>1 DEF Route, Plain, Answer
<1>3. Types'
  BY <1>1, Zenon DEF Types
<1>4. Nested' /\ Undoable' /\ Recorded'
  BY <1>1, Zenon DEF Nested, Undoable, Recorded
<1>5. ReadsOriginal' /\ Unanswered'
  <2>1. answer'.kind # "rwset"
    BY <1>1 DEF Route, QueueLocal, Plain, Answer
  <2> QED BY <1>1, <2>1 DEF ReadsOriginal, Recorded, Unanswered
<1>6. LocalStaysHome'
  BY <1>1, <1>2 DEF LocalStaysHome, Recorded, CrossShardAddresses
<1> QED BY <1>3, <1>4, <1>5, <1>6

\* The rest of handleRwSet.
LEMMA ReplyStep ==
  ASSUME DryRunInv, Reply
  PROVE  DryRunInv'
PROOF
<1> USE DEF DryRunInv
<1>1. /\ phase \in {"ok", "failed", "poor"} /\ phase' = "idle"
      /\ answer' = IF phase = "ok" THEN Answer("rwset", {}, BuildRwSet) ELSE Plain("error")
      /\ UNCHANGED <<db, revisions, calls, accessedAddrs, storageReads, storageWrites,
                     committed, start, visited, undone, ledger>>
  BY DEF Reply, tracking, ghosts
<1>2. Types'
  BY <1>1, SMTT(60) DEF Types
<1>3. Nested' /\ Undoable' /\ Recorded'
  BY <1>1 DEF Nested, Undoable, Recorded
<1>4. Unanswered'
  BY <1>1 DEF Unanswered
<1>5. answer'.kind \in {"rwset", "error"}
  BY <1>1 DEF Answer, Plain
<1>6. LocalStaysHome'
  BY <1>5 DEF LocalStaysHome
<1>7. ReadsOriginal'
  <2>1. CASE phase = "ok"
    <3>1. answer'.rwSet = BuildRwSet
      BY <1>1, <2>1 DEF Answer
    <3>2. /\ DOMAIN BuildRwSet.writes = DOMAIN storageWrites
          /\ \A k \in DOMAIN storageWrites :
               k \in DOMAIN storageReads => BuildRwSet.writes[k].old = storageReads[k]
      BY DEF BuildRwSet
    <3>3. \A k \in DOMAIN storageWrites :
            k \in DOMAIN storageReads /\ storageReads[k] = start.storage[k]
      BY SMTT(60) DEF Recorded
    <3> QED BY <1>1, <3>1, <3>2, <3>3 DEF ReadsOriginal
  <2>2. CASE phase # "ok"
    <3>1. answer'.kind = "error"
      BY <1>1, <2>2 DEF Plain, Answer
    <3> QED BY <1>1, <3>1 DEF ReadsOriginal
  <2> QED BY <2>1, <2>2
<1> QED BY <1>2, <1>3, <1>4, <1>6, <1>7

\* A block, which ends the dry run at work, if there is one.
LEMMA ProduceBlockStep ==
  ASSUME DryRunInv, NEW k \in Keys, NEW v \in Values, ProduceBlock(k, v)
  PROVE  DryRunInv'
PROOF
<1> USE DEF DryRunInv
<1>1. /\ phase' = (IF phase = "running" THEN "idle" ELSE phase)
      /\ revisions' = <<>> /\ calls' = <<>>
      /\ UNCHANGED <<request, accessedAddrs, storageReads, storageWrites, answer,
                     start, visited, undone>>
  BY DEF ProduceBlock, tracking
<1>2. phase' # "running" /\ (phase' = phase \/ (phase = "running" /\ phase' = "idle"))
  <2>1. CASE phase = "running"
    BY <1>1, <2>1
  <2>2. CASE phase # "running"
    BY <1>1, <2>2
  <2> QED BY <2>1, <2>2
<1>3. /\ db \in DB /\ ledger \in DB
      /\ db' = [db EXCEPT !.storage[k] = v] /\ committed' = db'
      /\ ledger' = [ledger EXCEPT !.storage[k] = v]
  BY DEF ProduceBlock, Types
<1>4. db' \in DB /\ committed' \in DB /\ ledger' \in DB
  BY <1>3, SlotSet
<1>5. Types'
  BY <1>1, <1>2, <1>4, SMTT(60) DEF Types
<1>6. Nested' /\ Undoable'
  BY <1>1, <1>2 DEF Nested, Undoable
<1>7. Recorded' /\ Unanswered'
  BY <1>1, <1>2 DEF Recorded, Unanswered
<1>8. ReadsOriginal' /\ LocalStaysHome'
  <2>1. CASE phase = "running"
    BY <1>1, <2>1 DEF Unanswered, ReadsOriginal, LocalStaysHome
  <2>2. CASE phase # "running"
    BY <1>1, <2>2 DEF ReadsOriginal, LocalStaysHome
  <2> QED BY <2>1, <2>2
<1> QED BY <1>5, <1>6, <1>7, <1>8

\* Every step keeps the invariant.
LEMMA NextDryRun ==
  ASSUME DryRunInv, [Next]_vars
  PROVE  DryRunInv'
PROOF
<1>1. CASE \E from, to \in Addrs, n, locked \in {0, 1}, data, gasOk \in BOOLEAN :
             TxSubmit(from, to, n, data, gasOk, locked)
  BY <1>1, TxSubmitStep
<1>2. CASE \E caller, to \in Addrs, n \in {0, 1} : RwSet(caller, to, n)
  BY <1>2, RwSetStep
<1>3. CASE \E to \in Addrs, n \in {0, 1} : Call(to, n)
  BY <1>3, CallStep
<1>4. CASE \E k \in Keys : GetState(k)
  BY <1>4, GetStateStep
<1>5. CASE \E k \in Keys, v \in Values : SetState(k, v)
  BY <1>5, SetStateStep
<1>6. CASE Return \/ Revert
  BY <1>6, ReturnStep, RevertStep
<1>7. CASE \E ok \in BOOLEAN : EndOfSimulation(ok)
  BY <1>7, EndStep
<1>8. CASE (\E locked \in {0, 1} : Route(locked)) \/ Reply
  BY <1>8, RouteStep, ReplyStep
<1>9. CASE \E k \in Keys, v \in Values : ProduceBlock(k, v)
  BY <1>9, ProduceBlockStep, ZenonT(60)
<1>10. CASE UNCHANGED vars
  BY <1>10, SMTT(60) DEF vars, tracking, ghosts, DryRunInv, Types, Nested, Undoable, Recorded,
               Unanswered, ReadsOriginal, LocalStaysHome
<1> QED BY <1>1, <1>2, <1>3, <1>4, <1>5, <1>6, <1>7, <1>8, <1>9, <1>10 DEF Next

\* The write set follows from the invariant.
LEMMA WritesFollow == DryRunInv => WritesCurrent
BY DEF DryRunInv, Types, Undoable, Recorded, WritesCurrent

LEMMA DryRunInvariant == Spec => []DryRunInv
PROOF
<1>1. Init => DryRunInv
  BY InitDryRun
<1>2. DryRunInv /\ [Next]_vars => DryRunInv'
  BY NextDryRun
<1> QED BY <1>1, <1>2, PTL DEF Spec

\* The StateDB and its snapshots keep their types, and each call that is open finds
\* its snapshot on the stack, in the order of the calls.
THEOREM DryRunTypeCorrect == Spec => []TypeOK
PROOF
<1>1. DryRunInv => TypeOK
  BY DEF DryRunInv, Types, Nested, TypeOK
<1> QED BY <1>1, DryRunInvariant, PTL

\* SimulateCall and SimulateCallForRwSet, when they get to their end, leave the
\* StateDB as they found it, however deep their calls nested and whatever was reverted.
THEOREM DryRunIsUndone == Spec => DryRunUndone
PROOF
<1>1. ASSUME DryRunInv, [Next]_vars, phase = "running", phase' \in {"ok", "failed"}
      PROVE  db' = start
  <2>1. phase' # phase /\ phase' # "idle" /\ phase' # "poor" /\ phase' # "running"
    BY <1>1
  <2>2. PICK ok \in BOOLEAN : EndOfSimulation(ok)
    <3>1. ~UNCHANGED vars
      BY <2>1 DEF vars
    <3>2. ~Idle /\ ~Return /\ ~Revert /\ ~Reply
      BY <1>1, <2>1 DEF Idle, Return, Revert, Reply
    <3>3. \A to \in Addrs, n \in {0, 1} : ~Call(to, n)
      BY <2>1 DEF Call
    <3>4. \A k \in Keys : ~GetState(k) /\ \A v \in Values : ~SetState(k, v)
      BY <2>1 DEF GetState, SetState
    <3>5. \A k \in Keys, v \in Values : ~ProduceBlock(k, v)
      BY <1>1, <2>1 DEF ProduceBlock
    <3>6. \A locked \in {0, 1} : ~Route(locked)
      BY <1>1, <2>1 DEF Route
    <3> QED BY <1>1, <3>1, <3>2, <3>3, <3>4, <3>5, <3>6, ZenonT(60) DEF Next, TxSubmit, RwSet
  <2>3. db' = revisions[1]
    BY <2>2 DEF EndOfSimulation
  <2> QED BY <1>1, <2>3 DEF DryRunInv, Undoable
<1>2. DryRunInv /\ [Next]_vars
        => [phase = "running" /\ phase' \in {"ok", "failed"} => db' = start]_vars
  BY <1>1
<1> QED BY <1>2, DryRunInvariant, PTL DEF Spec, DryRunUndone

\* The reads TrackingStateDB recorded are the state the dry run started from, whatever
\* was written over it since.
THEOREM DryRunReadsOriginal == Spec => []ReadsOriginal
PROOF
<1>1. DryRunInv => ReadsOriginal
  BY DEF DryRunInv
<1> QED BY <1>1, DryRunInvariant, PTL

\* While a dry run is at work every slot that it changed is in the write set of
\* TrackingStateDB, with its current value unless its last write was reverted: a
\* write that a revert undid stays recorded.
THEOREM DryRunWritesCurrent == Spec => []WritesCurrent
PROOF
<1> QED BY WritesFollow, DryRunInvariant, PTL

\* handleTxSubmit queues as local only what its dry run kept on this shard.
THEOREM LocalTxsStayHome == Spec => []LocalStaysHome
PROOF
<1>1. DryRunInv => LocalStaysHome
  BY DEF DryRunInv
<1> QED BY <1>1, DryRunInvariant, PTL
=============================================================================
