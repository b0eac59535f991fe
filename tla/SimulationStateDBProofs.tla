----------------------- MODULE SimulationStateDBProofs -----------------------
(***************************************************************************)
(* Proofs about the state database of a simulation, for every set of       *)
(* addresses, keys, values and balances and every depth of calls.          *)
(*                                                                         *)
(* RevertsAsNested is not inductive: it says nothing of the snapshots that *)
(* a later Revert goes back to.  SimInv adds that the snapshot of every    *)
(* open call holds what its caller saw, and that the snapshots of the open *)
(* calls are in the order of the calls, so that going back to one keeps    *)
(* those of the calls around it.                                           *)
(***************************************************************************)
EXTENDS SimulationStateDB, TLAPS

\* Maps from some of the keys in D to values in R.
Maps(D, R) == UNION {[d -> R] : d \in SUBSET D}

Account == [balance : Int, original : Int, created : BOOLEAN]
Taken == [accounts : Maps(Addrs, Account), reads : Maps(Keys, Values), writes : Maps(Keys, Values)]
Frame == [revid : Nat, written : Maps(Keys, Values), moved : [Addrs -> Int]]

\* Only the recipient of a transfer is created, and it has no code to send it on.
Created(accts) ==
  \A a \in DOMAIN accts :
    accts[a].created => a \notin Contracts /\ accts[a].original = 0 /\ accts[a].balance > 0

\* The written slots were read, and the reads are what shards returned.
Grounded(rd, wr, obs, mis) ==
  /\ DOMAIN wr \subseteq DOMAIN rd
  /\ \A k \in DOMAIN rd : <<k, rd[k]>> \in obs \/ (mis /\ rd[k] = 0)

\* The balance changes of the accounts that the EVM did not create.
Moves(accts, moved) ==
  \A a \in Addrs :
    IF a \in DOMAIN accts
    THEN accts[a].created \/ moved[a] = accts[a].balance - accts[a].original
    ELSE moved[a] = 0

\* What the first i open calls see.
Written(i) == IF i = 0 THEN Nothing ELSE frames[i].written
Moved(i) == IF i = 0 THEN NoMoves ELSE frames[i].moved

Types ==
  /\ accounts \in Maps(Addrs, Account)
  /\ reads \in Maps(Keys, Values)
  /\ writes \in Maps(Keys, Values)
  /\ writeOlds \in Maps(Keys, Values)
  /\ snapshots \in Seq(Taken)
  /\ frames \in Seq(Frame)
  /\ status \in {"running", "success", "failed"}

Sound ==
  /\ Created(accounts)
  /\ Grounded(reads, writes, observed, missed)
  /\ \A i \in 1..Len(snapshots) :
       /\ Created(snapshots[i].accounts)
       /\ Grounded(snapshots[i].reads, snapshots[i].writes, observed, missed)

\* The snapshots of the open calls, in the order of the calls.
Nested ==
  /\ \A i \in 1..Len(frames) : frames[i].revid \in 1..Len(snapshots)
  /\ \A i, j \in 1..Len(frames) : i < j => frames[i].revid < frames[j].revid

\* The database holds what the innermost call sees, and the snapshot of an open call
\* what its caller saw.
Faithful ==
  /\ writes = Written(Len(frames))
  /\ fetchErrors \/ Moves(accounts, Moved(Len(frames)))
  /\ \A i \in 1..Len(frames) :
       /\ snapshots[frames[i].revid].writes = Written(i - 1)
       /\ fetchErrors \/ Moves(snapshots[frames[i].revid].accounts, Moved(i - 1))

SimInv ==
  /\ Types
  /\ Sound
  /\ Nested
  /\ Faithful
  /\ frames = <<>> /\ status = "running" => accounts = Nothing
  /\ status = "success" => ~fetchErrors
-----------------------------------------------------------------------------
\* A map is a function on some of the keys.
LEMMA MapsAre ==
  ASSUME NEW D, NEW R, NEW m
  PROVE  m \in Maps(D, R) <=> m \in [DOMAIN m -> R] /\ DOMAIN m \subseteq D
  BY DEF Maps

\* Store (the maps of statedb.go) sets one key and leaves the others alone.
LEMMA StoreSets ==
  ASSUME NEW m, NEW k, NEW v
  PROVE  /\ DOMAIN Store(m, k, v) = DOMAIN m \cup {k}
         /\ Store(m, k, v)[k] = v
         /\ \A x \in DOMAIN m \ {k} : Store(m, k, v)[x] = m[x]
  BY DEF Store

LEMMA StoreAccount ==
  ASSUME NEW m \in Maps(Addrs, Account), NEW k \in Addrs, NEW v \in Account
  PROVE  Store(m, k, v) \in Maps(Addrs, Account)
<1>1. m \in [DOMAIN m -> Account] /\ DOMAIN m \subseteq Addrs
  BY MapsAre, Zenon
<1>2. Store(m, k, v) \in [DOMAIN m \cup {k} -> Account]
  BY <1>1, Zenon DEF Store
<1>. QED  BY <1>1, <1>2, StoreSets, MapsAre, SMTT(60)

LEMMA StoreSlot ==
  ASSUME NEW m \in Maps(Keys, Values), NEW k \in Keys, NEW v \in Values
  PROVE  Store(m, k, v) \in Maps(Keys, Values)
<1>1. m \in [DOMAIN m -> Values] /\ DOMAIN m \subseteq Keys
  BY MapsAre, Zenon
<1>2. Store(m, k, v) \in [DOMAIN m \cup {k} -> Values]
  BY <1>1, Zenon DEF Store
<1>. QED  BY <1>1, <1>2, StoreSets, MapsAre, SMTT(60)

\* What r, the result of getOrFetchAccount, leaves of the accounts accts.
AfterFetch(accts, a, r) ==
  /\ r.accts \in Maps(Addrs, Account)
  /\ \A x \in DOMAIN accts : r.accts[x] = accts[x]
  /\ \/ /\ r.failed = TRUE
        /\ a \notin DOMAIN accts
        /\ DOMAIN r.accts = DOMAIN accts
        /\ r.balance = 0
     \/ /\ r.failed = FALSE
        /\ DOMAIN r.accts = DOMAIN accts \cup {a}
        /\ r.balance = r.accts[a].balance
        /\ a \notin DOMAIN accts =>
             r.accts[a].balance = r.accts[a].original /\ r.accts[a].created = FALSE

\* getOrFetchAccount adds at most the account that it fetches, with the balance that
\* the shard reports as its original balance.
LEMMA FetchAdds ==
  ASSUME NEW accts \in Maps(Addrs, Account), NEW a \in Addrs,
         NEW r \in GetOrFetchAccount(accts, a)
  PROVE  AfterFetch(accts, a, r)
<1>. USE DEF AfterFetch
<1>1. CASE a \in DOMAIN accts
  BY <1>1 DEF GetOrFetchAccount
<1>2. CASE a \notin DOMAIN accts /\ r = [accts |-> accts, balance |-> 0, failed |-> TRUE]
  BY <1>2
<1>3. ASSUME NEW b \in Balances, a \notin DOMAIN accts,
             r = [accts |-> Store(accts, a, [balance |-> b, original |-> b, created |-> FALSE]),
                  balance |-> b, failed |-> FALSE]
      PROVE  /\ r.accts \in Maps(Addrs, Account)
             /\ DOMAIN r.accts = DOMAIN accts \cup {a}
             /\ \A x \in DOMAIN accts : r.accts[x] = accts[x]
             /\ r.accts[a] = [balance |-> b, original |-> b, created |-> FALSE]
  <2>. DEFINE acct == [balance |-> b, original |-> b, created |-> FALSE]
  <2>1. acct \in Account
    BY SimulationAssumption DEF Account
  <2>2. r.accts = Store(accts, a, acct)
    BY <1>3
  <2>3. /\ Store(accts, a, acct) \in Maps(Addrs, Account)
        /\ DOMAIN Store(accts, a, acct) = DOMAIN accts \cup {a}
        /\ Store(accts, a, acct)[a] = acct
        /\ \A x \in DOMAIN accts \ {a} : Store(accts, a, acct)[x] = accts[x]
    <3>. HIDE DEF acct
    <3>1. Store(accts, a, acct) \in Maps(Addrs, Account)
      BY <2>1, StoreAccount, SMTT(60)
    <3>2. /\ DOMAIN Store(accts, a, acct) = DOMAIN accts \cup {a}
          /\ Store(accts, a, acct)[a] = acct
          /\ \A x \in DOMAIN accts \ {a} : Store(accts, a, acct)[x] = accts[x]
      BY DEF Store
    <3>. QED  BY <3>1, <3>2, SMTT(60)
  <2>. HIDE DEF acct
  <2>4. \A x \in DOMAIN accts : r.accts[x] = accts[x]
    BY <1>3, <2>2, <2>3, SMTT(60)
  <2>5. r.accts[a] = acct
    BY <2>2, <2>3, SMTT(60)
  <2>. QED  BY <2>2, <2>3, <2>4, <2>5, ZenonT(60) DEF acct
<1>4. \/ a \in DOMAIN accts
      \/ r = [accts |-> accts, balance |-> 0, failed |-> TRUE]
      \/ \E b \in Balances :
           r = [accts |-> Store(accts, a, [balance |-> b, original |-> b, created |-> FALSE]),
                balance |-> b, failed |-> FALSE]
  BY ZenonT(60) DEF GetOrFetchAccount
<1>5. ASSUME NEW b \in Balances, a \notin DOMAIN accts,
             r = [accts |-> Store(accts, a, [balance |-> b, original |-> b, created |-> FALSE]),
                  balance |-> b, failed |-> FALSE]
      PROVE  r.failed = FALSE /\ r.balance = b
  BY <1>5
<1>6. CASE a \notin DOMAIN accts /\ \E b \in Balances :
             r = [accts |-> Store(accts, a, [balance |-> b, original |-> b, created |-> FALSE]),
                  balance |-> b, failed |-> FALSE]
  <2>1. PICK b \in Balances :
               r = [accts |-> Store(accts, a, [balance |-> b, original |-> b, created |-> FALSE]),
                    balance |-> b, failed |-> FALSE]
    BY <1>6, ZenonT(60)
  <2>2. /\ r.accts \in Maps(Addrs, Account)
        /\ DOMAIN r.accts = DOMAIN accts \cup {a}
        /\ \A x \in DOMAIN accts : r.accts[x] = accts[x]
        /\ r.accts[a] = [balance |-> b, original |-> b, created |-> FALSE]
        /\ r.failed = FALSE
        /\ r.balance = b
    BY <1>3, <1>5, <1>6, <2>1, Zenon
  <2>3. r.accts[a].balance = b /\ r.accts[a].original = b /\ r.accts[a].created = FALSE
    BY <2>2
  <2>. QED  BY <1>6, <2>2, <2>3, Zenon
<1>. QED  BY <1>1, <1>2, <1>4, <1>6, Zenon

\* A fetched account has moved nothing, and the EVM did not create it.
LEMMA FetchMovesNothing ==
  ASSUME NEW accts \in Maps(Addrs, Account), NEW a \in Addrs,
         NEW r \in GetOrFetchAccount(accts, a)
  PROVE  /\ Created(accts) => Created(r.accts)
         /\ \A moved \in [Addrs -> Int] : Moves(accts, moved) => Moves(r.accts, moved)
<1>0. AfterFetch(accts, a, r)
  BY FetchAdds, SMTT(60)
<1>1. /\ r.accts \in [DOMAIN r.accts -> Account]
      /\ DOMAIN r.accts \subseteq DOMAIN accts \cup {a}
      /\ DOMAIN accts \subseteq DOMAIN r.accts
      /\ \A x \in DOMAIN accts : r.accts[x] = accts[x]
      /\ a \in DOMAIN r.accts /\ a \notin DOMAIN accts =>
           r.accts[a].balance = r.accts[a].original /\ r.accts[a].created = FALSE
  <2>1. r.accts \in Maps(Addrs, Account)
    BY <1>0, SMTT(60) DEF AfterFetch
  <2>2. r.accts \in [DOMAIN r.accts -> Account]
    BY <2>1, MapsAre, SMTT(60)
  <2>3. /\ DOMAIN accts \subseteq DOMAIN r.accts
        /\ DOMAIN r.accts \subseteq DOMAIN accts \cup {a}
    BY <1>0, SMTT(60) DEF AfterFetch
  <2>4. /\ \A x \in DOMAIN accts : r.accts[x] = accts[x]
        /\ a \in DOMAIN r.accts /\ a \notin DOMAIN accts =>
             r.accts[a].balance = r.accts[a].original /\ r.accts[a].created = FALSE
    BY <1>0, SMTT(60) DEF AfterFetch
  <2>. QED  BY <2>2, <2>3, <2>4, SMTT(60)
<1>2. ASSUME Created(accts) PROVE Created(r.accts)
  BY <1>1, <1>2, SMTT(60) DEF Created
<1>3. ASSUME NEW moved \in [Addrs -> Int], Moves(accts, moved) PROVE Moves(r.accts, moved)
  <2>1. SUFFICES ASSUME NEW x \in Addrs
                 PROVE  IF x \in DOMAIN r.accts
                        THEN r.accts[x].created \/ moved[x] = r.accts[x].balance - r.accts[x].original
                        ELSE moved[x] = 0
    BY DEF Moves
  <2>2. CASE x \in DOMAIN accts
    BY <1>1, <1>3, <2>2, SMTT(60) DEF Moves
  <2>3. CASE x \notin DOMAIN accts
    BY <1>1, <1>3, <2>3, SMTT(60) DEF Moves, Account
  <2>. QED  BY <2>2, <2>3, SMTT(60)
<1>. QED  BY <1>2, <1>3, SMTT(60)

\* What r, a result of GetState, leaves behind: the slot is read, and the reads stay
\* grounded in what shards returned.
AfterRead(k, r) ==
  /\ r.accts \in Maps(Addrs, Account)
  /\ Created(r.accts)
  /\ \A moved \in [Addrs -> Int] : Moves(accounts, moved) => Moves(r.accts, moved)
  /\ r.value \in Values
  /\ r.reads \in Maps(Keys, Values)
  /\ k \in DOMAIN r.reads
  /\ DOMAIN reads \subseteq DOMAIN r.reads
  /\ observed \subseteq r.observed
  /\ \A x \in DOMAIN r.reads :
       <<x, r.reads[x]>> \in r.observed \/ ((missed \/ r.missed) /\ r.reads[x] = 0)

\* A slot that GetState fetches is read with the value that the shard returned, or
\* with the zero of a failed fetch.
LEMMA ReadSlotReads ==
  ASSUME SimInv, NEW k \in Keys, NEW r \in ReadSlot(k)
  PROVE  AfterRead(k, r)
<1>0. /\ accounts \in Maps(Addrs, Account) /\ Created(accounts)
      /\ reads \in Maps(Keys, Values) /\ writes \in Maps(Keys, Values)
      /\ DOMAIN writes \subseteq DOMAIN reads
      /\ \A x \in DOMAIN reads : <<x, reads[x]>> \in observed \/ (missed /\ reads[x] = 0)
  BY Zenon DEF SimInv, Types, Sound, Grounded
<1>1. /\ reads \in [DOMAIN reads -> Values]
      /\ writes \in [DOMAIN writes -> Values]
  BY <1>0, MapsAre, Zenon
<1>2. k[1] \in Addrs /\ 0 \in Values
  BY SimulationAssumption, Zenon
<1>3. CASE k \in DOMAIN reads
  <2>1. r = [value |-> IF k \in DOMAIN writes THEN writes[k] ELSE reads[k], reads |-> reads,
             accts |-> accounts, failed |-> FALSE, missed |-> FALSE, observed |-> observed]
    BY <1>3, SMTT(60) DEF ReadSlot
  <2>2. /\ r.accts = accounts /\ r.reads = reads /\ r.observed = observed
        /\ r.value = IF k \in DOMAIN writes THEN writes[k] ELSE reads[k]
    BY <2>1, SMTT(60)
  <2>3. r.value \in Values
    BY <1>1, <1>3, <2>2, SMTT(60)
  <2>. QED  BY <1>0, <1>3, <2>2, <2>3, SMTT(60) DEF AfterRead
<1>4. CASE k \notin DOMAIN reads
  <2>1. PICK q \in GetOrFetchAccount(accounts, k[1]) :
          \E v \in Values :
            /\ r.accts = q.accts /\ r.value = v /\ r.reads = Store(reads, k, v)
            /\ \/ r.observed = observed \cup {<<k, v>>}
               \/ r.observed = observed /\ r.missed = TRUE /\ v = 0
    <3>1. k \notin DOMAIN writes \cup DOMAIN reads
      BY <1>0, <1>4, SMTT(60)
    <3>. QED  BY <1>2, <3>1, SMTT(60) DEF ReadSlot
  <2>2. PICK v \in Values :
            /\ r.accts = q.accts /\ r.value = v /\ r.reads = Store(reads, k, v)
            /\ \/ r.observed = observed \cup {<<k, v>>}
               \/ r.observed = observed /\ r.missed = TRUE /\ v = 0
    BY <2>1, SMTT(60)
  <2>3. AfterFetch(accounts, k[1], q)
    BY <1>0, <1>2, FetchAdds, SMTT(60)
  <2>4. /\ Created(q.accts)
        /\ \A moved \in [Addrs -> Int] : Moves(accounts, moved) => Moves(q.accts, moved)
    BY <1>0, <1>2, FetchMovesNothing, SMTT(60)
  <2>5. /\ r.accts \in Maps(Addrs, Account)
        /\ Created(r.accts)
        /\ \A moved \in [Addrs -> Int] : Moves(accounts, moved) => Moves(r.accts, moved)
    BY <2>2, <2>3, <2>4, SMTT(60) DEF AfterFetch
  <2>6. r.reads \in Maps(Keys, Values)
    BY <1>0, <2>2, StoreSlot, SMTT(60)
  <2>7. /\ DOMAIN r.reads = DOMAIN reads \cup {k}
        /\ r.reads[k] = v
        /\ \A x \in DOMAIN reads : r.reads[x] = reads[x]
    BY <1>4, <2>2, SMTT(60) DEF Store
  <2>8. ASSUME NEW x \in DOMAIN r.reads
        PROVE  <<x, r.reads[x]>> \in r.observed \/ ((missed \/ r.missed) /\ r.reads[x] = 0)
    <3>1. CASE x = k
      BY <2>2, <2>7, <3>1, SMTT(60)
    <3>2. CASE x # k
      <4>1. x \in DOMAIN reads /\ r.reads[x] = reads[x]
        BY <2>7, <3>2, SMTT(60)
      <4>2. <<x, reads[x]>> \in observed \/ (missed /\ reads[x] = 0)
        BY <1>0, <4>1, SMTT(60)
      <4>. QED  BY <2>2, <4>1, <4>2, SMTT(60)
    <3>. QED  BY <3>1, <3>2, SMTT(60)
  <2>9. r.value \in Values /\ observed \subseteq r.observed
    BY <2>2, SMTT(60)
  <2>. QED  BY <2>5, <2>6, <2>7, <2>8, <2>9, SMTT(60) DEF AfterRead
<1>. QED  BY <1>3, <1>4, Zenon

\* What a shard returned stays returned: the snapshots stay grounded.
LEMMA SnapshotsStaySound ==
  ASSUME SimInv, snapshots' = snapshots, observed \subseteq observed', missed => missed'
  PROVE  \A i \in 1..Len(snapshots') :
           /\ Created(snapshots'[i].accounts)
           /\ Grounded(snapshots'[i].reads, snapshots'[i].writes, observed', missed')
  BY SMTT(60) DEF SimInv, Sound, Grounded

\* The snapshots of the open calls still hold what the callers saw.
LEMMA SnapshotsStayFaithful ==
  ASSUME SimInv, snapshots' = snapshots, frames' = frames, fetchErrors => fetchErrors'
  PROVE  \A i \in 1..Len(frames') :
           /\ snapshots'[frames'[i].revid].writes = Written(i - 1)'
           /\ fetchErrors' \/ Moves(snapshots'[frames'[i].revid].accounts, Moved(i - 1)')
  BY DEF SimInv, Faithful, Written, Moved

LEMMA ViewTypes ==
  ASSUME frames \in Seq(Frame), NEW i \in 0..Len(frames)
  PROVE  Moved(i) \in [Addrs -> Int] /\ Written(i) \in Maps(Keys, Values)
<1>1. CASE i = 0
  <2>1. NoMoves \in [Addrs -> Int]
    BY DEF NoMoves
  <2>2. Nothing \in Maps(Keys, Values)
    BY MapsAre, ZenonT(60) DEF Nothing
  <2>. QED  BY <1>1, <2>1, <2>2, SMTT(60) DEF Moved, Written
<1>2. CASE i # 0
  <2>1. frames[i] \in Frame
    BY <1>2
  <2>. QED  BY <1>2, <2>1 DEF Moved, Written, Frame
<1>. QED  BY <1>1, <1>2, SMTT(60)

\* A step that leaves the open calls and their snapshots alone.
LEMMA InsideACall ==
  ASSUME SimInv, UNCHANGED <<writes, writeOlds, snapshots, frames>>,
         accounts' \in Maps(Addrs, Account), Created(accounts'),
         \A moved \in [Addrs -> Int] : Moves(accounts, moved) => Moves(accounts', moved),
         reads' \in Maps(Keys, Values), Grounded(reads', writes', observed', missed'),
         observed \subseteq observed', missed => missed', fetchErrors => fetchErrors',
         status' \in {"running", "success", "failed"},
         status' = "running" => frames # <<>>,
         status' = "success" => ~fetchErrors'
  PROVE  SimInv'
<1>1. Types'
  BY SMTT(60) DEF SimInv, Types
<1>2. Sound'
  BY SnapshotsStaySound, SMTT(60) DEF Sound
<1>3. Nested'
  BY SMTT(60) DEF SimInv, Nested
<1>4. Faithful'
  <2>1. writes' = Written(Len(frames))'
    BY SMTT(60) DEF SimInv, Faithful, Written
  <2>2. Moved(Len(frames)) \in [Addrs -> Int]
    BY ViewTypes, SMTT(60) DEF SimInv, Types
  <2>3. Moved(Len(frames))' = Moved(Len(frames))
    BY Zenon DEF Moved
  <2>4. fetchErrors' \/ Moves(accounts', Moved(Len(frames))')
    BY <2>2, <2>3, Zenon DEF SimInv, Faithful
  <2>. QED  BY <2>1, <2>4, SnapshotsStayFaithful, SMTT(60) DEF Faithful
<1>. QED  BY <1>1, <1>2, <1>3, <1>4, SMTT(60) DEF SimInv

LEMMA GetStateStep ==
  ASSUME SimInv, NEW k \in Keys, GetState(k)
  PROVE  SimInv'
<1>1. PICK r \in ReadSlot(k) : Fetched(r)
  BY DEF GetState
<1>2. AfterRead(k, r)
  BY ReadSlotReads, SMTT(60)
<1>3. /\ UNCHANGED <<writes, writeOlds, snapshots, status, frames>>
      /\ status = "running" /\ frames # <<>>
  BY DEF GetState, Executing
<1>4. (missed => missed') /\ (fetchErrors => fetchErrors') /\ (missed \/ r.missed => missed')
  BY <1>1, ZenonT(60) DEF Fetched
<1>5. /\ accounts' \in Maps(Addrs, Account)
      /\ Created(accounts')
      /\ \A moved \in [Addrs -> Int] : Moves(accounts, moved) => Moves(accounts', moved)
      /\ reads' \in Maps(Keys, Values)
      /\ observed \subseteq observed'
  BY <1>1, <1>2, SMTT(60) DEF Fetched, AfterRead
<1>6. Grounded(reads', writes', observed', missed')
  <2>1. DOMAIN writes' \subseteq DOMAIN reads'
    BY <1>1, <1>2, <1>3, SMTT(60) DEF SimInv, Sound, Grounded, Fetched, AfterRead
  <2>2. \A x \in DOMAIN reads' : <<x, reads'[x]>> \in observed' \/ (missed' /\ reads'[x] = 0)
    BY <1>1, <1>2, <1>4, ZenonT(60) DEF Fetched, AfterRead
  <2>. QED  BY <2>1, <2>2 DEF Grounded
<1>. QED  BY <1>3, <1>4, <1>5, <1>6, InsideACall, Zenon

LEMMA SetStateStep ==
  ASSUME SimInv, NEW k \in Keys, NEW v \in Values, SetState(k, v)
  PROVE  SimInv'
<1>. DEFINE n == Len(frames)
<1>1. PICK r \in ReadSlot(k) :
        /\ Fetched(r)
        /\ writeOlds' = IF k \in DOMAIN writeOlds THEN writeOlds
                        ELSE Store(writeOlds, k, r.value)
  BY DEF SetState
<1>2. AfterRead(k, r)
  BY ReadSlotReads, SMTT(60)
<1>3. /\ UNCHANGED <<snapshots, status>>
      /\ writes' = Store(writes, k, v)
      /\ frames' = [frames EXCEPT ![n].written = Store(@, k, v)]
      /\ status = "running" /\ frames # <<>>
  BY DEF SetState, Executing
<1>4. (missed => missed') /\ (fetchErrors => fetchErrors') /\ (missed \/ r.missed => missed')
  BY <1>1, ZenonT(60) DEF Fetched
<1>5. /\ accounts' \in Maps(Addrs, Account)
      /\ Created(accounts')
      /\ \A moved \in [Addrs -> Int] : Moves(accounts, moved) => Moves(accounts', moved)
      /\ reads' \in Maps(Keys, Values)
      /\ observed \subseteq observed'
  BY <1>1, <1>2, SMTT(60) DEF Fetched, AfterRead
<1>6. /\ frames \in Seq(Frame) /\ n \in Nat \ {0} /\ frames[n] \in Frame
      /\ writes = frames[n].written
  BY <1>3, SMTT(60) DEF SimInv, Types, Faithful, Written
<1>7. writes' \in Maps(Keys, Values) /\ writeOlds' \in Maps(Keys, Values)
  <2>1. writes \in Maps(Keys, Values) /\ writeOlds \in Maps(Keys, Values) /\ r.value \in Values
    BY <1>2, SMTT(60) DEF SimInv, Types, AfterRead
  <2>2. Store(writes, k, v) \in Maps(Keys, Values)
    BY <2>1, StoreSlot, SMTT(60)
  <2>3. Store(writeOlds, k, r.value) \in Maps(Keys, Values)
    BY <2>1, StoreSlot, SMTT(60)
  <2>. QED  BY <1>1, <1>3, <2>1, <2>2, <2>3, SMTT(60)
<1>8. frames' = [frames EXCEPT ![n] = [frames[n] EXCEPT !.written = writes']]
  BY <1>3, <1>6, SMTT(60)
<1>9. [frames[n] EXCEPT !.written = writes'] \in Frame
  BY <1>6, <1>7, ZenonT(60) DEF Frame
<1>10. /\ frames' \in Seq(Frame) /\ Len(frames') = n
       /\ frames'[n].written = writes'
       /\ frames'[n].moved = frames[n].moved
       /\ \A i \in 1..n : frames'[i].revid = frames[i].revid
       /\ \A i \in 1..(n - 1) : frames'[i] = frames[i]
  <2>1. frames' \in Seq(Frame) /\ Len(frames') = n
    BY <1>6, <1>8, <1>9, SMTT(60)
  <2>2. frames'[n] = [frames[n] EXCEPT !.written = writes']
    BY <1>6, <1>8, SMTT(60)
  <2>3. \A i \in 1..(n - 1) : frames'[i] = frames[i]
    BY <1>6, <1>8, SMTT(60)
  <2>4. /\ frames'[n].written = writes'
        /\ frames'[n].moved = frames[n].moved
        /\ frames'[n].revid = frames[n].revid
    BY <1>6, <2>2, Zenon DEF Frame
  <2>5. \A i \in 1..n : i = n \/ i \in 1..(n - 1)
    BY <1>6, SMTT(60)
  <2>. QED  BY <2>1, <2>3, <2>4, <2>5
<1>11. Types'
  BY <1>3, <1>5, <1>7, <1>10, Zenon DEF SimInv, Types
<1>12. Sound'
  <2>1. DOMAIN writes' \subseteq DOMAIN reads'
    <3>1. DOMAIN writes' = DOMAIN writes \cup {k}
      BY <1>3, SMTT(60) DEF Store
    <3>2. k \in DOMAIN reads' /\ DOMAIN reads \subseteq DOMAIN reads'
      BY <1>1, <1>2, SMTT(60) DEF Fetched, AfterRead
    <3>. QED  BY <3>1, <3>2, SMTT(60) DEF SimInv, Sound, Grounded
  <2>2. \A x \in DOMAIN reads' : <<x, reads'[x]>> \in observed' \/ (missed' /\ reads'[x] = 0)
    BY <1>1, <1>2, <1>4, ZenonT(60) DEF Fetched, AfterRead
  <2>3. Grounded(reads', writes', observed', missed')
    BY <2>1, <2>2, SMTT(60) DEF Grounded
  <2>. QED  BY <1>3, <1>4, <1>5, <2>3, SnapshotsStaySound, SMTT(60) DEF Sound
<1>13. Nested'
  BY <1>3, <1>10, SMTT(60) DEF SimInv, Nested
<1>14. Faithful'
  <2>1. writes' = Written(Len(frames))'
    BY <1>6, <1>10, SMTT(60) DEF Written
  <2>2. Moved(n) \in [Addrs -> Int]
    BY <1>6, ViewTypes, SMTT(60)
  <2>3. Moved(Len(frames))' = Moved(n)
    BY <1>6, <1>10, Zenon DEF Moved
  <2>4. fetchErrors' \/ Moves(accounts', Moved(Len(frames))')
    BY <1>4, <1>5, <2>2, <2>3, ZenonT(60) DEF SimInv, Faithful
  <2>5. ASSUME NEW i \in 1..n
        PROVE  /\ snapshots'[frames'[i].revid].writes = Written(i - 1)'
               /\ fetchErrors' \/ Moves(snapshots'[frames'[i].revid].accounts, Moved(i - 1)')
    <3>1. Written(i - 1)' = Written(i - 1) /\ Moved(i - 1)' = Moved(i - 1)
      BY <1>6, <1>10 DEF Written, Moved
    <3>2. snapshots'[frames'[i].revid] = snapshots[frames[i].revid]
      BY <1>3, <1>10, Zenon
    <3>. QED  BY <1>4, <3>1, <3>2, SMTT(60) DEF SimInv, Faithful
  <2>. QED  BY <1>10, <2>1, <2>4, <2>5, Zenon DEF Faithful
<1>15. frames' # <<>>
  BY <1>6, <1>10, Zenon
<1>. QED  BY <1>3, <1>11, <1>12, <1>13, <1>14, <1>15, SMTT(60) DEF SimInv

\* What AddBalance changes: one balance, of an account that is there.
Added(accts, a, n, res) ==
  /\ res \in Maps(Addrs, Account)
  /\ DOMAIN res = DOMAIN accts
  /\ \A x \in DOMAIN accts :
       /\ res[x].balance = accts[x].balance + (IF x = a THEN n ELSE 0)
       /\ res[x].original = accts[x].original
       /\ res[x].created = accts[x].created

LEMMA AddBalanceAdds ==
  ASSUME NEW accts \in Maps(Addrs, Account), NEW a \in Addrs, NEW n \in Int
  PROVE  Added(accts, a, n, AddBalance(accts, a, n))
<1>. DEFINE res == AddBalance(accts, a, n)
<1>0. accts \in [DOMAIN accts -> Account] /\ DOMAIN accts \subseteq Addrs
  BY MapsAre, SMTT(60)
<1>1. CASE a \in DOMAIN accts
  <2>1. accts[a] \in Account
    BY <1>0, <1>1, SMTT(60)
  <2>. DEFINE acct == [accts[a] EXCEPT !.balance = @ + n]
  <2>2. acct \in Account /\ acct.balance = accts[a].balance + n
        /\ acct.original = accts[a].original /\ acct.created = accts[a].created
    BY <2>1, SMTT(60) DEF Account
  <2>3. res = [accts EXCEPT ![a] = acct]
    BY <1>1, Zenon DEF AddBalance
  <2>. HIDE DEF acct, res
  <2>4. /\ res \in [DOMAIN accts -> Account] /\ DOMAIN res = DOMAIN accts
        /\ res[a] = acct
        /\ \A x \in DOMAIN accts \ {a} : res[x] = accts[x]
    BY <1>0, <1>1, <2>2, <2>3, Zenon
  <2>5. res \in Maps(Addrs, Account)
    BY <1>0, <2>4, MapsAre, SMTT(60)
  <2>6. \A x \in DOMAIN accts : accts[x].balance \in Int
    BY <1>0, SMTT(60) DEF Account
  <2>7. ASSUME NEW x \in DOMAIN accts
        PROVE  /\ res[x].balance = accts[x].balance + (IF x = a THEN n ELSE 0)
               /\ res[x].original = accts[x].original
               /\ res[x].created = accts[x].created
    <3>1. CASE x = a
      BY <2>2, <2>4, <3>1, SMTT(60)
    <3>2. CASE x # a
      BY <2>4, <2>6, <3>2, SMTT(60)
    <3>. QED  BY <3>1, <3>2, SMTT(60)
  <2>8. Added(accts, a, n, res)
    BY <2>4, <2>5, <2>7, SMTT(60) DEF Added
  <2>. QED  BY <2>8, SMTT(60) DEF res
<1>2. CASE a \notin DOMAIN accts
  <2>1. res = accts
    BY <1>2, SMTT(60) DEF AddBalance
  <2>2. \A x \in DOMAIN accts : accts[x].balance \in Int
    BY <1>0, SMTT(60) DEF Account
  <2>. HIDE DEF res
  <2>3. Added(accts, a, n, res)
    BY <1>2, <2>1, <2>2, SMTT(60) DEF Added
  <2>. QED  BY <2>3 DEF res
<1>. QED  BY <1>1, <1>2, Zenon

\* A transfer between two accounts that are there moves n from one to the other.
LEMMA TransferMoves ==
  ASSUME NEW accts \in Maps(Addrs, Account), NEW paid, NEW res,
         NEW from \in Addrs, NEW to \in Addrs, NEW n \in Int,
         NEW moved \in [Addrs -> Int],
         Added(accts, from, -n, paid), Added(paid, to, n, res),
         from \in DOMAIN accts, to \in DOMAIN accts, Moves(accts, moved)
  PROVE  Moves(res, Transferred(moved, from, to, n))
<1>0. \A x \in DOMAIN accts : accts[x].balance \in Int /\ accts[x].original \in Int
  <2>1. accts \in [DOMAIN accts -> Account]
    BY MapsAre, SMTT(60)
  <2>. QED  BY <2>1, SMTT(60) DEF Account
<1>1. \A x \in Addrs : Transferred(moved, from, to, n)[x] =
        moved[x] + (IF x = from THEN -n ELSE 0) + (IF x = to THEN n ELSE 0)
  BY DEF Transferred
<1>2. ASSUME NEW x \in Addrs
      PROVE  IF x \in DOMAIN res
             THEN res[x].created \/ Transferred(moved, from, to, n)[x] = res[x].balance - res[x].original
             ELSE Transferred(moved, from, to, n)[x] = 0
  <2>1. CASE x \in DOMAIN accts
    <3>1. /\ x \in DOMAIN paid /\ x \in DOMAIN res
          /\ res[x].created = accts[x].created
          /\ res[x].original = accts[x].original
          /\ paid[x].balance = accts[x].balance + (IF x = from THEN -n ELSE 0)
          /\ res[x].balance = paid[x].balance + (IF x = to THEN n ELSE 0)
      BY <2>1, SMTT(60) DEF Added
    <3>2. accts[x].created \/ moved[x] = accts[x].balance - accts[x].original
      BY <2>1, SMTT(60) DEF Moves
    <3>3. CASE accts[x].created
      BY <3>1, <3>3
    <3>4. CASE moved[x] = accts[x].balance - accts[x].original
      BY <1>0, <1>1, <2>1, <3>1, <3>4, SMTT(60)
    <3>. QED  BY <3>2, <3>3, <3>4, SMTT(60)
  <2>2. CASE x \notin DOMAIN accts
    <3>1. x \notin DOMAIN res
      BY <2>2, SMTT(60) DEF Added
    <3>2. moved[x] = 0 /\ x # from /\ x # to
      BY <2>2, SMTT(60) DEF Moves
    <3>. QED  BY <1>1, <3>1, <3>2, SMTT(60)
  <2>. QED  BY <2>1, <2>2
<1>. QED  BY <1>2, Zenon DEF Moves

\* The accounts that the EVM's precautions before a transfer leave: those of t, and
\* an empty one for a recipient that does not exist.
AfterRecipient(t, to, n, rec) ==
  /\ rec \in Maps(Addrs, Account)
  /\ \/ rec = t.accts
     \/ /\ n = 1 /\ to \notin Contracts /\ t.balance = 0
        /\ DOMAIN rec = DOMAIN t.accts \cup {to}
        /\ rec[to].balance = 0 /\ rec[to].original = 0 /\ rec[to].created = TRUE
        /\ \A x \in DOMAIN t.accts \ {to} : rec[x] = t.accts[x]

LEMMA RecipientIsThere ==
  ASSUME NEW t, t.accts \in Maps(Addrs, Account), NEW to \in Addrs, NEW n \in {0, 1}
  PROVE  AfterRecipient(t, to, n, Recipient(t, to, n))
<1>. DEFINE acct == [balance |-> 0, original |-> 0, created |-> TRUE]
            rec == Recipient(t, to, n)
<1>1. CASE n > 0 /\ to \notin Contracts /\ t.balance = 0
  <2>1. acct \in Account /\ acct.balance = 0 /\ acct.original = 0 /\ acct.created = TRUE
    BY DEF Account
  <2>2. rec = Store(t.accts, to, acct)
    BY <1>1, SMTT(60) DEF Recipient, CreateAccount
  <2>. HIDE DEF acct, rec
  <2>3. rec \in Maps(Addrs, Account)
    BY <2>1, <2>2, StoreAccount, SMTT(60)
  <2>4. /\ DOMAIN rec = DOMAIN t.accts \cup {to} /\ rec[to] = acct
        /\ \A x \in DOMAIN t.accts \ {to} : rec[x] = t.accts[x]
    BY <2>2, SMTT(60) DEF Store
  <2>5. AfterRecipient(t, to, n, rec)
    BY <1>1, <2>1, <2>3, <2>4, SMTT(60) DEF AfterRecipient
  <2>. QED  BY <2>5, SMTT(60) DEF rec
<1>2. CASE ~(n > 0 /\ to \notin Contracts /\ t.balance = 0)
  <2>1. rec = t.accts
    BY <1>2, Zenon DEF Recipient
  <2>. HIDE DEF rec
  <2>2. AfterRecipient(t, to, n, rec)
    BY <2>1, Zenon DEF AfterRecipient
  <2>. QED  BY <2>2, Zenon DEF rec
<1>. QED  BY <1>1, <1>2, SMTT(60)

\* A sender has no account that the EVM created: it has code, or the simulation has
\* only just begun.
LEMMA SenderNotCreated ==
  ASSUME SimInv, NEW from \in Addrs, MayCall(from)
  PROVE  from \in DOMAIN accounts => accounts[from].created = FALSE
<1>1. CASE frames = <<>>
  BY <1>1 DEF SimInv, MayCall, Nothing
<1>2. CASE from \in Contracts
  <2>1. from \in DOMAIN accounts => accounts[from] \in Account
    BY MapsAre DEF SimInv, Types
  <2>. QED  BY <1>2, <2>1 DEF SimInv, Sound, Created, Account
<1>. QED  BY <1>1, <1>2, ZenonT(60) DEF MayCall

\* What opening a call leaves of the accounts before: those for the snapshot, in
\* kept, and those after the transfer, in res.
AfterCall(from, to, n, kept, res, failed) ==
  /\ kept \in Maps(Addrs, Account) /\ Created(kept)
  /\ \A moved \in [Addrs -> Int] : Moves(accounts, moved) => Moves(kept, moved)
  /\ res \in Maps(Addrs, Account) /\ Created(res)
  /\ \A moved \in [Addrs -> Int] :
       failed = FALSE /\ Moves(accounts, moved) => Moves(res, Transferred(moved, from, to, n))

\* A call that transfers nothing.
LEMMA CallWithoutValue ==
  ASSUME SimInv, NEW from \in Addrs, NEW to \in Addrs, NEW n \in Int, n = 0,
         NEW t \in GetOrFetchAccount(accounts, to),
         NEW f \in GetOrFetchAccount(Recipient(t, to, n), from),
         NEW failed, failed = FALSE => t.failed = FALSE /\ f.failed = FALSE
  PROVE  AfterCall(from, to, n, accounts, AddBalance(AddBalance(f.accts, from, -n), to, n), failed)
<1>. DEFINE paid == AddBalance(f.accts, from, -n)
            res == AddBalance(paid, to, n)
<1>0. accounts \in Maps(Addrs, Account) /\ Created(accounts)
  BY SMTT(60) DEF SimInv, Types, Sound
<1>1. AfterFetch(accounts, to, t) /\ t.accts \in Maps(Addrs, Account)
  BY <1>0, FetchAdds, ZenonT(60) DEF AfterFetch
<1>2. /\ Created(t.accts)
      /\ \A moved \in [Addrs -> Int] : Moves(accounts, moved) => Moves(t.accts, moved)
  BY <1>0, FetchMovesNothing
<1>3. f \in GetOrFetchAccount(t.accts, from)
  BY DEF Recipient
<1>4. AfterFetch(t.accts, from, f) /\ f.accts \in Maps(Addrs, Account)
  BY <1>1, <1>3, FetchAdds, ZenonT(60) DEF AfterFetch
<1>5. /\ Created(f.accts)
      /\ \A moved \in [Addrs -> Int] : Moves(t.accts, moved) => Moves(f.accts, moved)
  BY <1>1, <1>2, <1>3, FetchMovesNothing
<1>6. Added(f.accts, from, -n, paid)
  BY <1>4, AddBalanceAdds
<1>. HIDE DEF paid
<1>7. paid \in Maps(Addrs, Account)
  BY <1>6, SMTT(60) DEF Added
<1>8. Added(paid, to, n, res)
  BY <1>7, AddBalanceAdds, SMTT(60)
<1>. HIDE DEF res
<1>9. \A x \in DOMAIN f.accts : f.accts[x].balance \in Int
  <2>1. f.accts \in [DOMAIN f.accts -> Account]
    BY <1>4, MapsAre, SMTT(60)
  <2>. QED  BY <2>1, SMTT(60) DEF Account
<1>10. Created(res)
  <2>1. DOMAIN res = DOMAIN f.accts
    BY <1>6, <1>8, SMTT(60) DEF Added
  <2>2. \A x \in DOMAIN f.accts : /\ res[x].created = f.accts[x].created
                                  /\ res[x].original = f.accts[x].original
                                  /\ res[x].balance = f.accts[x].balance
    BY <1>6, <1>8, <1>9, SMTT(60) DEF Added
  <2>. QED  BY <1>5, <2>1, <2>2, SMTT(60) DEF Created
<1>11. ASSUME NEW moved \in [Addrs -> Int], failed = FALSE, Moves(accounts, moved)
       PROVE  Moves(res, Transferred(moved, from, to, n))
  <2>1. Moves(f.accts, moved)
    BY <1>2, <1>5, <1>11, SMTT(60)
  <2>2. from \in DOMAIN f.accts /\ to \in DOMAIN f.accts
    BY <1>1, <1>4, <1>11, SMTT(60) DEF AfterFetch
  <2>. QED  BY <1>4, <1>6, <1>8, <2>1, <2>2, TransferMoves, Zenon
<1>12. res \in Maps(Addrs, Account)
  BY <1>8, SMTT(60) DEF Added
<1>13. AfterCall(from, to, n, accounts, res, failed)
  BY <1>0, <1>10, <1>11, <1>12, Zenon DEF AfterCall
<1>. QED  BY <1>13 DEF res, paid

\* A call that transfers one unit, which the sender has.
LEMMA CallWithValue ==
  ASSUME SimInv, NEW from \in Addrs, NEW to \in Addrs, NEW n \in Int, n = 1, MayCall(from),
         NEW p \in GetOrFetchAccount(accounts, from), p.balance >= n,
         NEW t \in GetOrFetchAccount(p.accts, to),
         NEW f \in GetOrFetchAccount(Recipient(t, to, n), from),
         NEW failed, failed = FALSE => t.failed = FALSE
  PROVE  AfterCall(from, to, n, p.accts, AddBalance(AddBalance(f.accts, from, -n), to, n), failed)
<1>. DEFINE rec == Recipient(t, to, n)
            paid == AddBalance(f.accts, from, -n)
            res == AddBalance(paid, to, n)
<1>0. accounts \in Maps(Addrs, Account) /\ Created(accounts)
  BY SMTT(60) DEF SimInv, Types, Sound
<1>1. AfterFetch(accounts, from, p) /\ p.accts \in Maps(Addrs, Account)
  BY <1>0, FetchAdds, ZenonT(60) DEF AfterFetch
<1>2. /\ Created(p.accts)
      /\ \A moved \in [Addrs -> Int] : Moves(accounts, moved) => Moves(p.accts, moved)
  BY <1>0, FetchMovesNothing
<1>3. from \in DOMAIN p.accts /\ p.accts[from].balance >= 1 /\ p.accts[from].created = FALSE
  <2>1. p.balance >= 1
    BY SMTT(60)
  <2>2. from \in DOMAIN accounts => accounts[from].created = FALSE
    BY SenderNotCreated, ZenonT(60)
  <2>3. p.balance # 0
    BY <2>1
  <2>4. from \in DOMAIN p.accts /\ p.balance = p.accts[from].balance
    BY <1>1, <2>3 DEF AfterFetch
  <2>5. p.accts[from].created = FALSE
    BY <1>1, <2>2, <2>3, ZenonT(60) DEF AfterFetch
  <2>. QED  BY <2>1, <2>4, <2>5
<1>4. AfterFetch(p.accts, to, t) /\ t.accts \in Maps(Addrs, Account)
  BY <1>1, FetchAdds, ZenonT(60) DEF AfterFetch
<1>5. /\ Created(t.accts)
      /\ \A moved \in [Addrs -> Int] : Moves(p.accts, moved) => Moves(t.accts, moved)
  BY <1>1, <1>2, FetchMovesNothing
<1>6. from \in DOMAIN t.accts /\ t.accts[from] = p.accts[from]
  BY <1>3, <1>4, SMTT(60) DEF AfterFetch
<1>7. AfterRecipient(t, to, n, rec)
  BY <1>4, RecipientIsThere, SMTT(60)
<1>. HIDE DEF rec
<1>8. rec \in Maps(Addrs, Account) /\ from \in DOMAIN rec /\ rec[from].created = FALSE
  <2>1. t.balance = 0 => to # from
    BY <1>3, <1>4, SMTT(60) DEF AfterFetch
  <2>. QED  BY <1>3, <1>6, <1>7, <2>1, Zenon DEF AfterRecipient
<1>9. AfterFetch(rec, from, f) /\ f.accts \in Maps(Addrs, Account)
  <2>1. f \in GetOrFetchAccount(rec, from)
    BY Zenon DEF rec
  <2>. QED  BY <1>8, <2>1, FetchAdds, ZenonT(60) DEF AfterFetch
<1>10. DOMAIN f.accts = DOMAIN rec /\ \A x \in DOMAIN rec : f.accts[x] = rec[x]
  BY <1>8, <1>9, Zenon DEF AfterFetch
<1>11. Added(f.accts, from, -n, paid)
  BY <1>9, AddBalanceAdds
<1>. HIDE DEF paid
<1>12. paid \in Maps(Addrs, Account)
  BY <1>11, SMTT(60) DEF Added
<1>13. Added(paid, to, n, res)
  BY <1>12, AddBalanceAdds, SMTT(60)
<1>. HIDE DEF res
<1>14. \A x \in DOMAIN rec : rec[x].balance \in Int
  <2>1. rec \in [DOMAIN rec -> Account]
    BY <1>8, MapsAre, SMTT(60)
  <2>. QED  BY <2>1, SMTT(60) DEF Account
<1>15. ASSUME NEW x \in DOMAIN res, res[x].created
       PROVE  x \notin Contracts /\ res[x].original = 0 /\ res[x].balance > 0
  <2>1. /\ x \in DOMAIN rec /\ rec[x].created
        /\ res[x].original = rec[x].original
        /\ x # from => res[x].balance = rec[x].balance + (IF x = to THEN 1 ELSE 0)
    <3>1. /\ x \in DOMAIN rec
          /\ res[x].original = rec[x].original
          /\ res[x].created = rec[x].created
          /\ paid[x].balance = rec[x].balance + (IF x = from THEN -n ELSE 0)
          /\ res[x].balance = paid[x].balance + (IF x = to THEN n ELSE 0)
      BY <1>10, <1>11, <1>13, <1>15, ZenonT(60) DEF Added
    <3>. QED  BY <1>14, <1>15, <3>1
  <2>2. x # from
    BY <1>8, <2>1
  <2>3. CASE x = to /\ rec # t.accts
    BY <1>7, <2>1, <2>2, <2>3, SMTT(60) DEF AfterRecipient
  <2>4. CASE ~(x = to /\ rec # t.accts)
    <3>1. x \in DOMAIN t.accts /\ rec[x] = t.accts[x]
      BY <1>7, <2>1, <2>4, SMTT(60) DEF AfterRecipient
    <3>2. x \notin Contracts /\ rec[x].original = 0 /\ rec[x].balance > 0
      BY <1>5, <2>1, <3>1, Zenon DEF Created
    <3>. QED  BY <1>14, <2>1, <2>2, <3>2
  <2>. QED  BY <2>3, <2>4
<1>16. ASSUME NEW moved \in [Addrs -> Int], failed = FALSE, Moves(accounts, moved)
       PROVE  Moves(res, Transferred(moved, from, to, n))
  <2>1. Moves(t.accts, moved)
    BY <1>2, <1>5, <1>16, Zenon
  <2>2. to \in DOMAIN t.accts
    BY <1>4, <1>16, Zenon DEF AfterFetch
  <2>3. /\ DOMAIN f.accts = DOMAIN t.accts
        /\ \A x \in DOMAIN t.accts : f.accts[x].created \/ f.accts[x] = t.accts[x]
    BY <1>7, <1>10, <2>2, SMTT(60) DEF AfterRecipient
  <2>4. Moves(f.accts, moved)
    BY <2>1, <2>3, Zenon DEF Moves
  <2>. QED  BY <1>6, <1>9, <1>11, <1>13, <2>2, <2>3, <2>4, TransferMoves, SMTT(60)
<1>17. res \in Maps(Addrs, Account) /\ Created(res)
  BY <1>13, <1>15, SMTT(60) DEF Added, Created
<1>18. AfterCall(from, to, n, p.accts, res, failed)
  BY <1>1, <1>2, <1>16, <1>17, ZenonT(60) DEF AfterCall
<1>. QED  BY <1>18, SMTT(60) DEF res, paid

LEMMA CallStep ==
  ASSUME SimInv, NEW from \in Addrs, NEW to \in Addrs, NEW n \in {0, 1}, Call(from, to, n)
  PROVE  SimInv'
<1>. DEFINE h == Len(frames)
            frame == [revid |-> Len(snapshots) + 1, written |-> View.written,
                      moved |-> Transferred(View.moved, from, to, n)]
<1>1. PICK p \in IF n = 0 THEN {[accts |-> accounts, balance |-> 0, failed |-> FALSE]}
                 ELSE GetOrFetchAccount(accounts, from) :
        /\ p.balance >= n
        /\ snapshots' = Snapshot(p.accts)
        /\ \E t \in GetOrFetchAccount(p.accts, to) :
           \E f \in GetOrFetchAccount(Recipient(t, to, n), from) :
             /\ accounts' = AddBalance(AddBalance(f.accts, from, -n), to, n)
             /\ fetchErrors' = (fetchErrors \/ p.failed \/ t.failed \/ f.failed)
             /\ missed' = (missed \/ p.failed \/ t.failed \/ f.failed)
  BY DEF Call
<1>2. PICK t \in GetOrFetchAccount(p.accts, to) :
           \E f \in GetOrFetchAccount(Recipient(t, to, n), from) :
             /\ accounts' = AddBalance(AddBalance(f.accts, from, -n), to, n)
             /\ fetchErrors' = (fetchErrors \/ p.failed \/ t.failed \/ f.failed)
             /\ missed' = (missed \/ p.failed \/ t.failed \/ f.failed)
  BY <1>1, ZenonT(60)
<1>3. PICK f \in GetOrFetchAccount(Recipient(t, to, n), from) :
             /\ accounts' = AddBalance(AddBalance(f.accts, from, -n), to, n)
             /\ fetchErrors' = (fetchErrors \/ p.failed \/ t.failed \/ f.failed)
             /\ missed' = (missed \/ p.failed \/ t.failed \/ f.failed)
  BY <1>2, ZenonT(60)
<1>4. /\ MayCall(from) /\ status = "running"
      /\ frames' = Append(frames, frame)
      /\ UNCHANGED <<reads, writes, writeOlds, status, observed>>
  BY DEF Call, MayCall
<1>5. (missed => missed') /\ (fetchErrors => fetchErrors')
  BY <1>3, ZenonT(60)
<1>6. AfterCall(from, to, n, p.accts, accounts', fetchErrors')
  <2>0. n \in Int
    OBVIOUS
  <2>1. CASE n = 0
    <3>1. p.accts = accounts
      BY <1>1, <2>1
    <3>2. t \in GetOrFetchAccount(accounts, to)
      BY <1>2, <3>1, Zenon
    <3>3. AfterFetch(accounts, to, t)
      BY <3>2, FetchAdds, SMTT(60) DEF SimInv, Types
    <3>4. Recipient(t, to, n) = t.accts /\ t.accts \in Maps(Addrs, Account)
      BY <2>1, <3>3, SMTT(60) DEF Recipient, AfterFetch
    <3>5. f \in GetOrFetchAccount(t.accts, from)
      BY <3>4, Zenon
    <3>6. AfterFetch(t.accts, from, f)
      BY <3>4, <3>5, FetchAdds, ZenonT(60)
    <3>7. (t.failed = TRUE \/ t.failed = FALSE) /\ (f.failed = TRUE \/ f.failed = FALSE)
      BY <3>3, <3>6, SMTT(60) DEF AfterFetch
    <3>8. fetchErrors' = FALSE => t.failed = FALSE /\ f.failed = FALSE
      BY <1>3, <3>7, ZenonT(60)
    <3>9. PICK failed : failed = fetchErrors'
      BY SMTT(60)
    <3>10. failed = FALSE => t.failed = FALSE /\ f.failed = FALSE
      BY <3>8, <3>9, SMTT(60)
    <3>11. AfterCall(from, to, n, accounts,
                     AddBalance(AddBalance(f.accts, from, -n), to, n), failed)
      BY <2>0, <2>1, <3>2, <3>10, CallWithoutValue, Zenon
    <3>. QED  BY <1>3, <3>1, <3>9, <3>11, Zenon
  <2>2. CASE n = 1
    <3>1. p \in GetOrFetchAccount(accounts, from)
      BY <1>1, <2>2
    <3>2. AfterFetch(accounts, from, p)
      BY <3>1, FetchAdds, SMTT(60) DEF SimInv, Types
    <3>3. p.accts \in Maps(Addrs, Account)
      BY <3>2, SMTT(60) DEF AfterFetch
    <3>4. AfterFetch(p.accts, to, t)
      BY <3>3, FetchAdds, SMTT(60)
    <3>5. t.failed = TRUE \/ t.failed = FALSE
      BY <3>4, SMTT(60) DEF AfterFetch
    <3>6. fetchErrors' = FALSE => t.failed = FALSE
      BY <1>3, <3>5, ZenonT(60)
    <3>7. PICK failed : failed = fetchErrors'
      BY SMTT(60)
    <3>8. failed = FALSE => t.failed = FALSE
      BY <3>6, <3>7, SMTT(60)
    <3>9. AfterCall(from, to, n, p.accts,
                    AddBalance(AddBalance(f.accts, from, -n), to, n), failed)
      BY <1>1, <1>4, <2>0, <2>2, <3>1, <3>8, CallWithValue, ZenonT(60)
    <3>. QED  BY <1>3, <3>7, <3>9, Zenon
  <2>. QED  BY <2>1, <2>2, SMTT(60)
<1>7. /\ frames \in Seq(Frame) /\ snapshots \in Seq(Taken)
      /\ h \in Nat /\ Len(snapshots) \in Nat
      /\ reads \in Maps(Keys, Values) /\ writes \in Maps(Keys, Values)
  BY DEF SimInv, Types
<1>8. View.written = Written(h) /\ View.moved = Moved(h)
  BY <1>7 DEF View, Written, Moved
<1>9. Written(h) \in Maps(Keys, Values) /\ Moved(h) \in [Addrs -> Int]
  BY <1>7, ViewTypes
<1>. DEFINE taken == [accounts |-> p.accts, reads |-> reads, writes |-> writes]
<1>10. /\ taken \in Taken /\ taken.accounts = p.accts
       /\ taken.reads = reads /\ taken.writes = writes
  BY <1>6, <1>7, Zenon DEF Taken, AfterCall
<1>11. snapshots' = Append(snapshots, taken)
  BY <1>1, Zenon DEF Snapshot
<1>. HIDE DEF taken
<1>12. /\ frame \in Frame /\ frame.revid = Len(snapshots) + 1 /\ frame.written = Written(h)
       /\ frame.moved = Transferred(Moved(h), from, to, n)
  <2>1. Transferred(Moved(h), from, to, n) \in [Addrs -> Int]
    BY <1>9 DEF Transferred
  <2>. QED  BY <1>7, <1>8, <1>9, <2>1 DEF Frame
<1>. HIDE DEF frame
<1>13. /\ snapshots' \in Seq(Taken) /\ Len(snapshots') = Len(snapshots) + 1
       /\ snapshots'[Len(snapshots) + 1] = taken
       /\ \A i \in 1..Len(snapshots) : snapshots'[i] = snapshots[i]
  BY <1>7, <1>10, <1>11, SMTT(60)
<1>14. /\ frames' \in Seq(Frame) /\ Len(frames') = h + 1
       /\ frames'[h + 1] = frame
       /\ \A i \in 1..h : frames'[i] = frames[i]
  BY <1>4, <1>7, <1>12, SMTT(60)
<1>15. Types'
  BY <1>4, <1>6, <1>13, <1>14, SMTT(60) DEF SimInv, Types, AfterCall
<1>16. Sound'
  <2>1. Created(accounts') /\ Created(p.accts)
    BY <1>6, Zenon DEF AfterCall
  <2>2. Grounded(reads, writes, observed', missed')
    BY <1>4, <1>5, Zenon DEF SimInv, Sound, Grounded
  <2>3. ASSUME NEW i \in 1..Len(snapshots')
        PROVE  /\ Created(snapshots'[i].accounts)
               /\ Grounded(snapshots'[i].reads, snapshots'[i].writes, observed', missed')
    <3>1. CASE i = Len(snapshots) + 1
      BY <1>10, <1>13, <2>1, <2>2, <3>1, Zenon
    <3>2. CASE i # Len(snapshots) + 1
      <4>1. i \in 1..Len(snapshots) /\ snapshots'[i] = snapshots[i]
        BY <1>7, <1>13, <3>2, SMTT(60)
      <4>2. /\ Created(snapshots[i].accounts)
            /\ Grounded(snapshots[i].reads, snapshots[i].writes, observed, missed)
        BY <4>1, Zenon DEF SimInv, Sound
      <4>3. Grounded(snapshots[i].reads, snapshots[i].writes, observed', missed')
        BY <1>4, <1>5, <4>2 DEF Grounded
      <4>. QED  BY <4>1, <4>2, <4>3, Zenon
    <3>. QED  BY <3>1, <3>2, Zenon
  <2>4. reads' = reads /\ writes' = writes
    BY <1>4, SMTT(60)
  <2>. QED  BY <2>1, <2>2, <2>3, <2>4, ZenonT(60) DEF Sound
<1>17. Nested'
  <2>1. \A i \in 1..h : frames[i].revid \in 1..Len(snapshots)
    BY Zenon DEF SimInv, Nested
  <2>2. \A i, j \in 1..h : i < j => frames[i].revid < frames[j].revid
    BY Zenon DEF SimInv, Nested
  <2>3. \A i \in 1..(h + 1) : i \in 1..h \/ i = h + 1
    BY <1>7, SMTT(60)
  <2>4. \A i \in 1..(h + 1) : frames'[i].revid \in 1..(Len(snapshots) + 1)
    BY <1>7, <1>12, <1>14, <2>1, <2>3, SMTT(60)
  <2>5. ASSUME NEW i \in 1..(h + 1), NEW j \in 1..(h + 1), i < j
        PROVE  frames'[i].revid < frames'[j].revid
    <3>1. i \in 1..h /\ frames'[i].revid = frames[i].revid
      BY <1>7, <1>14, <2>5, SMTT(60)
    <3>2. CASE j = h + 1
      BY <1>7, <1>12, <1>14, <2>1, <3>1, <3>2, SMTT(60)
    <3>3. CASE j \in 1..h
      BY <1>14, <2>2, <2>5, <3>1, <3>3, SMTT(60)
    <3>. QED  BY <2>3, <3>2, <3>3, Zenon
  <2>. QED  BY <1>13, <1>14, <2>4, <2>5, Zenon DEF Nested
<1>18. Faithful'
  <2>1. Written(Len(frames))' = Written(h) /\ Moved(Len(frames))' = Transferred(Moved(h), from, to, n)
    BY <1>7, <1>12, <1>14 DEF Written, Moved
  <2>2. writes = Written(h) /\ (fetchErrors \/ Moves(accounts, Moved(h)))
    BY ZenonT(60) DEF SimInv, Faithful
  <2>3. fetchErrors' = TRUE \/ fetchErrors' = FALSE
    BY <1>3, ZenonT(60)
  <2>4. fetchErrors' \/ Moves(accounts', Moved(Len(frames))')
    BY <1>5, <1>6, <1>9, <2>1, <2>2, <2>3, ZenonT(60) DEF AfterCall
  <2>5. ASSUME NEW i \in 1..(h + 1)
        PROVE  /\ snapshots'[frames'[i].revid].writes = Written(i - 1)'
               /\ fetchErrors' \/ Moves(snapshots'[frames'[i].revid].accounts, Moved(i - 1)')
    <3>1. Written(i - 1)' = Written(i - 1) /\ Moved(i - 1)' = Moved(i - 1)
      <4>1. i - 1 = 0 \/ (i - 1 \in 1..h /\ i - 1 # 0)
        BY <1>7, SMTT(60)
      <4>. QED  BY <1>14, <4>1, Zenon DEF Written, Moved
    <3>2. CASE i = h + 1
      <4>0. i - 1 = h
        BY <1>7, <3>2
      <4>1. snapshots'[frames'[i].revid] = taken /\ i - 1 = h
        BY <1>12, <1>13, <1>14, <3>2, <4>0, Zenon
      <4>. QED  BY <1>5, <1>6, <1>9, <1>10, <2>2, <3>1, <4>1, ZenonT(60) DEF AfterCall
    <3>3. CASE i # h + 1
      <4>1. i \in 1..h /\ frames'[i] = frames[i]
        BY <1>7, <1>14, <3>3, SMTT(60)
      <4>2. frames[i].revid \in 1..Len(snapshots)
        BY <4>1, Zenon DEF SimInv, Nested
      <4>3. snapshots'[frames'[i].revid] = snapshots[frames[i].revid]
        BY <1>13, <4>1, <4>2, Zenon
      <4>. QED  BY <1>5, <3>1, <4>1, <4>3, Zenon DEF SimInv, Faithful
    <3>. QED  BY <3>2, <3>3, Zenon
  <2>. QED  BY <1>4, <1>14, <2>1, <2>2, <2>4, <2>5, Zenon DEF Faithful
<1>19. frames' # <<>>
  BY <1>7, <1>14, SMTT(60)
<1>. QED  BY <1>4, <1>15, <1>16, <1>17, <1>18, <1>19, SMTT(60) DEF SimInv

LEMMA CallWithoutFundsStep ==
  ASSUME SimInv, NEW from \in Addrs, CallWithoutFunds(from, 1)
  PROVE  SimInv'
<1>1. PICK f \in GetOrFetchAccount(accounts, from) :
        /\ accounts' = f.accts
        /\ fetchErrors' = (fetchErrors \/ f.failed)
        /\ missed' = (missed \/ f.failed)
  BY SMTT(60) DEF CallWithoutFunds
<1>2. /\ UNCHANGED <<reads, writes, writeOlds, snapshots, frames, observed>>
      /\ status' = IF frames = <<>> THEN "failed" ELSE "running"
  BY DEF CallWithoutFunds
<1>3. (missed => missed') /\ (fetchErrors => fetchErrors')
  BY <1>1, ZenonT(60)
<1>4. accounts \in Maps(Addrs, Account) /\ Created(accounts)
  BY SMTT(60) DEF SimInv, Types, Sound
<1>5. AfterFetch(accounts, from, f)
  BY <1>4, FetchAdds, SMTT(60)
<1>6. accounts' \in Maps(Addrs, Account)
  BY <1>1, <1>5, SMTT(60) DEF AfterFetch
<1>7. /\ Created(accounts')
      /\ \A moved \in [Addrs -> Int] : Moves(accounts, moved) => Moves(accounts', moved)
  BY <1>1, <1>4, FetchMovesNothing, ZenonT(60)
<1>8. Grounded(reads', writes', observed', missed')
  BY <1>2, <1>3, SMTT(60) DEF SimInv, Sound, Grounded
<1>9. reads' \in Maps(Keys, Values)
  BY <1>2, ZenonT(60) DEF SimInv, Types
<1>. QED  BY <1>2, <1>3, <1>6, <1>7, <1>8, <1>9, InsideACall

\* The outermost call ends.
LEMMA LastReturnStep ==
  ASSUME SimInv, Return, ~(Len(frames) > 1)
  PROVE  SimInv'
<1>1. /\ UNCHANGED <<accounts, reads, writes, writeOlds, snapshots, fetchErrors, observed, missed>>
      /\ status' = IF fetchErrors THEN "failed" ELSE "success"
      /\ UNCHANGED frames
      /\ frames # <<>>
  BY SMTT(60) DEF Return, Executing
<1>2. status' = "success" => ~fetchErrors'
  BY <1>1, SMTT(60) DEF SimInv
<1>3. status' \in {"success", "failed"}
  BY <1>1, SMTT(60)
<1>. QED  BY <1>1, <1>2, <1>3, InsideACall, ZenonT(60) DEF SimInv, Types, Sound

LEMMA PrefixOf ==
  ASSUME NEW S, NEW q \in Seq(S), NEW k \in 0..Len(q)
  PROVE  /\ SubSeq(q, 1, k) \in Seq(S)
         /\ Len(SubSeq(q, 1, k)) = k
         /\ \A i \in 1..k : SubSeq(q, 1, k)[i] = q[i]
  BY SMTT(60)

\* An inner call ends: what it saw is what its caller sees, and the snapshot of the
\* caller is the one to go back to.
LEMMA InnerReturnStep ==
  ASSUME SimInv, Return, Len(frames) > 1
  PROVE  SimInv'
<1>. DEFINE n == Len(frames)
            top == [frames[n] EXCEPT !.revid = frames[n - 1].revid]
<1>1. /\ UNCHANGED <<accounts, reads, writes, writeOlds, snapshots, fetchErrors, observed, missed>>
      /\ UNCHANGED status
      /\ frames' = Append(SubSeq(frames, 1, n - 2), top)
  BY SMTT(60) DEF Return
<1>2. frames \in Seq(Frame) /\ n \in Nat /\ n > 1 /\ frames[n] \in Frame /\ frames[n - 1] \in Frame
  BY DEF SimInv, Types
<1>3. /\ top \in Frame /\ top.revid = frames[n - 1].revid
      /\ top.written = frames[n].written /\ top.moved = frames[n].moved
  BY <1>2, ZenonT(60) DEF Frame
<1>. HIDE DEF top
<1>4. /\ SubSeq(frames, 1, n - 2) \in Seq(Frame)
      /\ Len(SubSeq(frames, 1, n - 2)) = n - 2
      /\ \A i \in 1..(n - 2) : SubSeq(frames, 1, n - 2)[i] = frames[i]
  <2>1. n - 2 \in 0..n
    BY <1>2, SMTT(60)
  <2>. HIDE DEF n
  <2>2. n = Len(frames)
    BY DEF n
  <2>. QED  BY <1>2, <2>1, <2>2, PrefixOf, ZenonT(60)
<1>5. /\ frames' \in Seq(Frame) /\ Len(frames') = n - 1
      /\ frames'[n - 1] = top
      /\ \A i \in 1..(n - 2) : frames'[i] = frames[i]
  BY <1>1, <1>2, <1>3, <1>4, SMTT(60)
<1>6. \A i \in 1..(n - 1) : frames'[i].revid = frames[i].revid
  <2>1. \A i \in 1..(n - 1) : i = n - 1 \/ i \in 1..(n - 2)
    BY <1>2, SMTT(60)
  <2>. QED  BY <1>3, <1>5, <2>1, Zenon
<1>7. Types' /\ Sound'
  BY <1>1, <1>5, SMTT(60) DEF SimInv, Types, Sound
<1>8. Nested'
  <2>1. \A i \in 1..(n - 1) : i \in 1..n
    BY <1>2
  <2>. QED  BY <1>1, <1>5, <1>6, <2>1, ZenonT(60) DEF SimInv, Nested
<1>9. Faithful'
  <2>1. Written(Len(frames))' = Written(n) /\ Moved(Len(frames))' = Moved(n)
    BY <1>2, <1>3, <1>5 DEF Written, Moved
  <2>2. ASSUME NEW i \in 1..(n - 1)
        PROVE  /\ snapshots'[frames'[i].revid].writes = Written(i - 1)'
               /\ fetchErrors' \/ Moves(snapshots'[frames'[i].revid].accounts, Moved(i - 1)')
    <3>1. i \in 1..n /\ (i - 1 = 0 \/ (i - 1 \in 1..(n - 2) /\ i - 1 # 0))
      BY <1>2, SMTT(60)
    <3>2. Written(i - 1)' = Written(i - 1) /\ Moved(i - 1)' = Moved(i - 1)
      BY <1>5, <3>1, Zenon DEF Written, Moved
    <3>. QED  BY <1>1, <1>6, <3>1, <3>2, ZenonT(60) DEF SimInv, Faithful
  <2>. QED  BY <1>1, <1>5, <2>1, <2>2, ZenonT(60) DEF SimInv, Faithful
<1>10. frames' # <<>>
  BY <1>2, <1>5, SMTT(60)
<1>. QED  BY <1>1, <1>7, <1>8, <1>9, <1>10, SMTT(60) DEF SimInv

\* A call fails: the database goes back to what its caller saw, and the snapshots of
\* the calls around it are still there.
LEMMA RevertStep ==
  ASSUME SimInv, Revert
  PROVE  SimInv'
<1>. DEFINE n == Len(frames)
            rev == frames[n].revid
<1>1. /\ accounts' = snapshots[rev].accounts
      /\ reads' = snapshots[rev].reads
      /\ writes' = snapshots[rev].writes
      /\ snapshots' = SubSeq(snapshots, 1, rev - 1)
      /\ frames' = SubSeq(frames, 1, n - 1)
      /\ status' = IF n = 1 THEN "failed" ELSE "running"
      /\ UNCHANGED <<writeOlds, fetchErrors, observed, missed>>
      /\ frames # <<>>
  BY SMTT(60) DEF Revert, RevertToSnapshot, Executing
<1>2. frames \in Seq(Frame) /\ snapshots \in Seq(Taken) /\ n \in Nat /\ n # 0
  BY <1>1, SMTT(60) DEF SimInv, Types
<1>3. rev \in 1..Len(snapshots) /\ Len(snapshots) \in Nat /\ rev \in Nat
  BY <1>2, SMTT(60) DEF SimInv, Nested
<1>4. snapshots[rev] \in Taken
  BY <1>2, <1>3, SMTT(60)
<1>5. /\ frames' \in Seq(Frame) /\ Len(frames') = n - 1
      /\ \A i \in 1..(n - 1) : frames'[i] = frames[i]
  <2>1. n - 1 \in 0..n
    BY <1>2, SMTT(60)
  <2>. HIDE DEF n
  <2>2. n = Len(frames)
    BY SMTT(60) DEF n
  <2>. QED  BY <1>1, <1>2, <2>1, <2>2, PrefixOf, ZenonT(60)
<1>. HIDE DEF rev
<1>6. /\ snapshots' \in Seq(Taken) /\ Len(snapshots') = rev - 1
      /\ \A i \in 1..(rev - 1) : snapshots'[i] = snapshots[i]
  BY <1>1, <1>2, <1>3, SMTT(60)
<1>7. Types'
  BY <1>1, <1>4, <1>5, <1>6, SMTT(60) DEF SimInv, Types, Taken
<1>8. Sound'
  <2>1. \A i \in 1..(rev - 1) : i \in 1..Len(snapshots)
    BY <1>3, SMTT(60)
  <2>. QED  BY <1>1, <1>3, <1>6, <2>1, SMTT(60) DEF SimInv, Sound
<1>9. \A i \in 1..(n - 1) : i \in 1..n /\ frames[i].revid \in 1..(rev - 1)
  BY <1>2, <1>3, SMTT(60) DEF SimInv, Nested, rev
<1>10. Nested'
  BY <1>5, <1>6, <1>9, ZenonT(60) DEF SimInv, Nested
<1>11. Faithful'
  <2>1. /\ snapshots[rev].writes = Written(n - 1)
        /\ fetchErrors \/ Moves(snapshots[rev].accounts, Moved(n - 1))
    BY <1>2, SMTT(60) DEF SimInv, Faithful, rev
  <2>2. ASSUME NEW i \in 1..n
        PROVE  Written(i - 1)' = Written(i - 1) /\ Moved(i - 1)' = Moved(i - 1)
    <3>1. i - 1 = 0 \/ (i - 1 \in 1..(n - 1) /\ i - 1 # 0)
      BY <1>2
    <3>. QED  BY <1>5, <3>1, SMTT(60) DEF Written, Moved
  <2>3. Written(Len(frames))' = Written(n - 1) /\ Moved(Len(frames))' = Moved(n - 1)
    <3>0. \A m \in Nat : m # 0 => m - 1 = 0 \/ (m - 1 \in 1..(m - 1) /\ m - 1 # 0)
      OBVIOUS
    <3>1. n - 1 = 0 \/ (n - 1 \in 1..(n - 1) /\ n - 1 # 0)
      BY <1>2, <3>0, ZenonT(60)
    <3>. QED  BY <1>5, <3>1, Zenon DEF Written, Moved
  <2>4. ASSUME NEW i \in 1..(n - 1)
        PROVE  /\ snapshots'[frames'[i].revid].writes = Written(i - 1)'
               /\ fetchErrors' \/ Moves(snapshots'[frames'[i].revid].accounts, Moved(i - 1)')
    <3>1. snapshots'[frames'[i].revid] = snapshots[frames[i].revid]
      BY <1>5, <1>6, <1>9, SMTT(60)
    <3>. QED  BY <1>1, <1>9, <2>2, <3>1, ZenonT(60) DEF SimInv, Faithful
  <2>. QED  BY <1>1, <1>5, <2>1, <2>3, <2>4, ZenonT(60) DEF Faithful
<1>12. status' = "running" => frames' # <<>>
  <2>1. n # 1 => Len(frames') # 0
    BY <1>2, <1>5, SMTT(60)
  <2>2. frames' = <<>> => Len(frames') = 0
    OBVIOUS
  <2>. QED  BY <1>1, <2>1, <2>2, SMTT(60)
<1>. QED  BY <1>1, <1>7, <1>8, <1>10, <1>11, <1>12, Zenon DEF SimInv

LEMMA SimInit == Init => SimInv
<1>. SUFFICES ASSUME Init PROVE SimInv
  BY SMTT(60)
<1>1. /\ Nothing \in Maps(Addrs, Account) /\ Nothing \in Maps(Keys, Values)
      /\ DOMAIN Nothing = {}
  BY MapsAre, ZenonT(60) DEF Nothing
<1>2. Types
  BY <1>1, SMTT(60) DEF Init, Types
<1>3. Sound
  BY <1>1 DEF Init, Sound, Created, Grounded
<1>4. Nested
  BY SMTT(60) DEF Init, Nested
<1>5. Faithful
  <2>1. Moves(Nothing, NoMoves)
    BY <1>1, SMTT(60) DEF Moves, NoMoves
  <2>. QED  BY <2>1 DEF Init, Faithful, Written, Moved
<1>. QED  BY <1>2, <1>3, <1>4, <1>5, SMTT(60) DEF Init, SimInv

LEMMA SimNext == SimInv /\ [Next]_vars => SimInv'
<1>. SUFFICES ASSUME SimInv, [Next]_vars PROVE SimInv'
  OBVIOUS
<1>1. ASSUME NEW k \in Keys, GetState(k) PROVE SimInv'
  BY <1>1, GetStateStep, SMTT(60)
<1>2. ASSUME NEW k \in Keys, NEW v \in Values, SetState(k, v) PROVE SimInv'
  BY <1>2, SetStateStep, SMTT(60)
<1>3. ASSUME NEW from \in Addrs, NEW to \in Addrs, NEW n \in {0, 1}, Call(from, to, n)
      PROVE  SimInv'
  BY <1>3, CallStep, SMTT(60)
<1>4. ASSUME NEW from \in Addrs, CallWithoutFunds(from, 1) PROVE SimInv'
  BY <1>4, CallWithoutFundsStep, SMTT(60)
<1>5. CASE Return
  BY <1>5, LastReturnStep, InnerReturnStep, SMTT(60)
<1>6. CASE Revert
  BY <1>6, RevertStep, ZenonT(60)
<1>7. CASE UNCHANGED vars
  BY <1>7, ZenonT(60) DEF vars, SimInv, Types, Sound, Nested, Faithful, Written, Moved
<1>. QED  BY <1>1, <1>2, <1>3, <1>4, <1>5, <1>6, <1>7, SMTT(60) DEF Next

LEMMA SimInvariant == Spec => []SimInv
  BY SimInit, SimNext, PTL DEF Spec
-----------------------------------------------------------------------------
\* The maps of the database have their types, and the snapshot that an open call would
\* go back to is on the stack: RevertToSnapshot never meets an ID that is not there.
THEOREM SimulationTypeCorrect == Spec => []TypeOK
<1>1. SimInv => TypeOK
  <2>. SUFFICES ASSUME SimInv PROVE TypeOK
    BY SMTT(60)
  <2>1. /\ accounts \in [DOMAIN accounts -> Account] /\ DOMAIN accounts \subseteq Addrs
        /\ reads \in [DOMAIN reads -> Values] /\ DOMAIN reads \subseteq Keys
        /\ DOMAIN writes \subseteq Keys /\ DOMAIN writeOlds \subseteq Keys
    BY MapsAre, SMTT(60) DEF SimInv, Types
  <2>2. \A a \in DOMAIN accounts : a \in Addrs /\ accounts[a].balance \in Int
    BY <2>1, SMTT(60) DEF Account
  <2>. QED  BY <2>1, <2>2, SMTT(60) DEF SimInv, Types, Nested, TypeOK
<1>. QED  BY <1>1, SimInvariant, PTL

\* Snapshots make nested calls transactional: after any calls, returns and reverts, the
\* write set is what the innermost open call sees, and so are the balance changes.
THEOREM CallsAreNested == Spec => []RevertsAsNested
<1>1. SimInv => RevertsAsNested
  <2>. SUFFICES ASSUME SimInv PROVE RevertsAsNested
    BY Zenon
  <2>1. View.written = Written(Len(frames)) /\ View.moved = Moved(Len(frames))
    BY SMTT(60) DEF SimInv, Types, View, Written, Moved
  <2>2. writes = View.written
    BY <2>1 DEF SimInv, Faithful
  <2>3. ASSUME Moves(accounts, View.moved),
               NEW a \in Addrs \ {x \in DOMAIN accounts : accounts[x].created}
        PROVE  View.moved[a] = IF a \in DOMAIN accounts
                               THEN accounts[a].balance - accounts[a].original ELSE 0
    BY <2>3 DEF Moves
  <2>. QED  BY <2>1, <2>2, <2>3, SMTT(60) DEF SimInv, Faithful, RevertsAsNested
<1>. QED  BY <1>1, SimInvariant, PTL

\* Every slot of the write set is in the read set, with a value that a shard returned
\* (or the zero of a failed fetch): SetState reads before it writes, and reverting
\* takes back reads and writes together.
THEOREM WritesAreAlwaysRead == Spec => []WritesAreRead
<1>1. SimInv => WritesAreRead
  BY DEF SimInv, Sound, Grounded, WritesAreRead
<1>. QED  BY <1>1, SimInvariant, PTL

\* The RwSet that BuildRwSet returns for a successful simulation names every address
\* that the simulation wrote a slot of or whose balance it changed.
THEOREM RwSetCoversEffects == Spec => []RwSetCovers
<1>1. SimInv => RwSetCovers
  <2>. SUFFICES ASSUME SimInv, status = "success"
                PROVE  /\ \A k \in DOMAIN View.written : k[1] \in RwAddrs
                       /\ \A a \in Addrs : View.moved[a] # 0 => a \in RwAddrs
    BY Zenon DEF RwSetCovers
  <2>1. View.written = Written(Len(frames)) /\ View.moved = Moved(Len(frames))
    BY SMTT(60) DEF SimInv, Types, View, Written, Moved
  <2>2. writes = View.written
    BY <2>1, Zenon DEF SimInv, Faithful
  <2>3. Moves(accounts, View.moved)
    BY <2>1, Zenon DEF SimInv, Faithful
  <2>4. \A k \in DOMAIN View.written : k[1] \in RwAddrs
    BY <2>2, Zenon DEF RwAddrs
  <2>5. ASSUME NEW a \in Addrs, View.moved[a] # 0 PROVE a \in RwAddrs
    <3>1. a \in DOMAIN accounts
      BY <2>3, <2>5, SMTT(60) DEF Moves
    <3>2. accounts[a].balance \in Int /\ accounts[a].original \in Int
      <4>1. accounts \in [DOMAIN accounts -> Account]
        BY MapsAre, SMTT(60) DEF SimInv, Types
      <4>. QED  BY <3>1, <4>1, SMTT(60) DEF Account
    <3>3. accounts[a].created => accounts[a].balance # accounts[a].original
      BY <3>1, <3>2, SMTT(60) DEF SimInv, Sound, Created
    <3>4. ~accounts[a].created => accounts[a].balance # accounts[a].original
      BY <2>3, <2>5, <3>1, <3>2, SMTT(60) DEF Moves
    <3>. QED  BY <3>1, <3>3, <3>4 DEF RwAddrs
  <2>. QED  BY <2>4, <2>5, SMTT(60)
<1>. QED  BY <1>1, SimInvariant, PTL
=============================================================================
