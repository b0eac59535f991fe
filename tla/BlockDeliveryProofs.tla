------------------------- MODULE BlockDeliveryProofs -------------------------
(***************************************************************************)
(* Proofs about the block buffer and the delivery of the orchestrator's    *)
(* blocks to a shard, for any number of blocks, retries, timeouts and      *)
(* restarts and any size of the buffer.                                    *)
(*                                                                         *)
(* lastOrchestratorHeight can fall, when two handlers are inside           *)
(* processOrchestratorBlock, so it does not by itself say what has been    *)
(* applied.  The inductive invariant is about the heights that may still   *)
(* come up (Open): one of them that has been applied, by the recovery, is  *)
(* not above any value that lastOrchestratorHeight is about to get         *)
(* (Guarded), and the queues of the handlers share no height (Queues).     *)
(***************************************************************************)
EXTENDS BlockDelivery, FiniteSetTheorems, WellFoundedInduction, TLAPS
-----------------------------------------------------------------------------
(* The block buffer.                                                       *)

\* The inductive invariant: what the runs check, and that the buffer is finite.
BufferInv ==
  /\ BufferTypeOK
  /\ ReleasedInOrder
  /\ NothingReadyIsHeld
  /\ IsFiniteSet(buffered)

\* A set of naturals that is not empty has a least element.
LEMMA LeastNat ==
  ASSUME NEW T \in SUBSET Nat, T # {}
  PROVE  \E n \in T : \A m \in T : n <= m
<1> DEFINE R == OpToRel(<, Nat)
<1>1. IsWellFoundedOn(R, Nat)
  BY NatLessThanWellFounded
<1>2. \A m, n \in Nat : <<m, n>> \in R <=> m < n
  BY DEF OpToRel
<1> HIDE DEF R
<1>3. PICK n \in T : \A m \in T : <<m, n>> \notin R
  BY <1>1, WFMin, Zenon
<1>4. \A m \in T : ~(m < n)
  BY <1>2, <1>3, Zenon
<1>5. \A m \in T : n <= m
  BY <1>4
<1> QED
  BY <1>5

\* The drain loop of ProcessBlock stops: no block above MaxHeight is buffered, so
\* there is a first gap after the expected block.
LEMMA NextGapExists ==
  ASSUME BufferInv, expected <= MaxHeight
  PROVE  /\ NextGap \in (expected + 1)..(MaxHeight + 1)
         /\ NextGap \notin buffered
         /\ (expected + 1)..(NextGap - 1) \subseteq buffered
<1> DEFINE gaps == {n \in (expected + 1)..(MaxHeight + 1) : n \notin buffered}
<1>1. expected \in Nat /\ MaxHeight \in Nat /\ buffered \subseteq 1..MaxHeight
  BY BufferAssumption DEF BufferInv, BufferTypeOK
<1>2. gaps \in SUBSET Nat /\ MaxHeight + 1 \in gaps
  BY <1>1
<1>3. PICK n \in gaps : \A m \in gaps : n <= m
  BY <1>2, LeastNat, Zenon
<1>4. /\ n \in (expected + 1)..(MaxHeight + 1)
      /\ n \notin buffered
      /\ (expected + 1)..(n - 1) \subseteq buffered
  BY <1>1, <1>3
<1> QED
  BY <1>4 DEF NextGap

\* NewBlockBuffer: nothing is buffered or released.
LEMMA BufferInitInv == BufferInit => BufferInv
BY BufferAssumption, FS_EmptySet
   DEF BufferInit, BufferInv, BufferTypeOK, ReleasedInOrder, NothingReadyIsHeld

\* ProcessBlock of the expected block releases it and what follows it.
LEMMA ReleaseBlockInv ==
  ASSUME BufferInv, NEW h \in 1..MaxHeight, ReleaseBlock(h)
  PROVE  BufferInv'
<1>0. /\ expected = h /\ h \in Nat /\ MaxHeight \in Nat /\ MaxBuffer \in Nat
      /\ h <= MaxHeight
  BY BufferAssumption DEF ReleaseBlock
<1>1. /\ NextGap \in (h + 1)..(MaxHeight + 1)
      /\ NextGap \notin buffered
  BY <1>0, NextGapExists
<1> DEFINE gap == NextGap
<1>u. /\ released' = released \o Ready
      /\ expected' = gap
      /\ buffered' = buffered \ h..(gap - 1)
      /\ Ready = [i \in 1..(gap - h) |-> h + i - 1]
  BY <1>0 DEF ReleaseBlock, Ready
<1>2. gap \in Nat /\ h < gap /\ gap <= MaxHeight + 1 /\ gap \notin buffered
  BY <1>0, <1>1
<1> HIDE DEF gap
<1>3. released = [i \in 1..(h - 1) |-> i] /\ released \in Seq(1..MaxHeight)
  BY <1>0 DEF BufferInv, ReleasedInOrder, BufferTypeOK
<1>4. Ready \in Seq(1..MaxHeight) /\ Len(Ready) = gap - h
  BY <1>0, <1>2, <1>u
<1>5. Len(released) = h - 1
  BY <1>0, <1>3
<1>6. released' \in Seq(1..MaxHeight) /\ Len(released') = gap - 1
  BY <1>0, <1>2, <1>3, <1>4, <1>5, <1>u
<1>7. \A i \in 1..(gap - 1) : released'[i] = i
  BY <1>0, <1>2, <1>3, <1>4, <1>5, <1>u
<1>8. ReleasedInOrder'
  <2>1. DOMAIN released' = 1..(gap - 1)
    BY <1>6
  <2>2. released' = [i \in DOMAIN released' |-> released'[i]]
    BY <1>6
  <2>3. released' = [i \in 1..(gap - 1) |-> i]
    BY <1>7, <2>1, <2>2
  <2> QED
    BY <2>3, <1>u DEF ReleasedInOrder
<1>9. BufferTypeOK'
  BY <1>0, <1>2, <1>6, <1>u DEF BufferInv, BufferTypeOK
<1>10. IsFiniteSet(buffered') /\ Cardinality(buffered') <= MaxBuffer
  <2>1. buffered' \in SUBSET buffered
    BY <1>u
  <2>2. IsFiniteSet(buffered) /\ Cardinality(buffered) <= MaxBuffer
    BY DEF BufferInv, NothingReadyIsHeld
  <2>3. IsFiniteSet(buffered') /\ Cardinality(buffered') <= Cardinality(buffered)
    BY <2>1, <2>2, FS_Subset
  <2>4. Cardinality(buffered') \in Nat /\ Cardinality(buffered) \in Nat
    BY <2>2, <2>3, FS_CardinalityType
  <2> QED
    BY <1>0, <2>2, <2>3, <2>4
<1>11. \A x \in buffered' : x > expected'
  <2> SUFFICES ASSUME NEW x \in buffered' PROVE x > gap
    BY <1>u
  <2>1. x \in buffered /\ x \notin h..(gap - 1)
    BY <1>u
  <2>2. x \in Nat
    BY <2>1 DEF BufferInv, BufferTypeOK
  <2>3. x > h
    BY <1>0, <2>1 DEF BufferInv, NothingReadyIsHeld
  <2>4. x # gap
    BY <1>2, <2>1
  <2>5. ~(x <= gap - 1)
    BY <1>0, <1>2, <2>1, <2>2, <2>3
  <2> QED
    BY <1>2, <2>2, <2>4, <2>5
<1> QED
  BY <1>8, <1>9, <1>10, <1>11 DEF BufferInv, NothingReadyIsHeld

\* ProcessBlock of a later block keeps it if there is room.
LEMMA BufferBlockInv ==
  ASSUME BufferInv, NEW h \in 1..MaxHeight, BufferBlock(h)
  PROVE  BufferInv'
<1>1. IsFiniteSet(buffered') /\ Cardinality(buffered') = Cardinality(buffered) + 1
  BY FS_AddElement DEF BufferInv, BufferBlock
<1>2. Cardinality(buffered) \in Nat
  BY FS_CardinalityType DEF BufferInv
<1>3. Cardinality(buffered') <= MaxBuffer
  BY <1>1, <1>2, BufferAssumption DEF BufferBlock
<1>4. BufferTypeOK' /\ ReleasedInOrder'
  BY DEF BufferInv, BufferTypeOK, ReleasedInOrder, BufferBlock
<1>5. NothingReadyIsHeld'
  BY <1>3 DEF BufferInv, NothingReadyIsHeld, BufferBlock
<1> QED
  BY <1>1, <1>4, <1>5 DEF BufferInv

\* BufferInv is an invariant of the buffer.
LEMMA BufferInvariant == BufferSpec => []BufferInv
<1>1. BufferInv /\ UNCHANGED bufferVars => BufferInv'
  BY DEF BufferInv, BufferTypeOK, ReleasedInOrder, NothingReadyIsHeld, bufferVars
<1>2. BufferInv /\ [BufferNext]_bufferVars => BufferInv'
  BY <1>1, ReleaseBlockInv, BufferBlockInv DEF BufferNext, ProcessBlock, IgnoreBlock
<1> QED
  BY <1>2, BufferInitInv, PTL DEF BufferSpec

\* The buffer's variables keep their types.
THEOREM BufferTypeCorrect == BufferSpec => []BufferTypeOK
<1>1. BufferInv => BufferTypeOK
  BY DEF BufferInv
<1> QED
  BY <1>1, BufferInvariant, PTL

\* ProcessBlock releases the blocks in order, each once, without a gap, whatever
\* is delivered and however large the buffer is.
THEOREM BufferReleasesInOrder == BufferSpec => []ReleasedInOrder
<1>1. BufferInv => ReleasedInOrder
  BY DEF BufferInv
<1> QED
  BY <1>1, BufferInvariant, PTL

\* ProcessBlock drains the buffer as far as it can and respects its limit.
THEOREM BufferHoldsNothingReady == BufferSpec => []NothingReadyIsHeld
<1>1. BufferInv => NothingReadyIsHeld
  BY DEF BufferInv
<1> QED
  BY <1>1, BufferInvariant, PTL
-----------------------------------------------------------------------------
(* The delivery.                                                           *)

\* Requests are told apart by height and attempt; one that is under way has not been
\* received, and one that is received has not been answered.
Fresh ==
  /\ height \in 0..MaxHeight /\ attempt \in 0..(MaxRetries + 1)
  /\ attempt > 0 => height > 0
  /\ \A r \in requests \cup responses \cup DOMAIN handlers :
       /\ r \in (1..height) \X (1..(MaxRetries + 1))
       /\ r[1] = height /\ attempt > 0 => r[2] <= attempt
  /\ requests \cap DOMAIN handlers = {}
  /\ (requests \cup DOMAIN handlers) \cap responses = {}

\* What the handlers have still to process was released, and no two have the same.
Queues ==
  /\ \A r \in DOMAIN handlers : handlers[r] \in Seq(1..MaxHeight)
  /\ \A r \in DOMAIN handlers : \A i \in 1..Len(handlers[r]) : handlers[r][i] < expected
  /\ \A r, q \in DOMAIN handlers : \A i \in 1..Len(handlers[r]), j \in 1..Len(handlers[q]) :
       handlers[r][i] = handlers[q][j] => r = q /\ i = j
  /\ working \subseteq {r \in DOMAIN handlers : handlers[r] # <<>>}

\* A handler may still begin the block, now or after the buffer has released it.
Open(h) ==
  \/ h >= expected
  \/ \E r \in DOMAIN handlers : \E i \in 1..Len(handlers[r]) :
       handlers[r][i] = h /\ (r \in working => i > 1)

Applied(h) == \E i \in 1..Len(applied) : applied[i] = h

\* A block that was applied and may come up again would be skipped.
Guarded ==
  \A h \in 1..MaxHeight : Applied(h) /\ Open(h) =>
    /\ h <= lastOrchestratorHeight
    /\ \A r \in working : h <= handlers[r][1]

\* The recovery applies blocks upwards before any handler runs.
Recovery ==
  /\ recovering \in Seq(1..MaxHeight)
  /\ \A i, j \in 1..Len(recovering) : i < j => recovering[i] < recovering[j]
  /\ up => recovering = <<>>
  /\ ~up => /\ DOMAIN handlers = {} /\ working = {}
            /\ \A i \in 1..Len(applied) : applied[i] <= lastOrchestratorHeight
            /\ \A i \in 1..Len(recovering) : recovering[i] > lastOrchestratorHeight

\* Without timeouts and restarts there is one request at a time, and what its handler
\* has to process continues what has been applied.
OneAtATime ==
  timeouts = 0 /\ crashes = 0 =>
    /\ up
    /\ \A r \in requests \cup responses \cup DOMAIN handlers : r = <<height, attempt>>
    /\ DOMAIN handlers = {} => lastOrchestratorHeight = expected - 1
    /\ working = {} => Len(applied) = lastOrchestratorHeight
    /\ working # {} => Len(applied) = lastOrchestratorHeight + 1
    /\ \A i \in 1..Len(applied) : applied[i] = i
    /\ \A r \in DOMAIN handlers :
         /\ lastOrchestratorHeight + Len(handlers[r]) = expected - 1
         /\ \A i \in 1..Len(handlers[r]) : handlers[r][i] = lastOrchestratorHeight + i

DeliveryInv ==
  /\ BufferInv
  /\ Fresh
  /\ Queues
  /\ lastOrchestratorHeight \in 0..MaxHeight /\ applied \in Seq(1..MaxHeight)
  /\ timeouts \in Nat /\ crashes \in Nat
  /\ Guarded /\ AppliedOnce /\ Recovery /\ OneAtATime
-----------------------------------------------------------------------------
\* A new shard and a new orchestrator satisfy the invariant.
LEMMA DeliveryInitInv == Init => DeliveryInv
<1> SUFFICES ASSUME Init PROVE DeliveryInv
  OBVIOUS
<1> USE DEF Init, NoHandlers
<1>0. MaxHeight \in Nat /\ MaxRetries \in Nat /\ DOMAIN handlers = {} /\ expected = 1
  BY BufferAssumption, DeliveryAssumption DEF BufferInit
<1>1. BufferInv
  BY BufferInitInv
<1>2. Fresh /\ Queues
  BY <1>0 DEF Fresh, Queues
<1>3. Guarded /\ AppliedOnce /\ Recovery
  BY <1>0 DEF Guarded, Applied, AppliedOnce, Recovery
<1>4. OneAtATime
  BY <1>0 DEF OneAtATime
<1> QED BY <1>0, <1>1, <1>2, <1>3, <1>4 DEF DeliveryInv
-----------------------------------------------------------------------------
(* The orchestrator's steps.                                               *)

\* A step of the orchestrator alone changes nothing that concerns the shard.
LEMMA ShardUntouched ==
  ASSUME DeliveryInv, UNCHANGED <<bufferVars, serverVars, recoveryVars>>
  PROVE  /\ BufferInv' /\ Queues' /\ Guarded' /\ AppliedOnce' /\ Recovery'
         /\ lastOrchestratorHeight' \in 0..MaxHeight /\ applied' \in Seq(1..MaxHeight)
         /\ crashes' \in Nat
<1> USE DEF DeliveryInv, bufferVars, serverVars, recoveryVars
<1>1. BufferInv'
  BY DEF BufferInv, BufferTypeOK, ReleasedInOrder, NothingReadyIsHeld
<1>2. Queues'
  BY DEF Queues
<1>3. Guarded'
  BY DEF Guarded, Open, Applied
<1>4. AppliedOnce' /\ Recovery'
  BY DEF AppliedOnce, Recovery
<1> QED BY <1>1, <1>2, <1>3, <1>4

LEMMA ProduceInv ==
  ASSUME DeliveryInv, Produce
  PROVE  DeliveryInv'
<1>0. /\ MaxHeight \in Nat /\ MaxRetries \in Nat
      /\ UNCHANGED <<bufferVars, serverVars, recoveryVars>>
      /\ attempt = 0 /\ height' = height + 1 /\ attempt' = 1 /\ height < MaxHeight
      /\ requests' = requests \cup {<<height + 1, 1>>}
      /\ UNCHANGED <<timeouts, responses, handlers>>
  BY BufferAssumption, DeliveryAssumption DEF Produce, serverVars
<1>1. height \in Nat /\ <<height + 1, 1>> \notin responses \cup DOMAIN handlers
  BY <1>0, SMTT(60) DEF DeliveryInv, Fresh
<1>2. Fresh'
  BY <1>0, <1>1 DEF DeliveryInv, Fresh
<1>3. OneAtATime'
  <2> SUFFICES ASSUME (timeouts = 0 /\ crashes = 0)' PROVE OneAtATime'
    BY DEF OneAtATime
  <2>1. timeouts = 0 /\ crashes = 0
    BY <1>0 DEF recoveryVars
  <2>2. \A r \in requests \cup responses \cup DOMAIN handlers : r = <<height, 0>> /\ r[2] >= 1
    BY <1>0, <2>1 DEF DeliveryInv, Fresh, OneAtATime
  <2>3. requests \cup responses \cup DOMAIN handlers = {}
    BY <2>2
  <2> QED BY <1>0, <2>1, <2>3 DEF DeliveryInv, OneAtATime, bufferVars, serverVars, recoveryVars
<1> QED BY <1>0, <1>2, <1>3, ShardUntouched DEF DeliveryInv

LEMMA AttemptSucceedsInv ==
  ASSUME DeliveryInv, AttemptSucceeds
  PROVE  DeliveryInv'
<1>0. /\ MaxHeight \in Nat /\ MaxRetries \in Nat
      /\ UNCHANGED <<bufferVars, serverVars, recoveryVars>>
      /\ <<height, attempt>> \in responses
      /\ responses' = responses \ {<<height, attempt>>} /\ attempt' = 0
      /\ UNCHANGED <<height, timeouts, requests, handlers>>
  BY BufferAssumption, DeliveryAssumption DEF AttemptSucceeds, serverVars
<1>2. Fresh'
  BY <1>0 DEF DeliveryInv, Fresh
<1>3. OneAtATime'
  <2> SUFFICES ASSUME (timeouts = 0 /\ crashes = 0)' PROVE OneAtATime'
    BY DEF OneAtATime
  <2>1. timeouts = 0 /\ crashes = 0
    BY <1>0 DEF recoveryVars
  <2>2. \A r \in requests \cup responses \cup DOMAIN handlers : r = <<height, attempt>>
    BY <2>1 DEF DeliveryInv, OneAtATime
  <2>3. requests \cup responses' \cup DOMAIN handlers = {}
    BY <1>0, <2>2, Zenon DEF DeliveryInv, Fresh
  <2> QED BY <1>0, <2>1, <2>3 DEF DeliveryInv, OneAtATime, bufferVars, serverVars, recoveryVars
<1> QED BY <1>0, <1>2, <1>3, ShardUntouched DEF DeliveryInv

\* sendBlockToShardWithRetry: the request of a retry is a new one.
LEMMA RetryFresh ==
  ASSUME DeliveryInv, attempt > 0, NEW kept \in SUBSET requests, Retry(kept),
         responses' \subseteq responses, UNCHANGED <<height, handlers>>
  PROVE  Fresh'
<1>0. MaxHeight \in Nat /\ MaxRetries \in Nat /\ height \in Nat /\ attempt \in Nat
  BY BufferAssumption, DeliveryAssumption DEF DeliveryInv, Fresh
<1>1. CASE /\ attempt <= MaxRetries /\ attempt' = attempt + 1
           /\ requests' = kept \cup {<<height, attempt + 1>>}
  <2>1. <<height, attempt + 1>> \notin requests \cup responses \cup DOMAIN handlers
    <3>1. \A r \in requests \cup responses \cup DOMAIN handlers : r[1] = height => r[2] <= attempt
      BY DEF DeliveryInv, Fresh
    <3>2. <<height, attempt + 1>>[1] = height /\ ~(<<height, attempt + 1>>[2] <= attempt)
      BY <1>0
    <3> QED BY <3>1, <3>2, Zenon
  <2>2. height >= 1
    BY <1>0, <1>1 DEF DeliveryInv, Fresh
  <2>3. <<height, attempt + 1>> \in (1..height) \X (1..(MaxRetries + 1))
    BY <1>0, <1>1, <2>2
  <2>4. \A r \in requests' \cup responses' \cup DOMAIN handlers' :
          r \in requests \cup responses \cup DOMAIN handlers \/ r = <<height, attempt + 1>>
    BY <1>1
  <2>5. \A r \in requests' \cup responses' \cup DOMAIN handlers' :
          /\ r \in (1..height) \X (1..(MaxRetries + 1))
          /\ r[1] = height => r[2] <= attempt + 1
    <3>1. \A r \in requests \cup responses \cup DOMAIN handlers :
            r \in (1..height) \X (1..(MaxRetries + 1)) /\ (r[1] = height => r[2] <= attempt)
      BY DEF DeliveryInv, Fresh
    <3> QED BY <1>0, <2>3, <2>4, <3>1
  <2>6. requests' \cap DOMAIN handlers' = {} /\ (requests' \cup DOMAIN handlers') \cap responses' = {}
    BY <1>1, <2>1 DEF DeliveryInv, Fresh
  <2> QED BY <1>0, <1>1, <2>2, <2>5, <2>6 DEF DeliveryInv, Fresh
<1>2. CASE attempt' = 0 /\ requests' = kept
  BY <1>0, <1>2 DEF DeliveryInv, Fresh
<1> QED BY <1>1, <1>2 DEF Retry

LEMMA ConnectionFailsInv ==
  ASSUME DeliveryInv, ConnectionFails
  PROVE  DeliveryInv'
<1>0. /\ MaxHeight \in Nat /\ MaxRetries \in Nat
      /\ UNCHANGED <<bufferVars, serverVars, recoveryVars>>
      /\ attempt > 0 /\ <<height, attempt>> \notin DOMAIN handlers \cup responses
      /\ Retry(requests \ {<<height, attempt>>})
      /\ UNCHANGED <<height, timeouts, responses, handlers>>
  BY BufferAssumption, DeliveryAssumption DEF ConnectionFails, serverVars
<1>2. Fresh'
  BY <1>0, RetryFresh
<1>3. OneAtATime'
  <2> SUFFICES ASSUME (timeouts = 0 /\ crashes = 0)' PROVE OneAtATime'
    BY DEF OneAtATime
  <2>1. timeouts = 0 /\ crashes = 0
    BY <1>0 DEF recoveryVars
  <2>2. \A r \in requests \cup responses \cup DOMAIN handlers : r = <<height, attempt>>
    BY <2>1 DEF DeliveryInv, OneAtATime
  <2>3. (requests \ {<<height, attempt>>}) \cup responses \cup DOMAIN handlers = {}
    BY <1>0, <2>2
  <2>4. \A r \in requests' : r = <<height, attempt'>>
    BY <1>0, <2>3 DEF Retry
  <2> QED
    BY <1>0, <2>1, <2>3, <2>4 DEF DeliveryInv, OneAtATime, bufferVars, serverVars, recoveryVars
<1> QED BY <1>0, <1>2, <1>3, ShardUntouched DEF DeliveryInv

LEMMA AttemptTimesOutInv ==
  ASSUME DeliveryInv, AttemptTimesOut
  PROVE  DeliveryInv'
<1>0. /\ UNCHANGED <<bufferVars, serverVars, recoveryVars>>
      /\ attempt > 0 /\ Retry(requests) /\ responses' \subseteq responses
      /\ timeouts' = timeouts + 1
      /\ UNCHANGED <<height, handlers>>
  BY DEF AttemptTimesOut, serverVars
<1>2. Fresh'
  BY <1>0, RetryFresh
<1>3. timeouts' \in Nat /\ OneAtATime'
  BY <1>0, SMTT(60) DEF DeliveryInv, OneAtATime
<1> QED BY <1>0, <1>2, <1>3, ShardUntouched DEF DeliveryInv
-----------------------------------------------------------------------------
(* The shard's handlers.                                                   *)

\* What handleOrchestratorShardBlock gives the new handler: the heights from the
\* expected one up to the new expected one, or nothing.
LEMMA ReceivedQueue ==
  ASSUME DeliveryInv, NEW r \in requests, Receive(r)
  PROVE  /\ r \notin DOMAIN handlers
         /\ BufferInv'
         /\ expected \in Nat /\ expected' \in Nat
         /\ DOMAIN handlers' = DOMAIN handlers \cup {r}
         /\ \A x \in DOMAIN handlers : handlers'[x] = handlers[x]
         /\ handlers'[r] \in Seq(1..MaxHeight)
         /\ expected + Len(handlers'[r]) = expected'
         /\ \A i \in 1..Len(handlers'[r]) : handlers'[r][i] = expected + i - 1
<1>0. /\ MaxHeight \in Nat /\ r[1] \in 1..MaxHeight /\ r \notin DOMAIN handlers
      /\ BufferInv /\ expected \in Nat
  BY BufferAssumption DEF DeliveryInv, Fresh, BufferInv, BufferTypeOK
<1>1. /\ DOMAIN handlers' = DOMAIN handlers \cup {r}
      /\ \A x \in DOMAIN handlers : handlers'[x] = handlers[x]
      /\ handlers'[r] = IF r[1] = expected THEN Ready ELSE <<>>
  BY <1>0 DEF Receive
<1>2. CASE ReleaseBlock(r[1])
  <2>1. r[1] = expected /\ expected' = NextGap
    BY <1>2 DEF ReleaseBlock
  <2>2. NextGap \in (expected + 1)..(MaxHeight + 1)
    BY <1>0, <2>1, NextGapExists
  <2>3. BufferInv'
    BY <1>0, <1>2, ReleaseBlockInv
  <2>4. /\ Ready \in Seq(1..MaxHeight) /\ Len(Ready) = NextGap - expected
        /\ \A i \in 1..Len(Ready) : Ready[i] = expected + i - 1
    BY <1>0, <2>1, <2>2, SMTT(60) DEF Ready
  <2>5. handlers'[r] = Ready
    BY <1>1, <2>1
  <2>6. expected + Len(handlers'[r]) = expected' /\ expected' \in Nat
    BY <1>0, <2>1, <2>2, <2>4, <2>5
  <2> QED BY <1>0, <1>1, <2>3, <2>4, <2>5, <2>6, Zenon
<1>3. CASE BufferBlock(r[1])
  <2>1. r[1] # expected /\ expected' = expected
    BY <1>0, <1>3 DEF BufferBlock
  <2>2. BufferInv'
    BY <1>0, <1>3, BufferBlockInv
  <2> QED BY <1>0, <1>1, <2>1, <2>2
<1>4. CASE IgnoreBlock(r[1])
  <2>1. r[1] # expected /\ UNCHANGED bufferVars
    BY <1>0, <1>4 DEF IgnoreBlock
  <2>2. BufferInv'
    BY <1>0, <2>1, Zenon
       DEF BufferInv, BufferTypeOK, ReleasedInOrder, NothingReadyIsHeld, bufferVars
  <2> QED BY <1>0, <1>1, <2>1, <2>2 DEF bufferVars
<1> QED BY <1>2, <1>3, <1>4, Zenon DEF Receive, ProcessBlock

LEMMA ReceiveInv ==
  ASSUME DeliveryInv, NEW r \in requests, Receive(r)
  PROVE  DeliveryInv'
<1>0. /\ up /\ requests' = requests \ {r}
      /\ UNCHANGED <<height, attempt, timeouts, responses, working, lastOrchestratorHeight,
                     applied, recovering, up, crashes>>
  BY DEF Receive, orchestratorVars, recoveryVars
<1>q. /\ r \notin DOMAIN handlers /\ BufferInv'
      /\ expected \in Nat /\ expected' \in Nat
      /\ DOMAIN handlers' = DOMAIN handlers \cup {r}
      /\ \A x \in DOMAIN handlers : handlers'[x] = handlers[x]
      /\ handlers'[r] \in Seq(1..MaxHeight) /\ Len(handlers'[r]) \in Nat
      /\ expected + Len(handlers'[r]) = expected'
      /\ \A i \in 1..Len(handlers'[r]) : handlers'[r][i] = expected + i - 1
  <2>1. handlers'[r] \in Seq(1..MaxHeight)
    BY ReceivedQueue, Zenon
  <2>2. Len(handlers'[r]) \in Nat
    BY <2>1
  <2> QED BY <2>1, <2>2, ReceivedQueue, Zenon
<1>w. working \subseteq DOMAIN handlers /\ r \notin working
  BY <1>q, Zenon DEF DeliveryInv, Queues
<1>1. Fresh'
  BY <1>0, <1>q DEF DeliveryInv, Fresh
<1>2. Queues'
  <2>1. \A x \in DOMAIN handlers' : handlers'[x] \in Seq(1..MaxHeight)
    BY <1>q DEF DeliveryInv, Queues
  <2>2. \A x \in DOMAIN handlers : \A i \in 1..Len(handlers[x]) :
          handlers[x][i] < expected /\ handlers[x][i] \in Nat
    <3>1. \A x \in DOMAIN handlers : handlers[x] \in Seq(1..MaxHeight)
      BY DEF DeliveryInv, Queues
    <3>2. \A x \in DOMAIN handlers : \A i \in 1..Len(handlers[x]) : handlers[x][i] < expected
      BY DEF DeliveryInv, Queues
    <3> QED BY <3>1, <3>2, BufferAssumption
  <2>3. \A x \in DOMAIN handlers' : \A i \in 1..Len(handlers'[x]) : handlers'[x][i] < expected'
    BY <1>q, <2>2
  <2>4. \A x, y \in DOMAIN handlers : \A i \in 1..Len(handlers[x]), j \in 1..Len(handlers[y]) :
          handlers[x][i] = handlers[y][j] => x = y /\ i = j
    BY DEF DeliveryInv, Queues
  <2>5. \A x, y \in DOMAIN handlers' : \A i \in 1..Len(handlers'[x]), j \in 1..Len(handlers'[y]) :
          handlers'[x][i] = handlers'[y][j] => x = y /\ i = j
    BY <1>q, <2>2, <2>4, SMTT(60)
  <2>6. working' \subseteq {x \in DOMAIN handlers' : handlers'[x] # <<>>}
    BY <1>0, <1>q DEF DeliveryInv, Queues
  <2> QED BY <2>1, <2>3, <2>5, <2>6, Zenon DEF Queues
<1>3. Guarded'
  <2>1. \A h \in 1..MaxHeight : Open(h)' => Open(h)
    BY <1>0, <1>q, <1>w DEF Open
  <2> QED BY <1>0, <1>q, <1>w, <2>1, SMTT(60) DEF DeliveryInv, Guarded, Applied
<1>4. AppliedOnce'
  BY <1>0 DEF DeliveryInv, AppliedOnce
<1>5. Recovery'
  BY <1>0, Zenon DEF DeliveryInv, Recovery
<1>6. OneAtATime'
  <2> SUFFICES ASSUME timeouts = 0, crashes = 0 PROVE OneAtATime'
    BY <1>0 DEF OneAtATime
  <2>1. DOMAIN handlers = {}
    <3>1. \A x \in requests \cup responses \cup DOMAIN handlers : x = <<height, attempt>>
      BY DEF DeliveryInv, OneAtATime
    <3> QED BY <1>q, <3>1, ZenonT(60)
  <2>2. lastOrchestratorHeight = expected - 1
    BY <2>1 DEF DeliveryInv, OneAtATime
  <2>3. DOMAIN handlers' = {r} /\ \A i \in 1..Len(handlers'[r]) : handlers'[r][i] = lastOrchestratorHeight + i
    BY <1>q, <2>1, <2>2
  <2>4. lastOrchestratorHeight + Len(handlers'[r]) = expected' - 1
    BY <1>q, <2>2
  <2> QED BY <1>0, <2>3, <2>4, SMTT(60) DEF DeliveryInv, OneAtATime
<1> QED BY <1>0, <1>q, <1>1, <1>2, <1>3, <1>4, <1>5, <1>6, Zenon DEF DeliveryInv

\* A handler drops the first block of its queue.
LEMMA DropFirst ==
  ASSUME DeliveryInv, NEW r \in DOMAIN handlers, handlers[r] # <<>>,
         handlers' = [handlers EXCEPT ![r] = Tail(@)]
  PROVE  /\ DOMAIN handlers' = DOMAIN handlers
         /\ \A x \in DOMAIN handlers : x # r => handlers'[x] = handlers[x]
         /\ handlers'[r] \in Seq(1..MaxHeight)
         /\ Len(handlers[r]) \in Nat /\ Len(handlers[r]) >= 1
         /\ Len(handlers'[r]) = Len(handlers[r]) - 1
         /\ \A i \in 1..Len(handlers'[r]) : handlers'[r][i] = handlers[r][i + 1]
         /\ Head(handlers[r]) = handlers[r][1] /\ handlers[r][1] \in 1..MaxHeight
<1>1. handlers[r] \in Seq(1..MaxHeight)
  BY DEF DeliveryInv, Queues
<1>2. /\ DOMAIN handlers' = DOMAIN handlers /\ handlers'[r] = Tail(handlers[r])
      /\ \A x \in DOMAIN handlers : x # r => handlers'[x] = handlers[x]
  OBVIOUS
<1>3. ASSUME NEW S, NEW q \in Seq(S), q # <<>>
      PROVE  /\ Tail(q) \in Seq(S) /\ Len(q) \in Nat /\ Len(q) >= 1
             /\ Len(Tail(q)) = Len(q) - 1
             /\ \A i \in 1..Len(Tail(q)) : Tail(q)[i] = q[i + 1]
             /\ Head(q) = q[1] /\ q[1] \in S
  BY <1>3
<1> DEFINE q == handlers[r]
<1>4. /\ Tail(q) \in Seq(1..MaxHeight) /\ Len(q) \in Nat /\ Len(q) >= 1
      /\ Len(Tail(q)) = Len(q) - 1
      /\ \A i \in 1..Len(Tail(q)) : Tail(q)[i] = q[i + 1]
      /\ Head(q) = q[1] /\ q[1] \in 1..MaxHeight
  <2> HIDE DEF q
  <2> QED BY <1>1, <1>3, Zenon DEF q
<1> QED BY <1>2, <1>4, Zenon

\* The queues once a handler has dropped its first block; it is not at work then.
LEMMA DropFirstQueues ==
  ASSUME DeliveryInv, NEW r \in DOMAIN handlers, handlers[r] # <<>>,
         handlers' = [handlers EXCEPT ![r] = Tail(@)], working' = working \ {r},
         expected' = expected
  PROVE  Queues'
<1>1. \A x \in DOMAIN handlers' : handlers'[x] \in Seq(1..MaxHeight)
  BY DropFirst, ZenonT(60) DEF DeliveryInv, Queues
<1>2. \A x \in DOMAIN handlers' : \A i \in 1..Len(handlers'[x]) :
        \E k \in 1..Len(handlers[x]) : /\ handlers'[x][i] = handlers[x][k]
                                       /\ k = IF x = r THEN i + 1 ELSE i
  BY DropFirst
<1>3. \A x \in DOMAIN handlers' : \A i \in 1..Len(handlers'[x]) : handlers'[x][i] < expected'
  BY <1>2, DropFirst DEF DeliveryInv, Queues
<1>4. \A x, y \in DOMAIN handlers' : \A i \in 1..Len(handlers'[x]), j \in 1..Len(handlers'[y]) :
        handlers'[x][i] = handlers'[y][j] => x = y /\ i = j
  <2> SUFFICES ASSUME NEW x \in DOMAIN handlers', NEW y \in DOMAIN handlers',
                      NEW i \in 1..Len(handlers'[x]), NEW j \in 1..Len(handlers'[y]),
                      handlers'[x][i] = handlers'[y][j]
               PROVE  x = y /\ i = j
    OBVIOUS
  <2>1. PICK k \in 1..Len(handlers[x]) : /\ handlers'[x][i] = handlers[x][k]
                                         /\ k = IF x = r THEN i + 1 ELSE i
    BY <1>2
  <2>2. PICK l \in 1..Len(handlers[y]) : /\ handlers'[y][j] = handlers[y][l]
                                         /\ l = IF y = r THEN j + 1 ELSE j
    BY <1>2
  <2>3. x = y /\ k = l
    <3>1. x \in DOMAIN handlers /\ y \in DOMAIN handlers
      BY DropFirst
    <3>2. handlers[x][k] = handlers[y][l]
      BY <2>1, <2>2
    <3> QED BY <3>1, <3>2, SMTT(60) DEF DeliveryInv, Queues
  <2> QED BY <1>1, <2>1, <2>2, <2>3
<1>5. working' \subseteq {x \in DOMAIN handlers' : handlers'[x] # <<>>}
  BY DropFirst DEF DeliveryInv, Queues
<1> QED BY <1>1, <1>3, <1>4, <1>5, SMTT(60) DEF Queues

\* What a handler's step, which leaves requests and buffer alone, does not concern.
LEMMA HandlerFrame ==
  ASSUME DeliveryInv, UNCHANGED <<bufferVars, orchestratorVars, requests, responses, recoveryVars>>,
         DOMAIN handlers' = DOMAIN handlers, DOMAIN handlers # {}
  PROVE  BufferInv' /\ Fresh' /\ Recovery' /\ timeouts' \in Nat /\ crashes' \in Nat
<1> USE DEF DeliveryInv, bufferVars, orchestratorVars, recoveryVars
<1>1. BufferInv'
  BY DEF BufferInv, BufferTypeOK, ReleasedInOrder, NothingReadyIsHeld
<1>2. Fresh'
  BY DEF Fresh
<1>3. Recovery'
  BY Zenon DEF Recovery
<1> QED BY <1>1, <1>2, <1>3, Zenon

LEMMA SkipBlockInv ==
  ASSUME DeliveryInv, NEW r, SkipBlock(r)
  PROVE  DeliveryInv'
<1>0. /\ UNCHANGED <<bufferVars, orchestratorVars, requests, responses, recoveryVars>>
      /\ UNCHANGED <<expected, working, lastOrchestratorHeight, applied, timeouts, crashes, up, height, attempt>>
      /\ r \in DOMAIN handlers /\ r \notin working /\ handlers[r] # <<>>
      /\ handlers' = [handlers EXCEPT ![r] = Tail(@)]
      /\ Head(handlers[r]) <= lastOrchestratorHeight
  BY DEF SkipBlock, bufferVars, orchestratorVars, recoveryVars
<1>1. /\ DOMAIN handlers' = DOMAIN handlers
      /\ \A x \in DOMAIN handlers : x # r => handlers'[x] = handlers[x]
      /\ Len(handlers[r]) \in Nat /\ Len(handlers'[r]) = Len(handlers[r]) - 1 /\ Len(handlers[r]) >= 1
      /\ \A i \in 1..Len(handlers'[r]) : handlers'[r][i] = handlers[r][i + 1]
      /\ Head(handlers[r]) = handlers[r][1]
  BY <1>0, DropFirst
<1>2. Queues'
  BY <1>0, DropFirstQueues, ZenonT(60)
<1>3. Guarded'
  <2>1. \A h : Open(h)' => Open(h)
    BY <1>0, <1>1 DEF Open
  <2>2. working \subseteq DOMAIN handlers
    BY DEF DeliveryInv, Queues
  <2> QED BY <1>0, <1>1, <2>1, <2>2 DEF DeliveryInv, Guarded, Applied
<1>4. AppliedOnce'
  BY <1>0 DEF DeliveryInv, AppliedOnce
<1>5. OneAtATime'
  <2> SUFFICES ASSUME timeouts = 0, crashes = 0 PROVE FALSE
    BY <1>0 DEF OneAtATime
  <2>1. handlers[r][1] = lastOrchestratorHeight + 1
    BY <1>0, <1>1, SMTT(60) DEF DeliveryInv, OneAtATime
  <2> QED BY <1>0, <1>1, <2>1 DEF DeliveryInv
<1> QED BY <1>0, <1>1, <1>2, <1>3, <1>4, <1>5, HandlerFrame, SMTT(60) DEF DeliveryInv

\* processOrchestratorBlock begins a block that has not been applied before.
LEMMA BeginBlockInv ==
  ASSUME DeliveryInv, NEW r, BeginBlock(r)
  PROVE  DeliveryInv'
<1>b. PICK b : b = handlers[r][1]
  OBVIOUS
<1>0. /\ UNCHANGED <<bufferVars, orchestratorVars, requests, responses, recoveryVars>>
      /\ UNCHANGED <<expected, handlers, lastOrchestratorHeight, timeouts, crashes, up, height, attempt>>
      /\ r \in DOMAIN handlers /\ r \notin working /\ handlers[r] # <<>>
      /\ working' = working \cup {r}
  BY DEF BeginBlock, bufferVars, orchestratorVars, recoveryVars
<1>1. /\ 1 \in 1..Len(handlers[r]) /\ b \in 1..MaxHeight /\ Head(handlers[r]) = b
  <2>1. handlers[r] \in Seq(1..MaxHeight)
    BY <1>0, Zenon DEF DeliveryInv, Queues
  <2> QED BY <1>0, <1>b, <2>1, BufferAssumption, SMTT(60)
<1>2. b > lastOrchestratorHeight /\ applied' = Append(applied, b) /\ b < expected
  BY <1>0, <1>1, <1>b DEF BeginBlock, DeliveryInv, Queues
<1>t. /\ applied \in Seq(1..MaxHeight) /\ lastOrchestratorHeight \in Nat /\ expected \in Nat
      /\ MaxHeight \in Nat
  BY BufferAssumption DEF DeliveryInv, BufferInv, BufferTypeOK
<1>3. /\ applied' \in Seq(1..MaxHeight)
      /\ Len(applied') = Len(applied) + 1 /\ applied'[Len(applied) + 1] = b
      /\ \A i \in 1..Len(applied) : applied'[i] = applied[i]
      /\ Len(applied) \in Nat
  BY <1>1, <1>2, <1>t
<1>4. \A i \in 1..Len(applied) : applied[i] # b
  <2>1. Open(b)
    BY <1>0, <1>1, <1>b DEF Open
  <2>2. ~(b <= lastOrchestratorHeight)
    BY <1>1, <1>2, <1>t, SMTT(60)
  <2> QED BY <1>1, <2>1, <2>2, Zenon DEF DeliveryInv, Guarded, Applied
<1>5. AppliedOnce'
  BY <1>3, <1>4 DEF DeliveryInv, AppliedOnce
<1>6. \A h : Open(h)' => Open(h) /\ h # b
  <2>1. \A h : Open(h)' => Open(h)
    BY <1>0, Zenon DEF Open
  <2>2. ~Open(b)'
    <3>1. ~(b >= expected)
      BY <1>1, <1>2, <1>t, SMTT(60)
    <3>2. \A x \in DOMAIN handlers : \A i \in 1..Len(handlers[x]) : handlers[x][i] = b => x = r /\ i = 1
      BY <1>0, <1>1, <1>b, SMTT(60) DEF DeliveryInv, Queues
    <3> QED BY <1>0, <3>1, <3>2 DEF Open
  <2> QED BY <2>1, <2>2, SMTT(60)
<1>7. Queues'
  BY <1>0 DEF DeliveryInv, Queues
<1>8. Guarded'
  <2> SUFFICES ASSUME NEW h \in 1..MaxHeight, Applied(h)', Open(h)'
               PROVE  /\ h <= lastOrchestratorHeight
                      /\ \A x \in working' : h <= handlers[x][1]
    BY <1>0 DEF Guarded
  <2>1. h # b /\ Open(h)
    BY <1>6
  <2>2. Applied(h)
    BY <1>3, <2>1, SMTT(60) DEF Applied
  <2>3. h <= lastOrchestratorHeight /\ \A x \in working : h <= handlers[x][1]
    BY <2>1, <2>2 DEF DeliveryInv, Guarded
  <2>4. h <= b
    BY <1>1, <1>2, <1>t, <2>3, SMTT(60)
  <2> QED BY <1>0, <1>b, <2>3, <2>4, Zenon
<1>9. OneAtATime'
  <2> SUFFICES ASSUME timeouts = 0, crashes = 0 PROVE OneAtATime'
    BY <1>0, Zenon DEF OneAtATime
  <2>1. \A x \in DOMAIN handlers : x = r
    BY <1>0, Zenon DEF DeliveryInv, OneAtATime
  <2>2. working = {}
    BY <1>0, <2>1 DEF DeliveryInv, Queues
  <2>3. b = lastOrchestratorHeight + 1 /\ Len(applied) = lastOrchestratorHeight
    BY <1>0, <1>1, <1>b, <2>2 DEF DeliveryInv, OneAtATime
  <2>4. \A i \in 1..Len(applied') : applied'[i] = i
    BY <1>3, <2>3, SMTT(60) DEF DeliveryInv, OneAtATime
  <2>5. working' # {} /\ Len(applied') = lastOrchestratorHeight + 1
    BY <1>0, <1>3, <2>3, Zenon
  <2> QED BY <1>0, <2>4, <2>5, SMTT(60) DEF DeliveryInv, OneAtATime
<1>10. BufferInv' /\ Fresh' /\ Recovery' /\ timeouts' \in Nat /\ crashes' \in Nat
  <2>1. BufferInv' /\ Fresh' /\ timeouts' \in Nat /\ crashes' \in Nat
    BY <1>0, HandlerFrame, Zenon
  <2>2. Recovery'
    BY <1>0 DEF DeliveryInv, Recovery, recoveryVars
  <2> QED BY <2>1, <2>2, Zenon
<1> QED BY <1>0, <1>3, <1>5, <1>7, <1>8, <1>9, <1>10 DEF DeliveryInv

\* processOrchestratorBlock sets the last height, perhaps to a lower one.
LEMMA EndBlockInv ==
  ASSUME DeliveryInv, NEW r, EndBlock(r)
  PROVE  DeliveryInv'
<1>0. /\ UNCHANGED <<bufferVars, orchestratorVars, requests, responses, recoveryVars>>
      /\ UNCHANGED <<expected, applied, timeouts, crashes, up, height, attempt>>
      /\ r \in working /\ working' = working \ {r}
      /\ handlers' = [handlers EXCEPT ![r] = Tail(@)]
      /\ lastOrchestratorHeight' = Head(handlers[r])
  BY DEF EndBlock, bufferVars, orchestratorVars, recoveryVars
<1>w. working \subseteq DOMAIN handlers /\ r \in DOMAIN handlers /\ handlers[r] # <<>>
  BY <1>0 DEF DeliveryInv, Queues
<1>1. /\ DOMAIN handlers' = DOMAIN handlers
      /\ \A x \in DOMAIN handlers : x # r => handlers'[x] = handlers[x]
      /\ Len(handlers[r]) \in Nat /\ Len(handlers'[r]) = Len(handlers[r]) - 1 /\ Len(handlers[r]) >= 1
      /\ \A i \in 1..Len(handlers'[r]) : handlers'[r][i] = handlers[r][i + 1]
      /\ lastOrchestratorHeight' = handlers[r][1] /\ handlers[r][1] \in 1..MaxHeight
  BY <1>0, <1>w, DropFirst, ZenonT(60)
<1>t. /\ MaxHeight \in Nat /\ lastOrchestratorHeight' \in 0..MaxHeight
      /\ applied' \in Seq(1..MaxHeight)
  BY <1>0, <1>1, BufferAssumption DEF DeliveryInv
<1>2. Queues'
  BY <1>0, <1>w, DropFirstQueues, ZenonT(60)
<1>3. Guarded'
  <2>1. \A h : Open(h)' => Open(h)
    BY <1>0, <1>1 DEF Open
  <2>2. \A h : Applied(h)' => Applied(h)
    BY <1>0, Zenon DEF Applied
  <2>3. \A x \in working' : x \in working /\ x # r /\ handlers'[x] = handlers[x]
    BY <1>0, <1>w, <1>1, Zenon
  <2> QED BY <1>0, <1>1, <2>1, <2>2, <2>3 DEF DeliveryInv, Guarded
<1>4. AppliedOnce'
  BY <1>0, Zenon DEF DeliveryInv, AppliedOnce
<1>5. OneAtATime'
  <2> SUFFICES ASSUME timeouts = 0, crashes = 0 PROVE OneAtATime'
    BY <1>0 DEF OneAtATime
  <2>1. \A x \in DOMAIN handlers : x = r
    BY <1>w DEF DeliveryInv, OneAtATime
  <2>2. working' = {} /\ DOMAIN handlers' # {}
    BY <1>0, <1>w, <1>1, <2>1, SMTT(60)
  <2>3. /\ lastOrchestratorHeight \in Nat
        /\ lastOrchestratorHeight' = lastOrchestratorHeight + 1
        /\ Len(applied) = lastOrchestratorHeight + 1
        /\ lastOrchestratorHeight + Len(handlers[r]) = expected - 1
        /\ \A i \in 1..Len(handlers[r]) : handlers[r][i] = lastOrchestratorHeight + i
    <3>1. /\ lastOrchestratorHeight \in Nat
          /\ Len(applied) = lastOrchestratorHeight + 1
          /\ lastOrchestratorHeight + Len(handlers[r]) = expected - 1
      BY <1>0, <1>w, SMTT(60) DEF DeliveryInv, OneAtATime
    <3>2. \A i \in 1..Len(handlers[r]) : handlers[r][i] = lastOrchestratorHeight + i
      BY <1>w, Zenon DEF DeliveryInv, OneAtATime
    <3>3. handlers[r][1] = lastOrchestratorHeight + 1
      BY <1>1, <3>2, SMTT(60)
    <3> QED BY <1>1, <3>1, <3>2, <3>3, SMTT(60)
  <2>4. /\ lastOrchestratorHeight' + Len(handlers'[r]) = expected - 1
        /\ \A i \in 1..Len(handlers'[r]) : handlers'[r][i] = lastOrchestratorHeight' + i
    <3>1. expected \in Nat
      BY DEF DeliveryInv, BufferInv, BufferTypeOK
    <3>2. lastOrchestratorHeight' + Len(handlers'[r]) = expected - 1
      <4>1. Len(handlers[r]) \in Nat /\ Len(handlers'[r]) = Len(handlers[r]) - 1
        BY <1>1, Zenon
      <4>2. /\ lastOrchestratorHeight \in Nat /\ lastOrchestratorHeight' = lastOrchestratorHeight + 1
            /\ lastOrchestratorHeight + Len(handlers[r]) = expected - 1
        BY <2>3, Zenon
      <4>3. \A l, n, e \in Nat : l + n = e - 1 => (l + 1) + (n - 1) = e - 1
        OBVIOUS
      <4>4. (lastOrchestratorHeight + 1) + (Len(handlers[r]) - 1) = expected - 1
        BY <3>1, <4>1, <4>2, <4>3, ZenonT(60)
      <4> QED BY <4>1, <4>2, <4>4, Zenon
    <3>3. ASSUME NEW i \in 1..Len(handlers'[r])
          PROVE  handlers'[r][i] = lastOrchestratorHeight' + i
      <4>1. i + 1 \in 1..Len(handlers[r]) /\ handlers'[r][i] = handlers[r][i + 1]
        BY <1>1
      <4>2. handlers[r][i + 1] = lastOrchestratorHeight + (i + 1)
        BY <2>3, <4>1
      <4> QED BY <2>3, <4>1, <4>2
    <3> QED BY <3>2, <3>3, Zenon
  <2>5. \A x \in requests' \cup responses' \cup DOMAIN handlers' : x = <<height', attempt'>>
    BY <1>0, <1>1 DEF DeliveryInv, OneAtATime
  <2>6. up' /\ \A i \in 1..Len(applied') : applied'[i] = i
    BY <1>0 DEF DeliveryInv, OneAtATime
  <2> QED BY <1>0, <1>1, <2>1, <2>2, <2>3, <2>4, <2>5, <2>6, SMTT(60) DEF OneAtATime
<1>6. BufferInv' /\ Fresh' /\ Recovery' /\ timeouts' \in Nat /\ crashes' \in Nat
  BY <1>0, <1>1, <1>w, HandlerFrame
<1> QED BY <1>2, <1>3, <1>4, <1>5, <1>6, <1>t, Zenon DEF DeliveryInv

LEMMA RespondInv ==
  ASSUME DeliveryInv, NEW r, Respond(r)
  PROVE  DeliveryInv'
<1>0. /\ UNCHANGED <<bufferVars, orchestratorVars, requests, recoveryVars>>
      /\ UNCHANGED <<expected, working, lastOrchestratorHeight, applied, timeouts, crashes, up, height, attempt>>
      /\ r \in DOMAIN handlers /\ handlers[r] = <<>>
      /\ handlers' = [x \in DOMAIN handlers \ {r} |-> handlers[x]]
      /\ responses' \subseteq responses \cup {r}
  BY Zenon DEF Respond, bufferVars, orchestratorVars, recoveryVars
<1>1. /\ DOMAIN handlers' = DOMAIN handlers \ {r}
      /\ \A x \in DOMAIN handlers' : handlers'[x] = handlers[x]
  BY <1>0, Zenon
<1>w. working \subseteq DOMAIN handlers' /\ r \notin working
  BY <1>0, <1>1, SMTT(60) DEF DeliveryInv, Queues
<1>2. BufferInv'
  BY <1>0, SMTT(60) DEF DeliveryInv, BufferInv, BufferTypeOK, ReleasedInOrder, NothingReadyIsHeld, bufferVars
<1>3. Fresh'
  BY <1>0, <1>1, SMTT(60) DEF DeliveryInv, Fresh
<1>4. Queues'
  <2>1. working' \subseteq {x \in DOMAIN handlers' : handlers'[x] # <<>>}
    BY <1>0, <1>1, <1>w, Zenon DEF DeliveryInv, Queues
  <2> QED BY <1>0, <1>1, <2>1, SMTT(60) DEF DeliveryInv, Queues
<1>5. Guarded'
  <2>1. \A h : Open(h)' => Open(h)
    BY <1>0, <1>1, Zenon DEF Open
  <2> QED BY <1>0, <1>1, <1>w, <2>1, Zenon DEF DeliveryInv, Guarded, Applied
<1>6. AppliedOnce'
  BY <1>0, SMTT(60) DEF DeliveryInv, AppliedOnce
<1>7. Recovery'
  BY <1>0, SMTT(60) DEF DeliveryInv, Recovery, recoveryVars
<1>8. OneAtATime'
  <2> SUFFICES ASSUME timeouts = 0, crashes = 0 PROVE OneAtATime'
    BY <1>0 DEF OneAtATime
  <2>1. \A x \in requests \cup responses \cup DOMAIN handlers : x = <<height, attempt>>
    BY Zenon DEF DeliveryInv, OneAtATime
  <2>2. DOMAIN handlers' = {} /\ working = {}
    BY <1>0, <1>1, <1>w, <2>1
  <2>3. lastOrchestratorHeight = expected - 1
    <3>1. lastOrchestratorHeight + Len(handlers[r]) = expected - 1
      BY <1>0 DEF DeliveryInv, OneAtATime
    <3>2. Len(handlers[r]) = 0
      BY <1>0, SMTT(60)
    <3> QED BY <3>1, <3>2, SMTT(60) DEF DeliveryInv
  <2>4. \A x \in requests' \cup responses' \cup DOMAIN handlers' : x = <<height', attempt'>>
    BY <1>0, <1>1, <2>1, SMTT(60)
  <2> QED BY <1>0, <2>2, <2>3, <2>4, SMTT(60) DEF DeliveryInv, OneAtATime
<1> QED BY <1>0, <1>2, <1>3, <1>4, <1>5, <1>6, <1>7, <1>8 DEF DeliveryInv
-----------------------------------------------------------------------------
(* Crash and recovery.                                                     *)

LEMMA CrashInv ==
  ASSUME DeliveryInv, Crash
  PROVE  DeliveryInv'
<1>0. /\ expected' = 1 /\ buffered' = {} /\ released' = <<>>
      /\ DOMAIN handlers' = {} /\ working' = {} /\ lastOrchestratorHeight' = 0 /\ applied' = <<>>
      /\ up' = FALSE /\ crashes' = crashes + 1
      /\ UNCHANGED <<requests, responses, height, attempt, timeouts>>
      /\ \E latest \in {0, height} : recovering' = [h \in 1..latest |-> h]
  BY Zenon DEF Crash, NoHandlers, orchestratorVars
<1>t. MaxHeight \in Nat /\ MaxBuffer \in Nat /\ crashes' \in Nat /\ crashes' # 0 /\ height \in 0..MaxHeight
  BY <1>0, BufferAssumption DEF DeliveryInv, Fresh
<1>1. BufferInv'
  BY <1>0, <1>t, FS_EmptySet, SMTT(60) DEF BufferInv, BufferTypeOK, ReleasedInOrder, NothingReadyIsHeld
<1>2. Fresh'
  BY <1>0, Zenon DEF DeliveryInv, Fresh
<1>3. Queues' /\ Guarded' /\ AppliedOnce'
  BY <1>0 DEF Queues, Guarded, Applied, AppliedOnce
<1>4. Recovery'
  <2>1. PICK latest \in {0, height} : recovering' = [h \in 1..latest |-> h]
    BY <1>0
  <2>2. /\ recovering' \in Seq(1..MaxHeight) /\ Len(recovering') = latest
        /\ \A i \in 1..latest : recovering'[i] = i
    BY <1>t, <2>1
  <2>3. \A i, j \in 1..Len(recovering') : i < j => recovering'[i] < recovering'[j]
    BY <2>2
  <2>4. \A i \in 1..Len(recovering') : recovering'[i] > 0
    BY <1>t, <2>1, <2>2
  <2>5. \A i \in 1..Len(applied') : applied'[i] <= 0
    BY <1>0
  <2> QED BY <1>0, <2>2, <2>3, <2>4, <2>5, Zenon DEF Recovery
<1>5. OneAtATime'
  BY <1>t DEF OneAtATime
<1> QED BY <1>0, <1>t, <1>1, <1>2, <1>3, <1>4, <1>5, SMTT(60) DEF DeliveryInv

\* A restarted shard that is still recovering has no handler and has crashed.
LEMMA RecoveringFacts ==
  ASSUME DeliveryInv, ~up
  PROVE  /\ DOMAIN handlers = {} /\ working = {}
         /\ ~(timeouts = 0 /\ crashes = 0)
         /\ \A i \in 1..Len(applied) : applied[i] <= lastOrchestratorHeight
         /\ \A i \in 1..Len(recovering) : recovering[i] > lastOrchestratorHeight
BY Zenon DEF DeliveryInv, Recovery, OneAtATime

LEMMA RecoverBlockInv ==
  ASSUME DeliveryInv, RecoverBlock
  PROVE  DeliveryInv'
<1>0. /\ UNCHANGED <<bufferVars, orchestratorVars, requests, responses, handlers, working, up, crashes>>
      /\ recovering # <<>> /\ recovering' = Tail(recovering)
      /\ UNCHANGED <<height, attempt, timeouts, expected>>
  BY DEF RecoverBlock, bufferVars, orchestratorVars
<1>u. ~up
  BY <1>0 DEF DeliveryInv, Recovery
<1>f. /\ DOMAIN handlers = {} /\ working = {} /\ ~(timeouts = 0 /\ crashes = 0)
      /\ \A i \in 1..Len(applied) : applied[i] <= lastOrchestratorHeight
      /\ \A i \in 1..Len(recovering) : recovering[i] > lastOrchestratorHeight
  BY <1>u, RecoveringFacts
<1>t. /\ applied \in Seq(1..MaxHeight) /\ recovering \in Seq(1..MaxHeight)
      /\ lastOrchestratorHeight \in 0..MaxHeight /\ MaxHeight \in Nat
      /\ \A i, j \in 1..Len(recovering) : i < j => recovering[i] < recovering[j]
  BY BufferAssumption DEF DeliveryInv, Recovery
<1>r. PICK b \in 1..MaxHeight : b = Head(recovering) /\ b = recovering[1]
  BY <1>0, <1>t
<1>1. /\ recovering' \in Seq(1..MaxHeight)
      /\ Len(recovering') = Len(recovering) - 1 /\ Len(recovering) \in Nat /\ Len(recovering) >= 1
      /\ \A i \in 1..Len(recovering') : recovering'[i] = recovering[i + 1]
  BY <1>0, <1>t
<1>2. /\ \A i, j \in 1..Len(recovering') : i < j => recovering'[i] < recovering'[j]
      /\ \A i \in 1..Len(recovering') : recovering'[i] > b /\ recovering'[i] > lastOrchestratorHeight
      /\ b > lastOrchestratorHeight
  <2>1. \A i \in 1..Len(recovering) : recovering[i] \in Nat
    BY <1>t
  <2>2. b > lastOrchestratorHeight
    BY <1>1, <1>f, <1>r, SMTT(60)
  <2>3. \A i \in 1..Len(recovering') : i + 1 \in 1..Len(recovering) /\ 1 < i + 1
    BY <1>1
  <2>4. \A i \in 1..Len(recovering') : recovering'[i] > b /\ recovering'[i] \in Nat
    <3> SUFFICES ASSUME NEW i \in 1..Len(recovering')
                 PROVE  recovering'[i] > b /\ recovering'[i] \in Nat
      OBVIOUS
    <3>1. recovering'[i] = recovering[i + 1]
      BY <1>1, Zenon
    <3>2. i + 1 \in 1..Len(recovering) /\ 1 \in 1..Len(recovering) /\ 1 < i + 1
      BY <1>1, <2>3
    <3>3. recovering[1] < recovering[i + 1]
      BY <1>t, <3>2, Zenon
    <3> QED BY <1>r, <2>1, <3>1, <3>2, <3>3, Zenon
  <2>5. \A i \in 1..Len(recovering') : recovering'[i] > lastOrchestratorHeight
    BY <1>t, <2>2, <2>4, SMTT(60)
  <2>6. \A i, j \in 1..Len(recovering') : i < j => recovering'[i] < recovering'[j]
    <3> SUFFICES ASSUME NEW i \in 1..Len(recovering'), NEW j \in 1..Len(recovering'), i < j
                 PROVE  recovering'[i] < recovering'[j]
      OBVIOUS
    <3>1. i + 1 < j + 1
      BY <1>1
    <3> QED BY <1>1, <1>t, <2>3, <3>1, ZenonT(60)
  <2> QED BY <2>2, <2>4, <2>5, <2>6
<1>3. ASSUME lastOrchestratorHeight' = b, applied' = Append(applied, b)
      PROVE  /\ Guarded' /\ AppliedOnce' /\ Recovery'
             /\ lastOrchestratorHeight' \in 0..MaxHeight /\ applied' \in Seq(1..MaxHeight)
  <2>1. /\ applied' \in Seq(1..MaxHeight)
        /\ Len(applied') = Len(applied) + 1 /\ applied'[Len(applied) + 1] = b
        /\ \A i \in 1..Len(applied) : applied'[i] = applied[i]
        /\ Len(applied) \in Nat
    BY <1>3, <1>t
  <2>2. \A i \in 1..Len(applied) : applied[i] <= lastOrchestratorHeight /\ applied[i] \in Nat
    BY <1>t, <1>f, SMTT(60)
  <2>3. \A i \in 1..Len(applied') : applied'[i] <= b
    <3>1. \A i \in 1..Len(applied) : applied[i] <= b
      BY <2>2, <1>2, <1>t
    <3>2. \A i \in 1..Len(applied') : i \in 1..Len(applied) \/ i = Len(applied) + 1
      BY <2>1
    <3> QED BY <2>1, <3>1, <3>2, SMTT(60)
  <2>4. AppliedOnce'
    <3>1. \A i \in 1..Len(applied) : applied[i] # b
      BY <2>2, <1>2, <1>t, SMTT(60)
    <3> QED BY <2>1, <3>1 DEF DeliveryInv, AppliedOnce
  <2>5. Guarded'
    BY <1>0, <1>3, <1>f, <2>3, Zenon DEF Guarded, Applied
  <2>6. Recovery'
    BY <1>0, <1>3, <1>u, <1>f, <1>1, <1>2, <2>3, Zenon DEF Recovery
  <2> QED BY <1>3, <1>t, <2>1, <2>4, <2>5, <2>6
<1>4. ASSUME UNCHANGED <<lastOrchestratorHeight, applied>>
      PROVE  /\ Guarded' /\ AppliedOnce' /\ Recovery'
             /\ lastOrchestratorHeight' \in 0..MaxHeight /\ applied' \in Seq(1..MaxHeight)
  <2>1. Guarded' /\ AppliedOnce'
    BY <1>0, <1>4, <1>f, SMTT(60) DEF DeliveryInv, Guarded, Applied, AppliedOnce
  <2>2. Recovery'
    BY <1>0, <1>4, <1>u, <1>f, <1>1, <1>2, Zenon DEF Recovery
  <2> QED BY <1>4, <1>t, <2>1, <2>2, Zenon
<1>5. BufferInv'
  BY <1>0, SMTT(60) DEF DeliveryInv, BufferInv, BufferTypeOK, ReleasedInOrder, NothingReadyIsHeld, bufferVars
<1>6. Fresh' /\ Queues'
  BY <1>0, <1>f, SMTT(60) DEF DeliveryInv, Fresh, Queues
<1>7. OneAtATime' /\ timeouts' \in Nat /\ crashes' \in Nat
  BY <1>0, <1>f, SMTT(60) DEF DeliveryInv, OneAtATime
<1> QED BY <1>3, <1>4, <1>5, <1>6, <1>7, <1>r, SMTT(60) DEF RecoverBlock, DeliveryInv

LEMMA EndRecoveryInv ==
  ASSUME DeliveryInv, EndRecovery
  PROVE  DeliveryInv'
<1>0. /\ ~up /\ recovering = <<>> /\ up' = TRUE
      /\ UNCHANGED <<bufferVars, orchestratorVars, requests, responses, serverVars, recovering, crashes>>
  BY Zenon DEF EndRecovery
<1> USE DEF orchestratorVars, serverVars
<1>f. ~(timeouts = 0 /\ crashes = 0)
  BY <1>0, RecoveringFacts, SMTT(60)
<1>1. BufferInv'
  BY <1>0, SMTT(60) DEF DeliveryInv, BufferInv, BufferTypeOK, ReleasedInOrder, NothingReadyIsHeld, bufferVars
<1>2. Fresh' /\ Queues'
  BY <1>0, SMTT(60) DEF DeliveryInv, Fresh, Queues, bufferVars
<1>3. Guarded' /\ AppliedOnce'
  BY <1>0, SMTT(60) DEF DeliveryInv, Guarded, Applied, Open, AppliedOnce, bufferVars
<1>4. Recovery' /\ OneAtATime'
  BY <1>0, <1>f DEF DeliveryInv, Recovery, OneAtATime
<1> QED BY <1>0, <1>1, <1>2, <1>3, <1>4, SMTT(60) DEF DeliveryInv
-----------------------------------------------------------------------------
LEMMA DeliveryInvariant == Spec => []DeliveryInv
<1>1. DeliveryInv /\ [Next]_vars => DeliveryInv'
  <2> SUFFICES ASSUME DeliveryInv, [Next]_vars PROVE DeliveryInv'
    BY Zenon
  <2>1. CASE UNCHANGED vars
    <3>1. Fresh' /\ OneAtATime' /\ timeouts' \in Nat
      BY <2>1 DEF DeliveryInv, Fresh, OneAtATime, vars, bufferVars, orchestratorVars, serverVars,
                  recoveryVars
    <3> QED BY <2>1, <3>1, ShardUntouched, SMTT(60) DEF DeliveryInv, vars
  <2>2. ASSUME NEW r \in DOMAIN handlers, HandlerStep(r) PROVE DeliveryInv'
    BY <2>2, SkipBlockInv, BeginBlockInv, EndBlockInv, RespondInv, Zenon DEF HandlerStep
  <2> QED
    BY <2>1, <2>2, ProduceInv, AttemptSucceedsInv, ConnectionFailsInv, AttemptTimesOutInv,
       ReceiveInv, CrashInv, RecoverBlockInv, EndRecoveryInv, Zenon DEF Next
<1> QED BY <1>1, DeliveryInitInv, PTL DEF Spec

\* Requests, handlers, heights and queues stay within their bounds, whatever is
\* retried, late or lost, and a handler inside processOrchestratorBlock has a block.
THEOREM DeliveryTypeCorrect == Spec => []TypeOK
<1>1. DeliveryInv => TypeOK
  <2> SUFFICES ASSUME DeliveryInv PROVE TypeOK
    BY SMTT(60)
  <2>1. requests \cup responses \cup DOMAIN handlers \subseteq (1..MaxHeight) \X (1..(MaxRetries + 1))
    BY BufferAssumption DEF DeliveryInv, Fresh
  <2> QED BY <2>1 DEF DeliveryInv, BufferInv, Fresh, Queues, TypeOK
<1> QED BY <1>1, DeliveryInvariant, PTL

\* A shard that restarts with an empty buffer, recovers some blocks by replay and is
\* then sent the same ones again, by late requests and in several handlers at once,
\* never processes a block a second time.
THEOREM BlocksAppliedOnce == Spec => []AppliedOnce
<1>1. DeliveryInv => AppliedOnce
  BY DEF DeliveryInv
<1> QED BY <1>1, DeliveryInvariant, PTL

\* As long as no attempt timed out and the shard did not restart, blocks are processed
\* in order without a gap, whatever connections failed and blocks were given up.
THEOREM BlocksInOrderWithoutTimeouts == Spec => []InOrderWithoutTimeouts
<1>1. DeliveryInv => InOrderWithoutTimeouts
  BY DEF DeliveryInv, OneAtATime, InOrderWithoutTimeouts
<1> QED BY <1>1, DeliveryInvariant, PTL

\* The buffer of a shard keeps its promises through concurrent handlers and restarts.
THEOREM BufferKeepsOrder == Spec => [](ReleasedInOrder /\ NothingReadyIsHeld)
<1>1. DeliveryInv => ReleasedInOrder /\ NothingReadyIsHeld
  BY DEF DeliveryInv, BufferInv
<1> QED BY <1>1, DeliveryInvariant, PTL
=============================================================================
