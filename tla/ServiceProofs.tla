---------------------------- MODULE ServiceProofs ----------------------------
(***************************************************************************)
(* Proofs about the orchestrator's service, for any requests, any capacity *)
(* of the simulation queue and any bounds.                                 *)
(*                                                                         *)
(* Between two mutexes a goroutine holds what it is about to write: the    *)
(* inductive invariant ServiceInv says that what it holds is already true  *)
(* of the chain (Announced), which maps have a request at which stage      *)
(* (Known), and that no call is at two stages (Apart).                     *)
(***************************************************************************)
EXTENDS Service, OrchestratorChainProofs

\* The calls in the queue, the call of the worker, and the worker's stages.
Queued == {queue[i] : i \in 1..Len(queue)}
Worker == IF running = <<>> THEN {} ELSE {running[1]}
Stage == {"execute", "store", "add", "add failed", "record", "record failed"}
At(id, stages) == running # <<>> /\ running[1] = id /\ running[2] \in stages

Types ==
  /\ DOMAIN pending \subseteq TxIDs /\ \A id \in DOMAIN pending : pending[id] \in TxStatus
  /\ DOMAIN results \subseteq TxIDs /\ \A id \in DOMAIN results : results[id] \in SimulationStatus
  /\ queue \in Seq(Calls) /\ Len(queue) <= QueueSize
  /\ running = <<>> \/ running \in Calls \X Stage
  /\ submitting \subseteq Calls /\ storing \subseteq TxIDs \ Calls /\ refused \subseteq Calls
  /\ marking \subseteq TxIDs \X Shards
  /\ DOMAIN publishing \subseteq TxIDs
  /\ (queueClosed => closing) /\ (closing => done)

\* The chain has accepted a vote on the transaction.
VotedOn(id) == \E b \in ballots : b.id = id

\* What a status is about to become, or has become, is true.
Announced ==
  /\ \A id \in DOMAIN publishing : \E res \in BOOLEAN : publishing[id] = res /\ Published(id, res)
  /\ \A m \in marking : VotedOn(m[1])
  /\ \A id \in DOMAIN pending : /\ pending[id] = "committed" => Published(id, TRUE)
                                /\ pending[id] = "aborted" => Published(id, FALSE)
                                /\ pending[id] = "prepared" => VotedOn(id)

\* A submit is in the service's map before it is in the chain; a call whose
\* simulation succeeded is in both before it is reported.
Known ==
  /\ KnownToService
  /\ storing \subseteq DOMAIN pending
  /\ \A id \in Calls : /\ At(id, {"add", "record"}) => id \in DOMAIN pending
                       /\ At(id, {"record"}) => Submitted(id)

\* A call that is being sent or was refused is neither queued nor at work, and the
\* chain does not have it.
Apart ==
  /\ submitting \cap refused = {}
  /\ (submitting \cup refused) \cap (Queued \cup Worker) = {}
  /\ \A id \in submitting \cup refused : ~Submitted(id)

ServiceInv == ChainInv /\ Types /\ Announced /\ Known /\ Apart
-----------------------------------------------------------------------------
(* What the steps of the service do to the chain.                          *)

\* The transaction of a request has the request's ID.
LEMMA TxHasID == \A id \in TxIDs : Tx(id) \in CrossShardTx /\ Tx(id).id = id
BY ServiceAssumption DEF Tx

\* Only AddTransaction submits a transaction, and nothing takes it back.
LEMMA SameSubmitted ==
  ASSUME blocks' = blocks, pendingTxs' = pendingTxs
  PROVE  \A id : Submitted(id)' <=> Submitted(id)
BY SameBlocks DEF Submitted

LEMMA AddSubmits ==
  ASSUME ChainInv, NEW tx \in CrossShardTx, AddTransaction(tx)
  PROVE  \A id : Submitted(id)' <=> Submitted(id) \/ id = tx.id
<1>1. /\ blocks' = blocks /\ pendingTxs' = Append(pendingTxs, tx)
      /\ pendingTxs \in Seq(CrossShardTx)
  BY DEF AddTransaction, ChainInv, ChainTypeOK
<1>2. /\ Len(pendingTxs') = Len(pendingTxs) + 1 /\ Len(pendingTxs) \in Nat
      /\ \A i \in 1..Len(pendingTxs) : pendingTxs'[i] = pendingTxs[i]
      /\ pendingTxs'[Len(pendingTxs) + 1] = tx
  BY <1>1
<1>3. \A id : (\E i \in 1..Len(pendingTxs') : pendingTxs'[i].id = id)
                <=> (\E i \in 1..Len(pendingTxs) : pendingTxs[i].id = id) \/ id = tx.id
  BY <1>2
<1> QED BY <1>1, <1>3, SameBlocks DEF Submitted

LEMMA ProduceSubmitsNothing ==
  ASSUME ChainInv, ProduceBlock
  PROVE  \A id : Submitted(id)' <=> Submitted(id)
<1>1. pendingTxs' = <<>>
  BY DEF ProduceBlock
<1>2. \A id : ~(\E i \in 1..Len(pendingTxs') : pendingTxs'[i].id = id)
  BY <1>1
<1>3. \A id : (\E h \in 1..height' : Orders(h, id)')
                <=> (\E h \in 1..height : Orders(h, id)) \/ id \in PendingIDs
  <2>1. \A h : h \in 1..height' <=> h \in 1..height \/ h = height + 1
    BY NewBlock, Zenon
  <2>2. \A h, id : Orders(h, id)' <=> Orders(h, id) \/ (h = height + 1 /\ id \in PendingIDs)
    BY NewBlock, Zenon
  <2>3. \A h, id : Orders(h, id) => h \in 1..height
    BY DEF Orders
  <2> QED BY <2>1, <2>2, <2>3, Zenon
<1> QED BY <1>2, <1>3, ZenonT(60) DEF Submitted, PendingIDs

\* A step of the service is a step of the chain or leaves it alone.
LEMMA ChainStep ==
  ASSUME ServiceInv, Next
  PROVE  [ChainNext]_chainVars
<1>1. ASSUME NEW id \in TxIDs, SubmitAdds(id) PROVE ChainNext
  BY <1>1, TxHasID DEF SubmitAdds, ChainNext
<1>2. CASE SimulationAdds
  <2>1. running[1] \in TxIDs
    BY <1>2, ServiceAssumption DEF SimulationAdds, ServiceInv, Types
  <2> QED BY <1>2, <2>1, TxHasID DEF SimulationAdds, ChainNext
<1>3. CASE Produce
  BY <1>3 DEF Produce, ChainNext
<1>4. ASSUME NEW id \in TxIDs, NEW s \in Shards, NEW canCommit \in BOOLEAN,
             VoteArrives(id, s, canCommit)
      PROVE  ChainNext
  BY <1>4 DEF VoteArrives, ChainNext
<1>5. ASSUME NEW id \in TxIDs,
             \/ SubmitStores(id) \/ CallArrives(id) \/ CallSent(id)
             \/ CallTimesOut(id) \/ ExpireResult(id) \/ PublishStatus(id)
      PROVE  UNCHANGED chainVars
  BY <1>5 DEF SubmitStores, CallArrives, CallSent, CallTimesOut, ExpireResult, PublishStatus
<1>6. CASE SimulationStarts \/ SimulationEnds \/ SuccessStores \/ SimulationRecords \/ Close
  BY <1>6 DEF SimulationStarts, SimulationEnds, SuccessStores, SimulationRecords, Close
<1>7. ASSUME NEW m, MarkPrepared(m) PROVE UNCHANGED chainVars
  BY <1>7 DEF MarkPrepared
<1> QED BY <1>1, <1>2, <1>3, <1>4, <1>5, <1>6, <1>7, ZenonT(60) DEF Next, WorkerStep

\* What the chain has published, the votes it has accepted and the transactions it has
\* only grow.
LEMMA ChainGrows ==
  ASSUME ChainInv, [ChainNext]_chainVars
  PROVE  /\ \A id, res : Published(id, res) => Published(id, res)'
         /\ \A id : VotedOn(id) => VotedOn(id)'
         /\ \A id : Submitted(id) => Submitted(id)'
<1>1. ASSUME NEW tx \in CrossShardTx, AddTransaction(tx)
      PROVE  blocks' = blocks /\ ballots' = ballots /\ \A id : Submitted(id) => Submitted(id)'
  BY <1>1, AddSubmits DEF AddTransaction
<1>2. ASSUME NEW id \in TxIDs, NEW s \in Shards, NEW canCommit \in BOOLEAN,
             RecordVote(id, s, canCommit)
      PROVE  blocks' = blocks /\ pendingTxs' = pendingTxs /\ ballots \subseteq ballots'
  BY <1>2, Zenon DEF RecordVote, RecordNo, RecordYes, IgnoreVote, chainVars
<1>3. CheckTimeouts => blocks' = blocks /\ pendingTxs' = pendingTxs /\ ballots' = ballots
  BY DEF CheckTimeouts
<1>4. UNCHANGED chainVars => blocks' = blocks /\ pendingTxs' = pendingTxs /\ ballots' = ballots
  BY DEF chainVars
<1>5. CASE ProduceBlock
  <2>1. ballots' = ballots
    BY <1>5 DEF ProduceBlock
  <2> QED BY <1>5, <2>1, NewBlock, ProduceSubmitsNothing DEF VotedOn
<1>6. CASE blocks' = blocks /\ ballots \subseteq ballots' /\ \A id : Submitted(id) => Submitted(id)'
  BY <1>6, SameBlocks DEF VotedOn
<1> QED BY <1>1, <1>2, <1>3, <1>4, <1>5, <1>6, SameSubmitted DEF ChainNext
-----------------------------------------------------------------------------
(* What each step preserves.                                               *)

\* NewService: no request is at any stage.
LEMMA InitService == Init => ServiceInv
<1> SUFFICES ASSUME Init PROVE ServiceInv
  OBVIOUS
<1>1. ChainInv
  BY InitInv DEF Init
<1>2. Types
  BY ServiceAssumption DEF Init, Types, EmptyMap
<1>3. Announced
  BY DEF Init, Announced, EmptyMap
<1>4. \A id : ~Submitted(id)
  BY DEF Init, ChainInit, Submitted, height
<1>5. Known
  BY <1>4 DEF Init, Known, KnownToService, EmptyMap, At
<1>6. Apart
  BY DEF Init, Apart
<1> QED BY <1>1, <1>2, <1>3, <1>5, <1>6 DEF ServiceInv

\* The types.
LEMMA TypesStep ==
  ASSUME ServiceInv, Next
  PROVE  Types'
<1> USE DEF ServiceInv, closeVars, simulatorVars, statusVars, TxStatus, SimulationStatus
<1>1. ASSUME NEW id \in TxIDs, SubmitStores(id) PROVE Types'
  BY <1>1 DEF SubmitStores, Types, Put
<1>2. ASSUME NEW id \in TxIDs, SubmitAdds(id) PROVE Types'
  BY <1>2 DEF SubmitAdds, Types
<1>3. ASSUME NEW id \in TxIDs, CallArrives(id) PROVE Types'
  BY <1>3 DEF CallArrives, Types, Put
<1>4. ASSUME NEW id \in TxIDs, CallSent(id) PROVE Types'
  BY <1>4, ServiceAssumption, SMTT(60) DEF CallSent, Types
<1>5. ASSUME NEW id \in TxIDs, CallTimesOut(id) PROVE Types'
  BY <1>5 DEF CallTimesOut, Types, Put
<1>6. ASSUME NEW id \in TxIDs, ExpireResult(id) PROVE Types'
  BY <1>6 DEF ExpireResult, Types, Del
<1>7. ASSUME NEW id \in TxIDs, PublishStatus(id) PROVE Types'
  BY <1>7, Zenon DEF PublishStatus, Types, UpdateStatus, Put, Del
<1>8. CASE SimulationStarts
  <2>1. Head(queue) \in Calls /\ Tail(queue) \in Seq(Calls) /\ Len(Tail(queue)) <= QueueSize
    BY <1>8, ServiceAssumption DEF SimulationStarts, Types
  <2>2. running' \in Calls \X Stage
    BY <1>8, <2>1 DEF SimulationStarts, Stage
  <2>3. DOMAIN results' \subseteq TxIDs /\ \A id \in DOMAIN results' : results'[id] \in SimulationStatus
    BY <1>8 DEF SimulationStarts, Types, Put
  <2> QED BY <1>8, <2>1, <2>2, <2>3, Zenon DEF SimulationStarts, Types
<1>9. CASE SimulationEnds
  <2>1. PICK next \in {"store", "add failed"} : running' = <<running[1], next>>
    BY <1>9 DEF SimulationEnds
  <2>2. running[1] \in Calls
    BY <1>9 DEF SimulationEnds, Types
  <2>3. running' \in Calls \X Stage
    BY <2>1, <2>2 DEF Stage
  <2> QED BY <1>9, <2>3 DEF SimulationEnds, Types
<1>10. CASE SuccessStores
  <2>1. running[1] \in TxIDs /\ <<running[1], "add">> \in Calls \X Stage
    BY <1>10, ServiceAssumption DEF SuccessStores, Types, Stage
  <2>2. DOMAIN pending' \subseteq TxIDs /\ \A id \in DOMAIN pending' : pending'[id] \in TxStatus
    BY <1>10, <2>1 DEF SuccessStores, Types, Put
  <2> QED BY <1>10, <2>1, <2>2, Zenon DEF SuccessStores, Types
<1>11. CASE SimulationAdds
  BY <1>11 DEF SimulationAdds, Types, Stage
<1>12. CASE SimulationRecords
  <2>1. running[1] \in TxIDs
    BY <1>12, ServiceAssumption DEF SimulationRecords, Types
  <2>2. DOMAIN results' \subseteq TxIDs /\ \A id \in DOMAIN results' : results'[id] \in SimulationStatus
    BY <1>12, <2>1 DEF SimulationRecords, Types, Put
  <2> QED BY <1>12, <2>2, Zenon DEF SimulationRecords, Types
<1>13. CASE Produce
  BY <1>13, PublishedResults DEF Produce, Types
<1>14. ASSUME NEW id \in TxIDs, NEW s \in Shards, NEW canCommit, VoteArrives(id, s, canCommit)
       PROVE  Types'
  BY <1>14 DEF VoteArrives, Types
<1>15. ASSUME NEW m, MarkPrepared(m) PROVE Types'
  BY <1>15 DEF MarkPrepared, Types, UpdateStatus, Put
<1>16. CASE Close
  BY <1>16 DEF Close, CloseBegins, StopBegins, StopEnds, Types
<1> QED
  BY <1>1, <1>2, <1>3, <1>4, <1>5, <1>6, <1>7, <1>8, <1>9, <1>10, <1>11, <1>12, <1>13,
     <1>14, <1>15, <1>16, ZenonT(60) DEF Next, WorkerStep

\* The block producer holds results only after ProduceBlock has published them, and a
\* handler of votes only IDs with a ballot; a new entry of the map says "pending".
LEMMA AnnouncedStep ==
  ASSUME ServiceInv, Next
  PROVE  Announced'
<1> USE DEF ServiceInv, closeVars, simulatorVars, statusVars
<1>g. /\ \A id, res : Published(id, res) => Published(id, res)'
      /\ \A id : VotedOn(id) => VotedOn(id)'
  BY ChainStep, ChainGrows, Zenon
<1>1. ASSUME NEW id, pending' = Put(pending, id, "pending"), UNCHANGED <<marking, publishing>>
      PROVE  Announced'
  BY <1>1, <1>g, Zenon DEF Announced, Put
<1>2. ASSUME UNCHANGED <<pending, marking, publishing>> PROVE Announced'
  BY <1>2, <1>g, Zenon DEF Announced
<1>3. ASSUME NEW id \in TxIDs, PublishStatus(id) PROVE Announced'
  <2>1. /\ id \in DOMAIN publishing
        /\ pending' = UpdateStatus(id, IF publishing[id] THEN "committed" ELSE "aborted")
        /\ publishing' = Del(publishing, id) /\ marking' = marking
    BY <1>3 DEF PublishStatus
  <2>2. PICK res \in BOOLEAN : publishing[id] = res /\ Published(id, res)'
    BY <2>1, <1>g, Zenon DEF Announced
  <2>3. \A x \in DOMAIN publishing' : x \in DOMAIN publishing /\ publishing'[x] = publishing[x]
    BY <2>1 DEF Del
  <2>4. \A x \in DOMAIN publishing' : \E r \in BOOLEAN : publishing'[x] = r /\ Published(x, r)'
    BY <2>3, <1>g, Zenon DEF Announced
  <2>5. \A m \in marking' : VotedOn(m[1])'
    BY <2>1, <1>g, Zenon DEF Announced
  <2>6. \A x \in DOMAIN pending' :
          /\ x \in DOMAIN pending
          /\ \/ pending'[x] = pending[x]
             \/ x = id /\ pending'[x] = (IF publishing[id] THEN "committed" ELSE "aborted")
    BY <2>1 DEF UpdateStatus, Put
  <2>7. \A x \in DOMAIN pending' : /\ pending'[x] = "committed" => Published(x, TRUE)'
                                   /\ pending'[x] = "aborted" => Published(x, FALSE)'
                                   /\ pending'[x] = "prepared" => VotedOn(x)'
    <3>1. CASE res = TRUE
      BY <2>2, <2>6, <3>1, <1>g, ZenonT(60) DEF Announced
    <3>2. CASE res = FALSE
      BY <2>2, <2>6, <3>2, <1>g, ZenonT(60) DEF Announced
    <3> QED BY <3>1, <3>2, Zenon
  <2> QED BY <2>4, <2>5, <2>7, Zenon DEF Announced
<1>4. CASE Produce
  <2>1. publishing' = ResultsWithTimeouts /\ UNCHANGED <<pending, marking>> /\ ProduceBlock
    BY <1>4 DEF Produce
  <2>2. \A id \in DOMAIN ResultsWithTimeouts : ResultsWithTimeouts[id] \in BOOLEAN
    BY PublishedResults
  <2>3. \A id, res : id \in DOMAIN ResultsWithTimeouts /\ ResultsWithTimeouts[id] = res
                       => Published(id, res)'
    BY <2>1, NewBlock, Zenon
  <2>4. \A id \in DOMAIN publishing' : \E res \in BOOLEAN : publishing'[id] = res /\ Published(id, res)'
    BY <2>1, <2>2, <2>3
  <2> QED BY <2>1, <2>4, <1>g, Zenon DEF Announced
<1>5. ASSUME NEW id \in TxIDs, NEW s \in Shards, NEW canCommit \in BOOLEAN,
             VoteArrives(id, s, canCommit)
      PROVE  Announced'
  <2>1. /\ UNCHANGED <<pending, publishing>>
        /\ marking' = IF Accepts(id, s) THEN marking \cup {<<id, s>>} ELSE marking
        /\ RecordVote(id, s, canCommit)
    BY <1>5, Zenon DEF VoteArrives
  <2>2. Accepts(id, s) => \E v \in BOOLEAN : [id |-> id, shard |-> s, vote |-> v] \in ballots'
    BY <2>1, Zenon DEF RecordVote, RecordNo, RecordYes, IgnoreVote
  <2>3. Accepts(id, s) => VotedOn(id)'
    BY <2>2, ZenonT(60) DEF VotedOn
  <2>4. \A m \in marking' : VotedOn(m[1])'
    BY <2>1, <2>3, <1>g DEF Announced
  <2> QED BY <2>1, <2>4, <1>g, Zenon DEF Announced
<1>6. ASSUME NEW m, MarkPrepared(m) PROVE Announced'
  <2>1. /\ publishing' = publishing /\ marking' \subseteq marking
        /\ pending' = UpdateStatus(m[1], "prepared")
        /\ VotedOn(m[1])'
    BY <1>6, <1>g DEF MarkPrepared, Announced
  <2> QED BY <2>1, <1>g, ZenonT(60) DEF Announced, UpdateStatus, Put
<1>7. ASSUME NEW id \in TxIDs,
             SubmitAdds(id) \/ CallArrives(id) \/ CallSent(id) \/ CallTimesOut(id) \/ ExpireResult(id)
      PROVE  Announced'
  BY <1>7, <1>2 DEF SubmitAdds, CallArrives, CallSent, CallTimesOut, ExpireResult
<1>8. CASE SimulationStarts \/ SimulationEnds \/ SimulationAdds \/ SimulationRecords \/ Close
  BY <1>8, <1>2 DEF SimulationStarts, SimulationEnds, SimulationAdds, SimulationRecords, Close
<1>9. ASSUME NEW id \in TxIDs, SubmitStores(id) PROVE Announced'
  BY <1>9, <1>1 DEF SubmitStores
<1>10. CASE SuccessStores
  BY <1>10, <1>1 DEF SuccessStores
<1> QED BY <1>3, <1>4, <1>5, <1>6, <1>7, <1>8, <1>9, <1>10, ZenonT(60) DEF Next, WorkerStep

\* handleSubmit and the success callback store a transaction before they add it, and a
\* simulation is reported as a success after both.
LEMMA KnownStep ==
  ASSUME ServiceInv, Next
  PROVE  Known'
<1> USE DEF ServiceInv, closeVars, simulatorVars, statusVars, Known, KnownToService
<1>t. storing \subseteq TxIDs \ Calls /\ (running = <<>> \/ running \in Calls \X Stage)
  BY Zenon DEF Types
<1>u. UNCHANGED chainVars => \A id : Submitted(id)' <=> Submitted(id)
  BY SameSubmitted, Zenon DEF chainVars
<1>1. ASSUME NEW id \in TxIDs, SubmitStores(id) PROVE Known'
  BY <1>1, <1>u, SMTT(60) DEF SubmitStores, Put, At
<1>2. ASSUME NEW id \in TxIDs, SubmitAdds(id) PROVE Known'
  <2>1. \A x : Submitted(x)' <=> Submitted(x) \/ x = id
    BY <1>2, TxHasID, AddSubmits, Zenon DEF SubmitAdds
  <2> QED BY <1>2, <1>t, <2>1, SMTT(60) DEF SubmitAdds, At
<1>3. ASSUME NEW id \in TxIDs, CallArrives(id) PROVE Known'
  BY <1>3, <1>u, Zenon DEF CallArrives, Put, At
<1>4. ASSUME NEW id \in TxIDs, CallSent(id) PROVE Known'
  BY <1>4, <1>u, SMTT(60) DEF CallSent, At
<1>5. ASSUME NEW id \in TxIDs, CallTimesOut(id) PROVE Known'
  BY <1>5, <1>u, SMTT(60) DEF CallTimesOut, Put, At
<1>6. ASSUME NEW id \in TxIDs, ExpireResult(id) PROVE Known'
  BY <1>6, <1>u DEF ExpireResult, Del, At
<1>7. ASSUME NEW id \in TxIDs, PublishStatus(id) PROVE Known'
  BY <1>7, <1>u DEF PublishStatus, UpdateStatus, Put, At
<1>8. CASE SimulationStarts
  BY <1>8, <1>u, SMTT(60) DEF SimulationStarts, Put, At
<1>9. CASE SimulationEnds
  <2>1. PICK next \in {"store", "add failed"} : running' = <<running[1], next>>
    BY <1>9 DEF SimulationEnds
  <2>2. \A id : ~At(id, {"add", "record"})' /\ ~At(id, {"record"})'
    BY <2>1 DEF At
  <2> QED BY <1>9, <1>u, <2>2, ZenonT(60) DEF SimulationEnds
<1>10. CASE SuccessStores
  BY <1>10, <1>u, SMTT(60) DEF SuccessStores, Put, At
<1>11. CASE SimulationAdds
  <2>1. running[1] \in TxIDs /\ running[1] \in Calls
    BY <1>11, <1>t, ServiceAssumption, ZenonT(60) DEF SimulationAdds
  <2>2. \A x : Submitted(x)' <=> Submitted(x) \/ x = running[1]
    BY <1>11, <2>1, TxHasID, AddSubmits, ZenonT(60) DEF SimulationAdds
  <2> QED BY <1>11, <2>1, <2>2, Zenon DEF SimulationAdds, At
<1>12. CASE SimulationRecords
  <2>1. running[1] \in Calls
    BY <1>12, <1>t, ZenonT(60) DEF SimulationRecords
  <2>2. running[2] = "record" => Submitted(running[1]) /\ running[1] \in DOMAIN pending
    BY <1>12, <2>1 DEF SimulationRecords, At
  <2> QED BY <1>12, <1>u, <2>2, ZenonT(60) DEF SimulationRecords, Put, At
<1>13. CASE Produce
  BY <1>13, ProduceSubmitsNothing, SMTT(60) DEF Produce, At
<1>14. ASSUME NEW id \in TxIDs, NEW s \in Shards, NEW canCommit \in BOOLEAN,
              VoteArrives(id, s, canCommit)
       PROVE  Known'
  <2>1. blocks' = blocks /\ pendingTxs' = pendingTxs
    BY <1>14, Zenon DEF VoteArrives, RecordVote, RecordNo, RecordYes, IgnoreVote, chainVars
  <2> QED BY <1>14, <2>1, SameSubmitted DEF VoteArrives, At
<1>15. ASSUME NEW m, MarkPrepared(m) PROVE Known'
  BY <1>15, <1>u, SMTT(60) DEF MarkPrepared, UpdateStatus, Put, At
<1>16. CASE Close
  BY <1>16, <1>u DEF Close, At
<1> QED
  BY <1>1, <1>2, <1>3, <1>4, <1>5, <1>6, <1>7, <1>8, <1>9, <1>10, <1>11, <1>12, <1>13,
     <1>14, <1>15, <1>16, ZenonT(60) DEF Next, WorkerStep

\* What the queue holds after a send and after the worker has taken a job.
LEMMA QueueSteps ==
  ASSUME queue \in Seq(Calls)
  PROVE  /\ \A id \in Calls : queue' = Append(queue, id) => Queued' = Queued \cup {id}
         /\ queue # <<>> /\ queue' = Tail(queue) => Queued' \subseteq Queued /\ Head(queue) \in Queued
BY SMTT(60) DEF Queued

\* The client of a call that is refused has waited for the send alone: neither the
\* queue nor the worker nor the chain has got the call from anywhere else.
LEMMA ApartStep ==
  ASSUME ServiceInv, Next
  PROVE  Apart'
<1> USE DEF ServiceInv, closeVars, simulatorVars, statusVars, Apart
<1>t. /\ storing \subseteq TxIDs \ Calls /\ submitting \subseteq Calls /\ refused \subseteq Calls
      /\ queue \in Seq(Calls) /\ (running = <<>> \/ running \in Calls \X Stage)
  BY DEF Types
<1>u. UNCHANGED chainVars => \A id : Submitted(id)' <=> Submitted(id)
  BY SameSubmitted DEF chainVars
<1>q. /\ queue' = queue => Queued' = Queued
      /\ running' = running => Worker' = Worker
  BY ZenonT(60) DEF Queued, Worker
<1>1. ASSUME UNCHANGED <<queue, running, submitting, refused>>,
             \A id \in Calls : Submitted(id)' <=> Submitted(id)
      PROVE  Apart'
  BY <1>1, <1>q, <1>t
<1>2. ASSUME NEW id \in TxIDs, SubmitAdds(id) PROVE Apart'
  <2>1. \A x : Submitted(x)' <=> Submitted(x) \/ x = id
    BY <1>2, TxHasID, AddSubmits DEF SubmitAdds
  <2> QED BY <1>1, <1>2, <1>t, <2>1 DEF SubmitAdds
<1>3. ASSUME NEW id \in TxIDs, CallArrives(id) PROVE Apart'
  <2>1. /\ id \notin Queued \cup Worker /\ id \notin refused /\ id \notin submitting
        /\ ~Submitted(id)
    BY <1>3 DEF CallArrives, Arrives, Arrived, InFlight, Queued, Worker
  <2> QED BY <1>3, <1>u, <1>q, <2>1 DEF CallArrives
<1>4. ASSUME NEW id \in TxIDs, CallSent(id) PROVE Apart'
  BY <1>4, <1>u, <1>q, <1>t, QueueSteps DEF CallSent
<1>5. ASSUME NEW id \in TxIDs, CallTimesOut(id) PROVE Apart'
  BY <1>5, <1>u, <1>q DEF CallTimesOut
<1>6. CASE SimulationStarts
  <2>1. Worker' = {Head(queue)}
    BY <1>6, Zenon DEF SimulationStarts, Worker
  <2> QED BY <1>6, <1>u, <1>t, <2>1, QueueSteps, SMTT(60) DEF SimulationStarts
<1>7. CASE SimulationEnds \/ SuccessStores
  <2>1. \E next : running # <<>> /\ running' = <<running[1], next>>
    BY <1>7 DEF SimulationEnds, SuccessStores
  <2>2. Worker' = Worker
    BY <2>1, SMTT(60) DEF Worker
  <2> QED BY <1>7, <1>u, <1>q, <2>2, Zenon DEF SimulationEnds, SuccessStores
<1>8. CASE SimulationAdds
  <2>1. running[1] \in TxIDs /\ running[1] \in Worker
    BY <1>8, <1>t, ServiceAssumption, Zenon DEF SimulationAdds, Worker
  <2>2. \A x : Submitted(x)' <=> Submitted(x) \/ x = running[1]
    BY <1>8, <2>1, TxHasID, AddSubmits, ZenonT(60) DEF SimulationAdds
  <2>3. Worker' = Worker
    BY <1>8, Zenon DEF SimulationAdds, Worker
  <2> QED BY <1>8, <1>q, <2>1, <2>2, <2>3, Zenon DEF SimulationAdds
<1>9. CASE SimulationRecords
  <2>1. Worker' = {}
    BY <1>9, Zenon DEF SimulationRecords, Worker
  <2> QED BY <1>9, <1>u, <1>q, <2>1, ZenonT(60) DEF SimulationRecords
<1>10. CASE Produce
  BY <1>10, <1>1, ProduceSubmitsNothing, SMTT(60) DEF Produce
<1>11. ASSUME NEW id \in TxIDs, NEW s \in Shards, NEW canCommit \in BOOLEAN,
              VoteArrives(id, s, canCommit)
       PROVE  Apart'
  <2>1. blocks' = blocks /\ pendingTxs' = pendingTxs
    BY <1>11, ZenonT(60) DEF VoteArrives, RecordVote, RecordNo, RecordYes, IgnoreVote, chainVars
  <2> QED BY <1>1, <1>11, <2>1, SameSubmitted DEF VoteArrives
<1>12. ASSUME NEW id \in TxIDs, SubmitStores(id) \/ ExpireResult(id) \/ PublishStatus(id)
       PROVE  Apart'
  BY <1>1, <1>12, <1>u, SMTT(60) DEF SubmitStores, ExpireResult, PublishStatus
<1>13. ASSUME NEW m, MarkPrepared(m) PROVE Apart'
  BY <1>1, <1>13, <1>u, SMTT(60) DEF MarkPrepared
<1>14. CASE Close
  BY <1>1, <1>14, <1>u, SMTT(60) DEF Close
<1> QED
  BY <1>2, <1>3, <1>4, <1>5, <1>6, <1>7, <1>8, <1>9, <1>10, <1>11, <1>12, <1>13, <1>14,
     ZenonT(60) DEF Next, WorkerStep
-----------------------------------------------------------------------------
LEMMA StutterService ==
  ASSUME ServiceInv, UNCHANGED vars
  PROVE  ServiceInv'
<1> USE DEF ServiceInv, vars, chainVars, simulatorVars, statusVars, closeVars
<1>1. ChainInv'
  BY StutterInv, Zenon
<1>2. Types'
  BY Zenon DEF Types
<1>3. Announced'
  <2>1. /\ \A id, res : Published(id, res)' <=> Published(id, res)
        /\ \A id : VotedOn(id)' <=> VotedOn(id)
    BY SameBlocks DEF VotedOn
  <2> QED BY <2>1, Zenon DEF Announced
<1>4. Known'
  BY SameSubmitted DEF Known, KnownToService, At
<1>5. Apart'
  BY SameSubmitted DEF Apart, Queued, Worker
<1> QED BY <1>1, <1>2, <1>3, <1>4, <1>5, SMTT(60)

LEMMA ServiceInvariant == Spec => []ServiceInv
<1>1. ServiceInv /\ [Next]_vars => ServiceInv'
  <2>1. ServiceInv /\ Next => ServiceInv'
    BY ChainStep, NextInv, TypesStep, AnnouncedStep, KnownStep, ApartStep DEF ServiceInv
  <2> QED BY <2>1, StutterService
<1> QED BY <1>1, InitService, PTL DEF Spec

\* The service's maps, its queue and the work of its goroutines keep their types: the
\* queue never holds more than its capacity, and only calls.
THEOREM ServiceTypeCorrect == Spec => []TypeOK
<1>1. ServiceInv => TypeOK
  <2> SUFFICES ASSUME Types PROVE TypeOK
    BY DEF ServiceInv
  <2>1. InFlight \subseteq TxIDs
    BY ServiceAssumption DEF Types, InFlight
  <2> QED BY <2>1 DEF Types, TypeOK
<1> QED BY <1>1, ServiceInvariant, PTL

\* A client that reads a status reads what the chain did: the block producer and the
\* handlers of votes write it after the chain has published the result or accepted the
\* vote, with other requests in between.
THEOREM StatusIsTruthful == Spec => []StatusTruthful
<1>1. ServiceInv => StatusTruthful
  <2> SUFFICES ASSUME ServiceInv PROVE StatusTruthful
    OBVIOUS
  <2>1. \A id : Published(id, TRUE) => \E h \in 1..height : ResultAt(id, h) /\ blocks[h].tpcResult[id]
    BY DEF Published
  <2>2. \A id : Published(id, FALSE) => \E h \in 1..height : ResultAt(id, h) /\ ~blocks[h].tpcResult[id]
    BY DEF Published
  <2> QED BY <2>1, <2>2, Zenon DEF ServiceInv, Announced, VotedOn, StatusTruthful
<1> QED BY <1>1, ServiceInvariant, PTL

\* handleSubmit and the success callback make a transaction known to the service before
\* the chain has it, so a client that is told of it can ask for its status.
THEOREM TxsAreKnown == Spec => []KnownToService
<1>1. ServiceInv => KnownToService
  BY DEF ServiceInv, Known
<1> QED BY <1>1, ServiceInvariant, PTL

\* A call that Submit rejects, when the queue is full or the simulator is closing, is
\* not in flight and never reaches the chain.
THEOREM RefusedCallsNotOrdered == Spec => []RefusedNotOrdered
<1>1. ServiceInv => RefusedNotOrdered
  BY DEF ServiceInv, Types, Apart, RefusedNotOrdered, InFlight, Queued, Worker
<1> QED BY <1>1, ServiceInvariant, PTL
=============================================================================
