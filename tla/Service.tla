------------------------------- MODULE Service -------------------------------
(***************************************************************************)
(* The orchestrator's service (internal/orchestrator/service.go) and the   *)
(* life of a request in its simulator (internal/orchestrator/simulator.go) *)
(* around the chain.  The goroutines are the HTTP handlers, the simulation *)
(* worker, the worker that expires results, the block producer and Close.  *)
(* The service's map of transactions, the simulator's map of results and   *)
(* the chain have a mutex each, so a goroutine that updates two of them    *)
(* takes two steps.                                                        *)
(*                                                                         *)
(* What a simulation reads and computes is in TwoPhase; here it succeeds   *)
(* or fails.  A panic in a handler ends the request and not the process.   *)
(***************************************************************************)
EXTENDS OrchestratorChain, FiniteSets

CONSTANTS
  Calls,      \* IDs of the requests that are simulated; the others are ordered as they are
  QueueSize,  \* capacity of the simulation queue
  MaxRequests \* bound on the requests that clients make

\* Every ID is that of a request, which carries a transaction.
ASSUME ServiceAssumption ==
  /\ Calls \subseteq TxIDs /\ {QueueSize, MaxRequests} \subseteq Nat
  /\ \A id \in TxIDs : \E tx \in CrossShardTx : tx.id = id

VARIABLES
  pending,    \* map txID -> TxStatus
  results,    \* map txID -> SimulationStatus
  queue,      \* IDs that wait for the worker
  running,    \* the worker's job, as <<ID, what it does next>>, or <<>>
  submitting, \* calls between the check of closing and the send to the queue
  storing,    \* submits between the update of pending and AddTransaction
  marking,    \* votes <<ID, shard>> recorded, with the status not updated yet
  publishing, \* results of the last block, with the status not updated yet
  done, closing, queueClosed, \* what Close has done: see CloseBegins
  refused,    \* history: calls that Submit rejected
  panicked    \* history: calls that were sent to a closed queue

closeVars == <<done, closing, queueClosed>>
simulatorVars == <<results, queue, running, submitting, closeVars, refused, panicked>>
statusVars == <<pending, storing, marking, publishing>>
vars == <<chainVars, simulatorVars, statusVars>>

TxStatus == {"pending", "prepared", "committed", "aborted"}
SimulationStatus == {"pending", "running", "success", "failed"}

\* NewService and NewSimulator.
Init ==
  /\ ChainInit
  /\ pending = EmptyMap /\ results = EmptyMap
  /\ queue = <<>> /\ running = <<>>
  /\ submitting = {} /\ storing = {} /\ marking = {} /\ publishing = EmptyMap
  /\ done = FALSE /\ closing = FALSE /\ queueClosed = FALSE
  /\ refused = {} /\ panicked = {}

Tx(id) == CHOOSE tx \in CrossShardTx : tx.id = id

\* Requests that have not reached the chain yet.
InFlight ==
  submitting \cup storing \cup {queue[i] : i \in 1..Len(queue)}
    \cup (IF running = <<>> THEN {} ELSE {running[1]})

\* The requests that have been made.
Arrived ==
  InFlight \cup DOMAIN pending \cup DOMAIN results \cup refused \cup panicked
    \cup {id \in TxIDs : Submitted(id)}

\* A request with a fresh ID arrives, early enough for the bound on the height.
Arrives(id) ==
  /\ id \notin Arrived
  /\ Cardinality(Arrived) < MaxRequests
  /\ height + VoteTimeout + 2 <= MaxHeight

\* updateStatus: transactions that are not known are left alone.
UpdateStatus(id, status) == IF id \in DOMAIN pending THEN Put(pending, id, status) ELSE pending
-----------------------------------------------------------------------------
(* The handlers of requests.                                               *)

\* Mutant of SubmitStores: the transaction is only noted for the chain.
SubmitSkipsPending(id) ==
  /\ id \notin Calls
  /\ Arrives(id)
  /\ storing' = storing \cup {id}
  /\ UNCHANGED <<chainVars, simulatorVars, pending, marking, publishing>>

\* handleSubmit stores the transaction, ...
SubmitStores(id) ==
  /\ id \notin Calls
  /\ Arrives(id)
  /\ pending' = Put(pending, id, "pending")
  /\ storing' = storing \cup {id}
  /\ UNCHANGED <<chainVars, simulatorVars, marking, publishing>>

\* ... and hands it to the chain.
SubmitAdds(id) ==
  /\ id \in storing
  /\ AddTransaction(Tx(id))
  /\ storing' = storing \ {id}
  /\ UNCHANGED <<simulatorVars, pending, marking, publishing>>

\* handleCall and Submit: a simulator that is closing rejects the call, else the
\* call is noted as pending ...
CallArrives(id) ==
  /\ id \in Calls
  /\ Arrives(id)
  /\ \/ /\ closing
        /\ refused' = refused \cup {id}
        /\ UNCHANGED <<results, submitting>>
     \/ /\ ~closing
        /\ results' = Put(results, id, "pending")
        /\ submitting' = submitting \cup {id}
        /\ UNCHANGED refused
  /\ UNCHANGED <<chainVars, statusVars, queue, running, closeVars, panicked>>

\* ... and sent to the queue, when there is room; a closed queue panics.
CallSent(id) ==
  /\ id \in submitting
  /\ submitting' = submitting \ {id}
  /\ \/ /\ queueClosed
        /\ panicked' = panicked \cup {id}
        /\ UNCHANGED queue
     \/ /\ ~queueClosed
        /\ Len(queue) < QueueSize
        /\ queue' = Append(queue, id)
        /\ UNCHANGED panicked
  /\ UNCHANGED <<chainVars, statusVars, results, running, closeVars, refused>>

\* Mutant of CallTimesOut: the job stays in the queue.
CallTimesOutQueued(id) ==
  /\ id \in submitting
  /\ ~queueClosed /\ Len(queue) = QueueSize
  /\ submitting' = submitting \ {id}
  /\ results' = Put(results, id, "failed")
  /\ refused' = refused \cup {id}
  /\ queue' = Append(queue, id)
  /\ UNCHANGED <<chainVars, statusVars, running, closeVars, panicked>>

\* Mutant of CallTimesOut: the client is refused while the send goes on.
CallTimesOutSendsOn(id) ==
  /\ id \in submitting
  /\ ~queueClosed /\ Len(queue) = QueueSize
  /\ results' = Put(results, id, "failed")
  /\ refused' = refused \cup {id}
  /\ UNCHANGED <<chainVars, statusVars, submitting, queue, running, closeVars, panicked>>

\* The queue stays full for five seconds.
CallTimesOut(id) ==
  /\ id \in submitting
  /\ ~queueClosed /\ Len(queue) = QueueSize
  /\ submitting' = submitting \ {id}
  /\ results' = Put(results, id, "failed")
  /\ refused' = refused \cup {id}
  /\ UNCHANGED <<chainVars, statusVars, queue, running, closeVars, panicked>>
-----------------------------------------------------------------------------
(* The simulator's workers.                                                *)

\* worker takes a job, also from a closed queue.
SimulationStarts ==
  /\ running = <<>> /\ queue # <<>>
  /\ queue' = Tail(queue)
  /\ running' = <<Head(queue), "execute">>
  /\ results' = IF Head(queue) \in DOMAIN results
                THEN Put(results, Head(queue), "running") ELSE results
  /\ UNCHANGED <<chainVars, statusVars, submitting, closeVars, refused, panicked>>

\* The execution ends: the success callback starts with the service's map, the
\* error callback with the chain.
SimulationEnds ==
  /\ running # <<>> /\ running[2] = "execute"
  /\ \E next \in {"store", "add failed"} : running' = <<running[1], next>>
  /\ UNCHANGED <<chainVars, statusVars, results, queue, submitting, closeVars,
                 refused, panicked>>

\* NewService's success callback stores the transaction, ...
SuccessStores ==
  /\ running # <<>> /\ running[2] = "store"
  /\ pending' = Put(pending, running[1], "pending")
  /\ running' = <<running[1], "add">>
  /\ UNCHANGED <<chainVars, results, queue, submitting, closeVars, refused,
                 panicked, storing, marking, publishing>>

\* ... and either callback hands it to the chain.
SimulationAdds ==
  /\ running # <<>> /\ running[2] \in {"add", "add failed"}
  /\ AddTransaction(Tx(running[1]))
  /\ running' = <<running[1], IF running[2] = "add" THEN "record" ELSE "record failed">>
  /\ UNCHANGED <<statusVars, results, queue, submitting, closeVars, refused, panicked>>

\* Mutant of SimulationRecords: the worker does not finish its job.
SimulationHangs ==
  /\ running # <<>> /\ running[2] \in {"record", "record failed"}
  /\ results' = Put(results, running[1], IF running[2] = "record" THEN "success" ELSE "failed")
  /\ UNCHANGED <<chainVars, statusVars, running, queue, submitting, closeVars, refused,
                 panicked>>

\* The end of runSimulation: the result replaces the entry, also one that expired.
SimulationRecords ==
  /\ running # <<>> /\ running[2] \in {"record", "record failed"}
  /\ results' = Put(results, running[1], IF running[2] = "record" THEN "success" ELSE "failed")
  /\ running' = <<>>
  /\ UNCHANGED <<chainVars, statusVars, queue, submitting, closeVars, refused, panicked>>

\* cleanupExpiredResults, ten minutes after Submit or after the simulation: a call
\* that is still being sent, which takes five seconds at most, has not expired.
ExpireResult(id) ==
  /\ id \in DOMAIN results \ submitting
  /\ results' = Del(results, id)
  /\ UNCHANGED <<chainVars, statusVars, queue, running, submitting, closeVars,
                 refused, panicked>>
-----------------------------------------------------------------------------
(* The block producer, the votes, and Close.                               *)

\* blockProducer: statuses and broadcast of a block end before the next one.  The
\* bound on the height leaves room for the requests in flight.  After Close the
\* select may still choose the ticker.
Produce ==
  /\ publishing = EmptyMap
  /\ InFlight # {} => height + VoteTimeout + 2 < MaxHeight
  /\ ProduceBlock
  /\ publishing' = ResultsWithTimeouts
  /\ UNCHANGED <<simulatorVars, pending, storing, marking>>

\* Mutant of PublishStatus: every result is published as a commit.
PublishCommit(id) ==
  /\ id \in DOMAIN publishing
  /\ pending' = UpdateStatus(id, "committed")
  /\ publishing' = Del(publishing, id)
  /\ UNCHANGED <<chainVars, simulatorVars, storing, marking>>

\* The block producer writes the status of one of the block's results.
PublishStatus(id) ==
  /\ id \in DOMAIN publishing
  /\ pending' = UpdateStatus(id, IF publishing[id] THEN "committed" ELSE "aborted")
  /\ publishing' = Del(publishing, id)
  /\ UNCHANGED <<chainVars, simulatorVars, storing, marking>>

\* handleStateShardBlock: a vote goes to the chain, ...
VoteArrives(id, s, canCommit) ==
  /\ RecordVote(id, s, canCommit)
  /\ marking' = IF Accepts(id, s) THEN marking \cup {<<id, s>>} ELSE marking
  /\ UNCHANGED <<simulatorVars, pending, storing, publishing>>

\* ... and one that the chain accepted makes the transaction prepared.
MarkPrepared(m) ==
  /\ m \in marking
  /\ pending' = UpdateStatus(m[1], "prepared")
  /\ marking' = marking \ {m}
  /\ UNCHANGED <<chainVars, simulatorVars, storing, publishing>>

\* Close: the block producer is told to stop, then Stop sets the flag and closes
\* the queue.
CloseBegins ==
  /\ ~done
  /\ done' = TRUE
  /\ UNCHANGED <<closing, queueClosed>>

StopBegins ==
  /\ done /\ ~closing
  /\ closing' = TRUE
  /\ UNCHANGED <<done, queueClosed>>

StopEnds ==
  /\ closing /\ ~queueClosed
  /\ queueClosed' = TRUE
  /\ UNCHANGED <<done, closing>>

Close ==
  /\ CloseBegins \/ StopBegins \/ StopEnds
  /\ UNCHANGED <<chainVars, statusVars, results, queue, running, submitting, refused, panicked>>
-----------------------------------------------------------------------------
WorkerStep ==
  \/ SimulationStarts \/ SimulationEnds \/ SuccessStores \/ SimulationAdds \/ SimulationRecords

Next ==
  \/ \E id \in TxIDs : \/ SubmitStores(id) \/ SubmitAdds(id)
                       \/ CallArrives(id) \/ CallSent(id) \/ CallTimesOut(id)
                       \/ ExpireResult(id) \/ PublishStatus(id)
  \/ WorkerStep
  \/ Produce
  \/ \E id \in TxIDs, s \in Shards, canCommit \in BOOLEAN : VoteArrives(id, s, canCommit)
  \/ \E m \in marking : MarkPrepared(m)
  \/ Close

\* A goroutine that can run runs: the worker, the block producer with its ticker
\* until Close, and handlers that have begun; a call that is being sent is queued or times out.
Fairness ==
  /\ WF_vars(WorkerStep) /\ WF_vars(~done /\ Produce)
  /\ \A id \in TxIDs : /\ WF_vars(SubmitAdds(id)) /\ WF_vars(PublishStatus(id))
                       /\ WF_vars(CallSent(id) \/ CallTimesOut(id))

Spec == Init /\ [][Next]_vars /\ Fairness
-----------------------------------------------------------------------------
\* The service's maps, the queue and the goroutines are of the right shape.
TypeOK ==
  /\ DOMAIN pending \cup DOMAIN results \cup DOMAIN publishing \cup InFlight \subseteq TxIDs
  /\ \A id \in DOMAIN pending : pending[id] \in TxStatus
  /\ \A id \in DOMAIN results : results[id] \in SimulationStatus
  /\ queue \in Seq(Calls) /\ Len(queue) <= QueueSize
  /\ marking \subseteq TxIDs \X Shards
  /\ (queueClosed => closing) /\ (closing => done)

\* A status tells what the chain did: committed and aborted only after a block has
\* published that result, prepared only after the chain has accepted a vote.
StatusTruthful ==
  \A id \in DOMAIN pending :
    /\ pending[id] = "committed" => \E h \in 1..height : ResultAt(id, h) /\ blocks[h].tpcResult[id]
    /\ pending[id] = "aborted" => \E h \in 1..height : ResultAt(id, h) /\ ~blocks[h].tpcResult[id]
    /\ pending[id] = "prepared" => \E b \in ballots : b.id = id

\* A client that is told of a transaction can ask for its status: a submitted
\* transaction that the chain has, and a call that is reported as simulated with
\* success, are in the service's map.
KnownToService ==
  /\ \A id \in TxIDs \ Calls : Submitted(id) => id \in DOMAIN pending
  /\ \A id \in DOMAIN results : results[id] = "success" => Submitted(id) /\ id \in DOMAIN pending

\* A call that Submit rejects, because the queue is full or closing, is never
\* simulated and never reaches the chain.
RefusedNotOrdered == \A id \in refused : id \notin InFlight /\ ~Submitted(id)

\* A call that is in the queue is simulated and, unless the service is closed,
\* decided, whether the simulation succeeds or fails and whatever votes are lost.
QueuedCallDecided ==
  \A id \in Calls : (\E i \in 1..Len(queue) : queue[i] = id)
                      ~> (done \/ \E h \in 1..height : ResultAt(id, h))

\* A transaction that is committed or aborted stays so.
FinalStatusStays ==
  [][\A id \in DOMAIN pending :
       pending[id] \in {"committed", "aborted"} => pending'[id] = pending[id]]_vars

\* No call is sent to the queue after Stop has closed it.
NoSendOnClosedQueue == panicked = {}
=============================================================================
