---------------------------- MODULE BlockDelivery ----------------------------
(***************************************************************************)
(* How the orchestrator's blocks reach one state shard: the broadcast with *)
(* its retries (internal/orchestrator/service.go), the HTTP handlers of    *)
(* the shard, which run concurrently, the block buffer, and the replay     *)
(* after a restart (internal/shard/server.go).                             *)
(*                                                                         *)
(* The orchestrator produces a block only when the broadcast of the        *)
(* previous one has ended.  An attempt ends with a response, with a failed *)
(* connection, or with a timeout; after a timeout the request may still be *)
(* under way or in a handler.                                              *)
(***************************************************************************)
EXTENDS BlockBuffer

CONSTANTS
  MaxRetries,  \* BroadcastMaxRetries
  MaxTimeouts, \* bound: how many attempts time out
  MaxCrashes   \* bound: how often the shard restarts

ASSUME DeliveryAssumption == {MaxRetries, MaxTimeouts, MaxCrashes} \subseteq Nat

VARIABLES
  height,     \* blocks produced
  attempt,    \* attempt under way for block height; 0 when there is none
  requests,   \* requests sent and not received, as <<height, attempt>>
  handlers,   \* map request -> blocks that its handler has still to process
  working,    \* requests whose handler is inside processOrchestratorBlock
  responses,  \* requests answered with status 200
  lastOrchestratorHeight,
  applied,    \* history: blocks processed and not skipped, in order
  recovering, \* heights that the recovery has still to fetch, from the first
  up,         \* the shard serves requests
  gaveUp,     \* history: blocks whose attempts were exhausted
  timeouts, crashes

orchestratorVars == <<height, attempt, gaveUp, timeouts>>
serverVars == <<handlers, working, lastOrchestratorHeight, applied>>
recoveryVars == <<recovering, up, crashes>>
vars == <<bufferVars, orchestratorVars, requests, responses, serverVars, recoveryVars>>

NoHandlers == [r \in {} |-> <<>>]

Init ==
  /\ BufferInit
  /\ height = 0 /\ attempt = 0
  /\ requests = {} /\ responses = {}
  /\ handlers = NoHandlers /\ working = {}
  /\ lastOrchestratorHeight = 0
  /\ applied = <<>>
  /\ recovering = <<>> /\ up = TRUE
  /\ gaveUp = {} /\ timeouts = 0 /\ crashes = 0
-----------------------------------------------------------------------------
(* The orchestrator's broadcast.                                           *)

\* blockProducer: the next block, and its first attempt.
Produce ==
  /\ attempt = 0
  /\ height < MaxHeight
  /\ height' = height + 1
  /\ attempt' = 1
  /\ requests' = requests \cup {<<height + 1, 1>>}
  /\ UNCHANGED <<bufferVars, gaveUp, timeouts, responses, serverVars, recoveryVars>>

\* The response arrives in time: the broadcast to this shard is done.
AttemptSucceeds ==
  /\ <<height, attempt>> \in responses
  /\ responses' = responses \ {<<height, attempt>>}
  /\ attempt' = 0
  /\ UNCHANGED <<bufferVars, height, gaveUp, timeouts, requests, serverVars, recoveryVars>>

\* Mutants of Retry: one attempt too many; no retry at all.
RetryOnceMore(kept) ==
  \/ /\ attempt <= MaxRetries + 1
     /\ attempt' = attempt + 1
     /\ requests' = kept \cup {<<height, attempt + 1>>}
     /\ UNCHANGED gaveUp
  \/ /\ attempt > MaxRetries + 1
     /\ attempt' = 0
     /\ requests' = kept
     /\ gaveUp' = gaveUp \cup {height}

RetryNever(kept) ==
  /\ attempt' = 0
  /\ requests' = kept
  /\ UNCHANGED gaveUp

\* The loop of sendBlockToShardWithRetry after a failed attempt; kept is what is
\* left of the requests under way.
Retry(kept) ==
  \/ /\ attempt <= MaxRetries
     /\ attempt' = attempt + 1
     /\ requests' = kept \cup {<<height, attempt + 1>>}
     /\ UNCHANGED gaveUp
  \/ /\ attempt > MaxRetries
     /\ attempt' = 0
     /\ requests' = kept
     /\ gaveUp' = gaveUp \cup {height}

\* The connection fails before the shard reads the request, or breaks because the
\* shard stopped while it handled the request.
ConnectionFails ==
  /\ attempt > 0
  /\ <<height, attempt>> \notin DOMAIN handlers \cup responses
  /\ Retry(requests \ {<<height, attempt>>})
  /\ UNCHANGED <<bufferVars, height, timeouts, responses, serverVars, recoveryVars>>

\* BroadcastTimeout passes while the request, its handler or its response is
\* still under way.
AttemptTimesOut ==
  /\ attempt > 0
  /\ timeouts < MaxTimeouts
  /\ timeouts' = timeouts + 1
  /\ Retry(requests)
  /\ responses' = responses \ {<<height, attempt>>}
  /\ UNCHANGED <<bufferVars, height, serverVars, recoveryVars>>
-----------------------------------------------------------------------------
(* The shard's handlers.                                                   *)

\* Mutant of Receive: the block goes to the handler without the buffer.
ReceiveUnbuffered(r) ==
  /\ up
  /\ requests' = requests \ {r}
  /\ handlers' = [x \in DOMAIN handlers \cup {r} |-> IF x = r THEN <<r[1]>> ELSE handlers[x]]
  /\ UNCHANGED <<bufferVars, orchestratorVars, responses, working, lastOrchestratorHeight,
                 applied, recoveryVars>>

\* handleOrchestratorShardBlock: the buffer decides what the handler processes.
Receive(r) ==
  /\ up
  /\ ProcessBlock(r[1])
  /\ requests' = requests \ {r}
  /\ handlers' = [x \in DOMAIN handlers \cup {r} |->
                    IF x = r THEN (IF r[1] = expected THEN Ready ELSE <<>>) ELSE handlers[x]]
  /\ UNCHANGED <<orchestratorVars, responses, working, lastOrchestratorHeight, applied,
                 recoveryVars>>

\* processOrchestratorBlock reads the last height: a block that is not above it
\* is skipped, ...
SkipBlock(r) ==
  /\ r \in DOMAIN handlers \ working
  /\ handlers[r] # <<>>
  /\ Head(handlers[r]) <= lastOrchestratorHeight
  /\ handlers' = [handlers EXCEPT ![r] = Tail(@)]
  /\ UNCHANGED <<bufferVars, orchestratorVars, requests, responses, working,
                 lastOrchestratorHeight, applied, recoveryVars>>

\* Mutant of BeginBlock: without the check of the last height.
BeginAnyBlock(r) ==
  /\ r \in DOMAIN handlers \ working
  /\ handlers[r] # <<>>
  /\ working' = working \cup {r}
  /\ applied' = Append(applied, Head(handlers[r]))
  /\ UNCHANGED <<bufferVars, orchestratorVars, requests, responses, handlers,
                 lastOrchestratorHeight, recoveryVars>>

\* ... the transactions of another one are queued, ...
BeginBlock(r) ==
  /\ r \in DOMAIN handlers \ working
  /\ handlers[r] # <<>>
  /\ Head(handlers[r]) > lastOrchestratorHeight
  /\ working' = working \cup {r}
  /\ applied' = Append(applied, Head(handlers[r]))
  /\ UNCHANGED <<bufferVars, orchestratorVars, requests, responses, handlers,
                 lastOrchestratorHeight, recoveryVars>>

\* ... and its height becomes the last one.
EndBlock(r) ==
  /\ r \in working
  /\ working' = working \ {r}
  /\ lastOrchestratorHeight' = Head(handlers[r])
  /\ handlers' = [handlers EXCEPT ![r] = Tail(@)]
  /\ UNCHANGED <<bufferVars, orchestratorVars, requests, responses, applied, recoveryVars>>

\* The handler has processed its blocks, or had none, and answers.  Nobody waits
\* for the answer to an attempt that timed out.
Respond(r) ==
  /\ r \in DOMAIN handlers
  /\ handlers[r] = <<>>
  /\ handlers' = [x \in DOMAIN handlers \ {r} |-> handlers[x]]
  /\ responses' = IF r = <<height, attempt>> THEN responses \cup {r} ELSE responses
  /\ UNCHANGED <<bufferVars, orchestratorVars, requests, working,
                 lastOrchestratorHeight, applied, recoveryVars>>
-----------------------------------------------------------------------------
(* Crash and recovery.                                                     *)

\* The process stops.  NewServer starts with a new chain and a new buffer, and
\* asks for the latest height, a query that can fail; it serves no request while
\* it recovers.
Crash ==
  /\ up
  /\ crashes < MaxCrashes
  /\ crashes' = crashes + 1
  /\ expected' = 1 /\ buffered' = {} /\ released' = <<>>
  /\ handlers' = NoHandlers /\ working' = {}
  /\ lastOrchestratorHeight' = 0
  /\ applied' = <<>>
  /\ up' = FALSE
  /\ \E latest \in {0, height} : recovering' = [h \in 1..latest |-> h]
  /\ UNCHANGED <<orchestratorVars, requests, responses>>

\* recoverFromOrchestrator, one iteration: the block is fetched and processed,
\* or the fetch fails and the loop continues.
RecoverBlock ==
  /\ recovering # <<>>
  /\ recovering' = Tail(recovering)
  /\ \/ /\ lastOrchestratorHeight' = Head(recovering)
        /\ applied' = Append(applied, Head(recovering))
     \/ UNCHANGED <<lastOrchestratorHeight, applied>>
  /\ UNCHANGED <<bufferVars, orchestratorVars, requests, responses, handlers, working,
                 up, crashes>>

EndRecovery ==
  /\ ~up
  /\ recovering = <<>>
  /\ up' = TRUE
  /\ UNCHANGED <<bufferVars, orchestratorVars, requests, responses, serverVars,
                 recovering, crashes>>

HandlerStep(r) == SkipBlock(r) \/ BeginBlock(r) \/ EndBlock(r) \/ Respond(r)

Next ==
  \/ Produce \/ AttemptSucceeds \/ ConnectionFails \/ AttemptTimesOut
  \/ \E r \in requests : Receive(r)
  \/ \E r \in DOMAIN handlers : HandlerStep(r)
  \/ Crash \/ RecoverBlock \/ EndRecovery

\* The orchestrator's ticker and the goroutines of the shard do not stop; a
\* request whose attempt neither fails nor times out is received.
Fairness ==
  /\ WF_vars(Produce) /\ WF_vars(AttemptSucceeds)
  /\ \A r \in (1..MaxHeight) \X (1..(MaxRetries + 1)) :
       WF_vars(r \in requests /\ Receive(r)) /\ WF_vars(HandlerStep(r))
  /\ WF_vars(RecoverBlock) /\ WF_vars(EndRecovery)

Spec == Init /\ [][Next]_vars /\ Fairness
-----------------------------------------------------------------------------
\* Requests, handlers and heights are within their bounds, and a handler at work
\* has a block to work on.
TypeOK ==
  /\ BufferTypeOK
  /\ height \in 0..MaxHeight /\ attempt \in 0..(MaxRetries + 1)
  /\ requests \cup responses \cup DOMAIN handlers
       \subseteq (1..MaxHeight) \X (1..(MaxRetries + 1))
  /\ \A r \in DOMAIN handlers : handlers[r] \in Seq(1..MaxHeight)
  /\ working \subseteq {r \in DOMAIN handlers : handlers[r] # <<>>}
  /\ lastOrchestratorHeight \in 0..MaxHeight
  /\ applied \in Seq(1..MaxHeight)

\* Each orchestrator block is processed once: a shard never processes a block a
\* second time within a run of the process, whatever is retried or replayed.
AppliedOnce ==
  \A i, j \in 1..Len(applied) : applied[i] = applied[j] => i = j

\* Without timeouts and restarts, failed connections and blocks given up
\* included, a shard processes the blocks in order without a gap.
InOrderWithoutTimeouts ==
  timeouts = 0 /\ crashes = 0 => applied = [i \in 1..Len(applied) |-> i]

\* A shard that does not restart and is not given up on, with no attempt timing
\* out, processes every block.
EveryBlockApplied ==
  [](timeouts = 0 /\ crashes = 0 /\ gaveUp = {}) =>
    \A h \in 1..MaxHeight : (height >= h) ~> (\E i \in 1..Len(applied) : applied[i] = h)

\* processOrchestratorBlock is called for blocks in the correct order.
AppliedInOrder == \A i \in 1..Len(applied) : applied[i] = i

\* After a recovery no block up to the last processed one is missing.
NoBlockMissing ==
  \A h \in 1..lastOrchestratorHeight : \E i \in 1..Len(applied) : applied[i] = h

\* A serving shard with no handler at work expects the block after the last one
\* it processed.
BufferFollowsChain ==
  up /\ handlers = NoHandlers => expected = lastOrchestratorHeight + 1
=============================================================================
