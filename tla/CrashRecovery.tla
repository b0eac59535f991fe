---------------------------- MODULE CrashRecovery ----------------------------
(***************************************************************************)
(* The protocol of TwoPhase with state shards that crash.  NewServer       *)
(* (internal/shard/server.go) opens the accounts at the root that the      *)
(* storage was created with, starts with an empty chain, and replays the   *)
(* orchestrator's blocks (recoverFromOrchestrator) before its block        *)
(* producer starts.  Fetches that fail during the replay are the subject   *)
(* of BlockDelivery.  ValueConserved counts what a shard has still to      *)
(* execute, so a replay that restored its state would keep it.             *)
(***************************************************************************)
EXTENDS TwoPhase

CONSTANT MaxCrashes \* bound: crashes

VARIABLES
  crashes, \* number of crashes
  replayTo \* map shard -> the height up to which it replays

crashVars == <<crashes, replayTo>>

CrashInit ==
  /\ Init
  /\ crashes = 0
  /\ replayTo = [s \in Shards |-> 0]

\* A shard stops at any point and starts again.
Crash(s) ==
  /\ crashes < MaxCrashes
  /\ crashes' = crashes + 1
  /\ replayTo' = [replayTo EXCEPT ![s] = height]
  /\ balance' = [a \in Addrs |-> IF AddressToShard[a] = s THEN InitBalance[a] ELSE balance[a]]
  /\ storage' = [a \in Addrs |-> IF AddressToShard[a] = s THEN [slot \in Slots |-> 0] ELSE storage[a]]
  /\ currentTxs' = [currentTxs EXCEPT ![s] = <<>>]
  /\ adding' = [adding EXCEPT ![s] = <<>>]
  /\ executing' = [executing EXCEPT ![s] = FALSE]
  /\ sortedTxs' = [sortedTxs EXCEPT ![s] = <<>>]
  /\ prepares' = [prepares EXCEPT ![s] = EmptyMap]
  /\ locked' = [locked EXCEPT ![s] = EmptyMap]
  /\ pendingCredits' = [pendingCredits EXCEPT ![s] = EmptyMap]
  /\ pendingCalls' = [pendingCalls EXCEPT ![s] = EmptyMap]
  /\ slotLocks' = [slotLocks EXCEPT ![s] = EmptyMap]
  /\ pendingRwSets' = [pendingRwSets EXCEPT ![s] = EmptyMap]
  /\ processedCommits' = [processedCommits EXCEPT ![s] = {}]
  /\ lastOrchestratorHeight' = [lastOrchestratorHeight EXCEPT ![s] = 0]
  /\ ordersDone' = [ordersDone EXCEPT ![s] = 0]
  /\ UNCHANGED <<chainVars, simulations, voteNet, localVars>>

Replaying(s) == lastOrchestratorHeight[s] < replayTo[s]

\* Blocks broadcast after a replay stay in the buffer, which expects block 1 again
\* (BufferFollowsChain in BlockDelivery).
Deaf(s) == replayTo[s] > 0 /\ ~Replaying(s)

\* A step of the protocol; no block is produced before the replay is over.
Step ==
  /\ Next
  /\ \A s \in Shards :
       /\ Replaying(s) => ~executing'[s]
       /\ Deaf(s) => /\ lastOrchestratorHeight'[s] = lastOrchestratorHeight[s]
                     /\ ordersDone'[s] = ordersDone[s]
                     /\ processedCommits'[s] = processedCommits[s]
  /\ UNCHANGED crashVars

CrashSpec == CrashInit /\ [][Step \/ \E s \in Shards : Crash(s)]_<<vars, crashVars>>
=============================================================================
