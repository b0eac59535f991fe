------------------------ MODULE MCSimulationStateDB ------------------------
(***************************************************************************)
(* A sender, and a contract with one slot that can call itself.            *)
(***************************************************************************)
EXTENDS SimulationStateDB

CONSTANTS a, b

MCKeys == {<<b, 1>>}
=============================================================================
