------------------------- MODULE MCTrackingStateDB -------------------------
(***************************************************************************)
(* A sender, a contract with one slot that can call itself, and an address *)
(* of another shard.                                                       *)
(***************************************************************************)
EXTENDS TrackingStateDB

CONSTANTS a, b, r

MCKeys == {<<b, 1>>}
MCBalance == [x \in Addrs |-> IF x = a THEN 1 ELSE 0]
=============================================================================
