----------------------------- MODULE BlockBuffer -----------------------------
(***************************************************************************)
(* The buffer that puts the orchestrator's blocks in order before a state  *)
(* shard processes them (internal/shard/block_buffer.go).  A block is its  *)
(* height.  The buffer's mutex makes ProcessBlock one step.                *)
(***************************************************************************)
EXTENDS Naturals, Sequences, FiniteSets

CONSTANTS
  MaxHeight, \* bound: the orchestrator produces blocks 1 to MaxHeight
  MaxBuffer  \* how many blocks the buffer holds

ASSUME BufferAssumption == MaxHeight \in Nat /\ MaxBuffer \in Nat

VARIABLES
  expected, \* next height to release
  buffered, \* heights that wait for a gap to be filled
  released  \* history: the heights released, in order

bufferVars == <<expected, buffered, released>>

\* NewBlockBuffer(shardID, 1, maxBuffer)
BufferInit ==
  /\ expected = 1
  /\ buffered = {}
  /\ released = <<>>

\* Where the drain loop stops: the first height after the expected one that is
\* not buffered.
NextGap ==
  CHOOSE n \in (expected + 1)..(MaxHeight + 1) :
    n \notin buffered /\ (expected + 1)..(n - 1) \subseteq buffered

\* Mutant of Ready: drained from the last one.
ReadyReversed == [i \in 1..(NextGap - expected) |-> NextGap - i]

\* The blocks that ProcessBlock returns when it receives the expected one.
Ready == [i \in 1..(NextGap - expected) |-> expected + i - 1]

\* Mutants of ReleaseBlock: the buffer is not drained; a newer block is released.
ReleaseBlockAlone(h) ==
  /\ h = expected
  /\ released' = Append(released, h)
  /\ expected' = h + 1
  /\ UNCHANGED buffered

\* block.Height == expected: release it and the buffered blocks that follow.
ReleaseBlock(h) ==
  /\ h = expected
  /\ released' = released \o Ready
  /\ expected' = NextGap
  /\ buffered' = buffered \ expected..(NextGap - 1)

\* block.Height > expected: keep it, if there is room and it is not there yet.
BufferBlock(h) ==
  /\ h > expected
  /\ Cardinality(buffered) < MaxBuffer
  /\ h \notin buffered
  /\ buffered' = buffered \cup {h}
  /\ UNCHANGED <<expected, released>>

\* A full buffer drops the block; an old block and a duplicate are ignored.
IgnoreBlock(h) ==
  /\ \/ h < expected
     \/ h > expected /\ (Cardinality(buffered) >= MaxBuffer \/ h \in buffered)
  /\ UNCHANGED bufferVars

ProcessBlock(h) == ReleaseBlock(h) \/ BufferBlock(h) \/ IgnoreBlock(h)

BufferNext == \E h \in 1..MaxHeight : ProcessBlock(h)

BufferSpec == BufferInit /\ [][BufferNext]_bufferVars
-----------------------------------------------------------------------------
\* Expected, buffered and released heights are heights of blocks.
BufferTypeOK ==
  /\ expected \in 1..(MaxHeight + 1)
  /\ buffered \subseteq 1..MaxHeight
  /\ released \in Seq(1..MaxHeight)

\* Whatever is delivered, in any order and any number of times, ProcessBlock
\* returns the blocks in order, each once, without a gap.
ReleasedInOrder == released = [i \in 1..(expected - 1) |-> i]

\* No block that could be released is left in the buffer, and the buffer never
\* holds more than its limit.
NothingReadyIsHeld ==
  /\ \A h \in buffered : h > expected
  /\ Cardinality(buffered) <= MaxBuffer
=============================================================================
