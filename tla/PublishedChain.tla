---------------------------- MODULE PublishedChain ----------------------------
(***************************************************************************)
(* What the rollup promises to anybody who reads L1: the sequencer's chain *)
(* only grows, and what L1 publishes is always a prefix of it that only    *)
(* grows, so every reader rebuilds the same L2 chain.                      *)
(***************************************************************************)
EXTENDS SequencesExt, Naturals

VARIABLES
  chain,        \* the sequencer's blocks
  published     \* the blocks a reader of L1 rebuilds

Init ==
  /\ chain = <<>>
  /\ published = <<>>

Produce ==
  /\ Len(chain') = Len(chain) + 1
  /\ IsPrefix(chain, chain')
  /\ UNCHANGED published

Publish ==
  /\ Len(published) <= Len(published')
  /\ IsPrefix(published', chain)
  /\ UNCHANGED chain

Next == Produce \/ Publish

Spec == Init /\ [][Next]_<<chain, published>>
=============================================================================
