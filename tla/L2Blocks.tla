------------------------------- MODULE L2Blocks -------------------------------
(***************************************************************************)
(* L2 blocks as the rollup sees them: one transaction each, with the L1    *)
(* timestamp and block number it runs under, its index in the canonical    *)
(* chain and, if it came from L1, its index in the queue.                  *)
(***************************************************************************)
EXTENDS Naturals

CONSTANTS
  NoTx,            \* no transaction data
  NoQueueIndex     \* QueueIndex is nil: the sequencer's own transaction

\* QueueOrigin of the block's transaction.
IsQueueOriginL1(block) == block.queueIndex # NoQueueIndex

Block(i, ts, bn, t, qi) ==
  [index |-> i, timestamp |-> ts, blockNumber |-> bn, tx |-> t,
   queueIndex |-> qi]
=============================================================================
