---------------------------- MODULE TransportLayer ----------------------------
(***************************************************************************)
(* What the data transport layer makes of one SequencerBatchAppended event *)
(* and its calldata: SequencerBatch.read of core-utils, parseEvent of the  *)
(* event's handler and _makeFullTransaction of the database, which fills   *)
(* in enqueued transactions when they are read.                            *)
(***************************************************************************)
EXTENDS L2Blocks, Integers, SequencesExt

CONSTANT
  BssHardfork1Index    \* first index whose enqueued transactions take the
                       \*   timestamp of their context

\* A first context with timestamp and block number 0 marks a typed batch; it
\* is not one of the contexts.
DecodedContexts(contexts) ==
  IF /\ contexts # <<>>
     /\ contexts[1].timestamp = 0
     /\ contexts[1].blockNumber = 0
  THEN Tail(contexts)
  ELSE contexts

\* parseEvent walks over the contexts with two counters: of the sequencer
\* transactions read from the calldata and of the enqueued ones.  They are sums
\* over the contexts already done.
SequencedBefore(contexts, k) ==
  MapThenSumSet(LAMBDA i : contexts[i].numSequencedTransactions, 1 .. k - 1)

EnqueuedBefore(contexts, k) ==
  MapThenSumSet(LAMBDA i : contexts[i].numSubsequentQueueTransactions, 1 .. k - 1)

\* The entries of context k: its sequencer transactions, then its enqueued ones.
ParseContext(event, contexts, k) ==
  LET context    == contexts[k]
      sequenced  == context.numSequencedTransactions
      index      == SequencedBefore(contexts, k)
      enqueued   == EnqueuedBefore(contexts, k)
      next       == event.totalElements - event.params.totalElementsToAppend
                      + index + enqueued
  IN [j \in 1 .. sequenced |->
        Block(next + j - 1, context.timestamp, context.blockNumber,
              event.params.txs[index + j], NoQueueIndex)]
     \o
     [j \in 1 .. context.numSubsequentQueueTransactions |->
        Block(next + sequenced + j - 1, context.timestamp, 0, NoTx,
              event.startingQueueIndex + enqueued + j - 1)]

ParseEvent(event) ==
  LET contexts == DecodedContexts(event.params.contexts)
  IN FlattenSeq([k \in DOMAIN contexts |-> ParseContext(event, contexts, k)])

\* An enqueued transaction is read from the queue, where element i is at i + 1.
\* Before the hard fork it also kept the timestamp of its L1 block.
MakeFullTransaction_NotMerged(entry, queue) == entry

MakeFullTransaction(entry, queue) ==
  LET enqueue == queue[entry.queueIndex + 1] IN
  IF ~IsQueueOriginL1(entry)
  THEN entry
  ELSE [entry EXCEPT !.blockNumber = enqueue.blockNumber,
                     !.tx          = enqueue.transactionHash,
                     !.timestamp   = IF entry.index >= BssHardfork1Index
                                     THEN @
                                     ELSE enqueue.timestamp]
=============================================================================
