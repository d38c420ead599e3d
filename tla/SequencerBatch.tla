---------------------------- MODULE SequencerBatch ----------------------------
(***************************************************************************)
(* How the sequencer's driver turns L2 blocks into the calldata of one     *)
(* appendSequencerBatch: BatchElementFromBlock, GenSequencerBatchParams,   *)
(* Write and the size limits of CraftBatchTx.  A transaction is opaque but *)
(* for its size; brotli's output is taken to be as long as its input, its  *)
(* worst case up to a constant.                                            *)
(***************************************************************************)
EXTENDS L2Blocks, Integers, SequencesExt

CONSTANTS
  NoBatch,        \* no batch: an error was returned
  TxSize,         \* encoded size of each sequencer transaction
  TxLenSize,      \* 3 bytes
  ContextSize,    \* 16 bytes
  ParamsSize,     \* method id, start, total and number of contexts: 15 bytes
  MaxTxSize,      \* cfg.MaxTxSize
  BlockOffset     \* cfg.BlockOffset: the L2 height of CTC element 0

ASSUME SizesAssumption ==
  /\ \A tx \in DOMAIN TxSize : TxSize[tx] \in Nat
  /\ {TxLenSize, ContextSize, ParamsSize, MaxTxSize, BlockOffset} \subseteq Nat
  \* the pruning loop of CraftBatchTx ends: an empty batch is small enough
  /\ ParamsSize + ContextSize <= MaxTxSize

\* Only the sequencer's transactions are kept; queued ones are on L1 already.
BatchElementFromBlock(block) ==
  [timestamp   |-> block.timestamp,
   blockNumber |-> block.blockNumber,
   tx          |-> IF IsQueueOriginL1(block) THEN NoTx ELSE block.tx]

IsSequencerTx(el) == el.tx # NoTx

\* The elements of a batch from which GenSequencerBatchParams starts a group.
NeedsNewGroup_IgnoresTimestamp(batch, i) ==
  \/ i = 1
  \/ /\ IsSequencerTx(batch[i])
     /\ \/ ~IsSequencerTx(batch[i - 1])
        \/ batch[i].blockNumber # batch[i - 1].blockNumber

NeedsNewGroup(batch, i) ==
  \/ i = 1
  \/ batch[i].timestamp # batch[i - 1].timestamp
  \/ /\ IsSequencerTx(batch[i])
     /\ \/ ~IsSequencerTx(batch[i - 1])
        \/ batch[i].blockNumber # batch[i - 1].blockNumber

\* The groups, as sets of consecutive positions.
GroupedBlocks(batch) ==
  LET starts == SetToSortSeq({i \in DOMAIN batch : NeedsNewGroup(batch, i)}, <)
      Next(k) == IF k = Len(starts) THEN Len(batch) + 1 ELSE starts[k + 1]
  IN [k \in DOMAIN starts |-> starts[k] .. Next(k) - 1]

ContextOf(batch, group) ==
  LET sequenced == {i \in group : IsSequencerTx(batch[i])}
      queued    == group \ sequenced
      first     == batch[Min(IF sequenced # {} THEN sequenced ELSE queued)]
  IN [numSequencedTransactions       |-> Cardinality(sequenced),
      numSubsequentQueueTransactions |-> Cardinality(queued),
      timestamp                      |-> first.timestamp,
      blockNumber                    |-> first.blockNumber]

GenSequencerBatchParams(shouldStartAt, batch) ==
  LET groups == GroupedBlocks(batch)
      sent   == SelectSeq(batch, IsSequencerTx)
  IN [shouldStartAtElement  |-> shouldStartAt - BlockOffset,
      totalElementsToAppend |-> Len(batch),
      contexts              |-> [k \in DOMAIN groups |-> ContextOf(batch, groups[k])],
      txs                   |-> [i \in DOMAIN sent |-> sent[i].tx]]

MarkerContext ==
  [numSequencedTransactions |-> 0, numSubsequentQueueTransactions |-> 0,
   timestamp |-> 0, blockNumber |-> 0]

\* ErrMalformedBatch unless there are both contexts and transactions, or none.
Write(params) ==
  IF (params.contexts = <<>>) # (params.txs = <<>>)
  THEN NoBatch
  ELSE [params EXCEPT !.contexts = <<MarkerContext>> \o @]

TxsSize(txs) ==
  FoldLeft(LAMBDA total, tx : total + TxLenSize + TxSize[tx], 0, txs)

CallDataSize(params) ==
  ParamsSize + ContextSize * Len(params.contexts) + TxsSize(params.txs)

\* The elements CraftBatchTx collects from the blocks at start .. end - 1: it
\* stops at the first sequencer transaction that exceeds the size limit.
CollectElements(blocks, start, end) ==
  LET elements == [i \in 1 .. end - start |->
                     BatchElementFromBlock(blocks[start + i - 1])]
      sizeTo(i) == LET sent == SelectSeq(SubSeq(elements, 1, i), IsSequencerTx)
                   IN TxsSize([j \in DOMAIN sent |-> sent[j].tx])
      tooLarge  == {i \in DOMAIN elements : /\ IsSequencerTx(elements[i])
                                            /\ sizeTo(i) > MaxTxSize}
  IN SubSeq(elements, 1, Min(tooLarge \cup {end - start + 1}) - 1)

\* What is left of n elements after one round of pruning.
Prune(n) == (n * 9) \div 10

\* The calldata CraftBatchTx ends up with, or NoBatch.
CraftBatchTx(blocks, start, end) ==
  LET elements == CollectElements(blocks, start, end)
      pruned[n \in 0 .. Len(elements)] ==
        LET data == Write(GenSequencerBatchParams(start, SubSeq(elements, 1, n)))
        IN IF data = NoBatch \/ CallDataSize(data) <= MaxTxSize
           THEN data
           ELSE pruned[Prune(n)]
  IN pruned[Len(elements)]
=============================================================================
