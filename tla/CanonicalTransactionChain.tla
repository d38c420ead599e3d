---------------------- MODULE CanonicalTransactionChain ----------------------
(***************************************************************************)
(* The L1 contract that orders L2 transactions: the L1 to L2 queue and the *)
(* batches appended by the sequencer.  The contract keeps the index of the *)
(* next queue element twice, as _nextQueueIndex and inside the packed      *)
(* metadata of the batch container, and computes the two by different      *)
(* sums; ctcLog is what the calldata and the events of the appends leave   *)
(* on L1 for readers.  Gas pricing of enqueue is left out.                 *)
(***************************************************************************)
EXTENDS L1Clock, ChainStorage, Sequences, FiniteSets

CONSTANTS
  Transactions,     \* hashes of enqueued transactions
  SequencerTxs,     \* transactions carried in the calldata of a batch
  OVM_Sequencer,    \* the account the address manager resolves
  MaxUint24         \* 2^24 - 1: counters in the calldata

VARIABLES
  queueElements,    \* the L1 to L2 queue
  nextQueueIndex,   \* _nextQueueIndex
  ctcBatches,       \* ChainStorageContainer-CTC-batches
  ctcLog            \* SequencerBatchAppended events with their calldata

ctcVars == <<queueElements, nextQueueIndex, ctcBatches, ctcLog>>

ASSUME MaxUint24Assumption == MaxUint24 \in Nat

Uint24 == 0 .. MaxUint24

QueueElement ==
  [transactionHash : Transactions, timestamp : Nat, blockNumber : Nat]

BatchContext ==
  [numSequencedTransactions : Uint24, numSubsequentQueueTransactions : Uint24,
   timestamp : Nat, blockNumber : Nat]

AppendSequencerBatchParams ==
  [shouldStartAtElement : Nat, totalElementsToAppend : Uint24,
   contexts : Seq(BatchContext), txs : Seq(SequencerTxs)]

CtcHeader ==
  [batchIndex : Slots, batchRoot : Nat, batchSize : Uint24,
   prevTotalElements : Uint40]

CtcExtraData ==
  [totalElements : Uint40, nextQueueIndex : Uint40, timestamp : Nat,
   blockNumber : Nat]

SequencerBatchAppended ==
  [startingQueueIndex : Nat, numQueueElements : Nat, totalElements : Uint40,
   params : AppendSequencerBatchParams]

CtcTypeOK ==
  /\ queueElements \in Seq(QueueElement)
  /\ nextQueueIndex \in Nat
  /\ ctcBatches \in Buffers(CtcHeader, CtcExtraData)
  /\ ctcLog \in Seq(SequencerBatchAppended)

CtcInit ==
  /\ queueElements = <<>>
  /\ nextQueueIndex = 0
  /\ ctcBatches = EmptyBuffer([totalElements |-> 0, nextQueueIndex |-> 0,
                               timestamp |-> 0, blockNumber |-> 0])
  /\ ctcLog = <<>>

CtcTotalElements == ctcBatches.extraData.totalElements

\* The loop over the contexts, as counts of the elements they announce.
NumSequencer(contexts) ==
  Cardinality({e \in (DOMAIN contexts) \X Uint24 :
                 e[2] < contexts[e[1]].numSequencedTransactions})

NumQueue(contexts) ==
  Cardinality({e \in (DOMAIN contexts) \X Uint24 :
                 e[2] < contexts[e[1]].numSubsequentQueueTransactions})

\* curContext is zero before the loop, so it stays zero without contexts.
LastContext(contexts) ==
  IF contexts = <<>>
  THEN [numSequencedTransactions |-> 0, numSubsequentQueueTransactions |-> 0,
        timestamp |-> 0, blockNumber |-> 0]
  ELSE contexts[Len(contexts)]

Enqueue(transactionHash) ==
  /\ queueElements' =
       Append(queueElements, [transactionHash |-> transactionHash,
                              timestamp       |-> blockTimestamp,
                              blockNumber     |-> blockNumber])
  /\ UNCHANGED <<nextQueueIndex, ctcBatches, ctcLog>>

\* Timestamp and block number recorded for the batch: those of its last
\* element, read from the context or from the queue.
BatchTime(params, nextIndex) ==
  LET last == LastContext(params.contexts) IN
  IF last.numSubsequentQueueTransactions = 0
  THEN [timestamp |-> last.timestamp, blockNumber |-> last.blockNumber]
  ELSE [timestamp   |-> queueElements[nextIndex].timestamp,
        blockNumber |-> queueElements[nextIndex].blockNumber]

\* The packed metadata after the batch; n is its number of queue elements as
\* the total of the batch less the contexts' sequencer transactions.
NextExtraData_AllQueued(params, n, time) ==
  [totalElements  |-> CtcTotalElements + params.totalElementsToAppend,
   nextQueueIndex |-> ctcBatches.extraData.nextQueueIndex
                        + params.totalElementsToAppend,
   timestamp      |-> time.timestamp,
   blockNumber    |-> time.blockNumber]

NextExtraData(params, n, time) ==
  [totalElements  |-> CtcTotalElements + params.totalElementsToAppend,
   nextQueueIndex |-> ctcBatches.extraData.nextQueueIndex + n,
   timestamp      |-> time.timestamp,
   blockNumber    |-> time.blockNumber]

\* The event, emitted before _nextQueueIndex is stored.
AppendedEvent_StaleIndex(params, nextIndex, n) ==
  [startingQueueIndex |-> nextIndex,
   numQueueElements   |-> n,
   totalElements      |-> CtcTotalElements + params.totalElementsToAppend,
   params             |-> params]

AppendedEvent(params, nextIndex, n) ==
  [startingQueueIndex |-> nextIndex - n,
   numQueueElements   |-> n,
   totalElements      |-> CtcTotalElements + params.totalElementsToAppend,
   params             |-> params]

\* _nextQueueIndex after the batch, and the number of queue elements in it.
NextIndex_AllElements(params) == nextQueueIndex + params.totalElementsToAppend

NextIndex(params) == nextQueueIndex + NumQueue(params.contexts)

NumQueued(params) == params.totalElementsToAppend - NumSequencer(params.contexts)

\* The call does not revert: its requires, and checked arithmetic.
AppendAllowed(sender, params) ==
  /\ params.shouldStartAtElement = CtcTotalElements
  /\ sender = OVM_Sequencer
  /\ NextIndex(params) <= Len(queueElements)
  /\ NumQueued(params) \in 0 .. NextIndex(params)
  /\ CtcTotalElements + params.totalElementsToAppend \in Uint40
  /\ ctcBatches.extraData.nextQueueIndex + NumQueued(params) \in Uint40
  /\ CanPush(ctcBatches)

AppendSequencerBatch(sender, params) ==
  LET header == [batchIndex        |-> ctcBatches.length,
                 batchRoot         |-> blockNumber - 1,
                 batchSize         |-> params.totalElementsToAppend,
                 prevTotalElements |-> CtcTotalElements]
      extra  == NextExtraData(params, NumQueued(params),
                              BatchTime(params, NextIndex(params)))
  IN /\ AppendAllowed(sender, params)
     /\ ctcBatches' = Push(ctcBatches, header, extra)
     /\ ctcLog' = Append(ctcLog, AppendedEvent(params, NextIndex(params),
                                               NumQueued(params)))
     /\ nextQueueIndex' = NextIndex(params)
     /\ UNCHANGED queueElements
=============================================================================
