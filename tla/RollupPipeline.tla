---------------------------- MODULE RollupPipeline ----------------------------
(***************************************************************************)
(* The way of a transaction from L2 to L1 and back: the sequencer makes    *)
(* blocks of user transactions and of the L1 queue, the batch submitter    *)
(* encodes ranges of blocks and sends them to the CTC, and readers rebuild *)
(* the chain from the CTC's events, its calldata and its queue.            *)
(***************************************************************************)
EXTENDS CanonicalTransactionChain, L2Sequencer, SequencerBatch,
        TransportLayer, BatchSubmitter

CONSTANTS
  ClockSkews,     \* the sequencer's clock less the last L1 timestamp
  MaxQueue,       \* bound: elements ever enqueued
  MaxBlocks,      \* bound: L2 blocks
  MaxTimestamp,   \* bound: last L1 timestamp
  MaxRestarts     \* bound: restarts of the submitter and of the sequencer

VARIABLES
  sequencerRestarts,
  transactions    \* the transport layer's database: what readers rebuild

vars == <<clockVars, ctcVars, sequencerVars, submitterVars, accountVars,
          sequencerRestarts, transactions>>

Init ==
  /\ ClockInit
  /\ CtcInit
  /\ SequencerInit
  /\ SubmitterInit
  /\ sequencerRestarts = 0
  /\ transactions = <<>>

L1_MineBlock ==
  /\ blockTimestamp < MaxTimestamp
  /\ MineBlock
  /\ UNCHANGED <<ctcVars, sequencerVars, submitterVars, accountVars,
                 sequencerRestarts, transactions>>

CTC_Enqueue ==
  \E tx \in Transactions :
    /\ Len(queueElements) < MaxQueue
    /\ Enqueue(tx)
    /\ UNCHANGED <<clockVars, sequencerVars, submitterVars, accountVars,
                   sequencerRestarts, transactions>>

Sequencer_ApplyTransaction ==
  \E skew \in ClockSkews, tx \in SequencerTxs :
    /\ Len(l2Chain) < MaxBlocks
    /\ \E tip \in {ovmBlockNumber, blockNumber} :
         ApplySequencerTransaction(tx, blockTimestamp + skew, tip)
    /\ UNCHANGED <<clockVars, ctcVars, submitterVars, accountVars,
                   sequencerRestarts, transactions>>

Sequencer_ApplyQueue ==
  \E skew \in ClockSkews :
    /\ Len(l2Chain) < MaxBlocks
    /\ ApplyQueueTransaction(queueElements, blockTimestamp + skew)
    /\ UNCHANGED <<clockVars, ctcVars, submitterVars, accountVars,
                   sequencerRestarts, transactions>>

\* The tip of L1 as the transport layer reports it, without waiting for the
\* events up to it to be ingested.
Sequencer_UpdateL1BlockNumber ==
  /\ UpdateL1BlockNumber(blockNumber)
  /\ UNCHANGED <<clockVars, ctcVars, submitterVars, accountVars,
                 sequencerRestarts, transactions>>

Sequencer_Restart ==
  /\ sequencerRestarts < MaxRestarts
  /\ sequencerRestarts' = sequencerRestarts + 1
  /\ InitializeLatestL1
  /\ UNCHANGED <<clockVars, ctcVars, submitterVars, accountVars, transactions>>

-----------------------------------------------------------------------------
\* The steps of the submitter; its view of L1 is what the CTC holds now.
restVars ==
  <<clockVars, ctcVars, sequencerVars, sequencerRestarts, transactions>>

\* Gas estimation runs the call; the latest L1 state stands for the state the node
\* runs it on.
EstimateGas_Skipped(data) == TRUE

EstimateGas(data) == data # Clearing => AppendAllowed(OVM_Sequencer, data)

Submitter_Restart == instance < MaxRestarts /\ Restart /\ UNCHANGED restVars

Submitter_ClearNonceUnavailable == ClearNonceUnavailable /\ UNCHANGED restVars

Submitter_StartClearing == StartClearing /\ UNCHANGED restVars

Submitter_GetBatchBlockRange ==
  /\ GetBatchBlockRange(CtcTotalElements + BlockOffset, Len(l2Chain) + 1)
  /\ UNCHANGED restVars

Submitter_NonceAt == NonceAt /\ UNCHANGED restVars

Submitter_StartSending ==
  /\ phase = "nonced"
  /\ LET data == CraftBatchTx(l2Chain, range.start, range.end) IN
     /\ data # NoBatch
     /\ EstimateGas(data)
     /\ StartSending(data)
     /\ UNCHANGED restVars

Submitter_SkipRound == SkipRound /\ UNCHANGED restVars

Submitter_Publish ==
  /\ phase \in {"clearing", "sending"}
  /\ EstimateGas(sending.data)
  /\ Publish
  /\ UNCHANGED restVars

\* An attempt may have estimated its gas before the nonce was used up.
Submitter_AbortNonceTooLow == AbortNonceTooLow /\ UNCHANGED restVars

Submitter_ReceiveReceipt == ReceiveReceipt(blockNumber) /\ UNCHANGED restVars

\* The transactions of a SequencerBatchAppended event as the transport layer
\* stores and serves them.
ReadBatch(event) ==
  LET entries == ParseEvent(event)
  IN [i \in DOMAIN entries |-> MakeFullTransaction(entries[i], queueElements)]

\* A batch that the CTC does not accept is mined all the same, as a revert.
L1_MineTx ==
  \E tx \in mempool :
    /\ MineTx(tx, blockNumber)
    /\ IF tx.data # Clearing /\ AppendAllowed(OVM_Sequencer, tx.data)
       THEN /\ AppendSequencerBatch(OVM_Sequencer, tx.data)
            /\ transactions' = transactions \o ReadBatch(Last(ctcLog'))
       ELSE UNCHANGED <<ctcVars, transactions>>
    /\ UNCHANGED <<clockVars, sequencerVars, sequencerRestarts>>

Next ==
  \/ L1_MineBlock
  \/ CTC_Enqueue
  \/ Sequencer_ApplyTransaction
  \/ Sequencer_ApplyQueue
  \/ Sequencer_UpdateL1BlockNumber
  \/ Sequencer_Restart
  \/ Submitter_Restart
  \/ Submitter_ClearNonceUnavailable
  \/ Submitter_StartClearing
  \/ Submitter_GetBatchBlockRange
  \/ Submitter_NonceAt
  \/ Submitter_StartSending
  \/ Submitter_SkipRound
  \/ Submitter_Publish
  \/ Submitter_AbortNonceTooLow
  \/ Submitter_ReceiveReceipt
  \/ L1_MineTx

Spec == Init /\ [][Next]_vars

-----------------------------------------------------------------------------
PipelineTypeOK ==
  /\ ClockTypeOK
  /\ CtcTypeOK
  /\ \A block \in ToSet(l2Chain) \cup ToSet(transactions) :
       block \in [index : Nat, timestamp : Nat, blockNumber : Nat,
                 tx : Transactions \cup SequencerTxs,
                 queueIndex : Nat \cup {NoQueueIndex}]
  /\ phase \in Phases
  /\ accountNonce \in Nat
  /\ published \in BOOLEAN

\* Readers of L1 rebuild exactly a growing prefix of the sequencer's chain:
\* every block with its index, transaction, queue index, timestamp and L1 block
\* number, whatever batches, prunings, restarts and context boundaries it went
\* through
\* (GenSequencerBatchParams and Write on one side, the CTC's event and
\* parseEvent on the other).
Abstract == INSTANCE PublishedChain WITH chain     <- l2Chain,
                                         published <- transactions

ReadersRebuildTheChain == Abstract!Spec

\* Whatever the sequencer's chain, a batch that starts where the CTC ends is
\* accepted: its contexts never announce a queue element that L1 does not have
\* and the counts of its contexts add up (CraftBatchTx against the requires of
\* appendSequencerBatch).
FreshBatchesAccepted ==
  LET start == CtcTotalElements + BlockOffset
      data  == CraftBatchTx(l2Chain, start, Len(l2Chain) + 1)
  IN start <= Len(l2Chain) /\ data # NoBatch => AppendAllowed(OVM_Sequencer, data)

\* Timestamps never go back along the sequencer's chain, across restarts and
\* with a clock that is off (the malleation in applyTransactionToTip).
TimestampsMonotone ==
  \A i \in 2 .. Len(l2Chain) : l2Chain[i - 1].timestamp <= l2Chain[i].timestamp

\* What SubmitterProtocol keeps of a batch, of a transaction and of a block.
BatchBlocks(data) ==
  IF data \in {None, Clearing}
  THEN data
  ELSE [start |-> data.shouldStartAtElement + BlockOffset,
        end   |-> data.shouldStartAtElement + BlockOffset
                    + data.totalElementsToAppend]

AbstractTx(tx) ==
  IF tx = None THEN None ELSE [tx EXCEPT !.data = BatchBlocks(@)]

Origin(block) == IF IsQueueOriginL1(block) THEN "queue" ELSE "sequencer"

\* The submitter with the real encoding and the real CTC behaves as
\* SubmitterProtocol says: an accepted batch publishes exactly the blocks it was
\* made of, and appendSequencerBatch refuses none for another reason than its
\* start (CraftBatchTx, AppendSequencerBatchParams, appendSequencerBatch).
Protocol == INSTANCE SubmitterProtocol WITH
  chain     <- [i \in DOMAIN l2Chain |-> Origin(l2Chain[i])],
  total     <- CtcTotalElements,
  tip       <- blockNumber,
  sending   <- AbstractTx(sending),
  mempool   <- {AbstractTx(tx) : tx \in mempool},
  lastMined <- IF lastMined = None THEN None
               ELSE [lastMined EXCEPT !.tx = AbstractTx(@)],
  MaxTip    <- MaxTimestamp,
  MaxEmptyNonce <- MaxUint40

ImplementsSubmitterProtocol == Protocol!Spec
=============================================================================
