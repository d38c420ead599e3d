------------------------- MODULE StateCommitmentChain -------------------------
(***************************************************************************)
(* The L1 contract holding the proposed state roots.  A batch header's     *)
(* hash is modelled by the header itself and a Merkle root by the sequence *)
(* of its leaves (collision freedom).  The publisher in the header's extra *)
(* data is left out: BondManager.isCollateralized admits the address       *)
(* OVM_Proposer only, so the branch of _appendBatch for another sender,    *)
(* with its publication window, is never taken.                            *)
(***************************************************************************)
EXTENDS L1Clock, ChainStorage, Sequences

CONSTANTS
  Roots,               \* state roots
  Senders,             \* L1 accounts that may call the contract
  OVM_Proposer,        \* the account the address manager resolves
  OVM_FraudVerifier,   \*   under these names
  FRAUD_PROOF_WINDOW

ASSUME SccAssumption ==
  /\ OVM_Proposer \in Senders
  /\ OVM_FraudVerifier \in Senders
  /\ FRAUD_PROOF_WINDOW \in Nat

VARIABLE
  sccBatches           \* ChainStorageContainer-SCC-batches

SccHeader ==
  [batchIndex : Slots, batchRoot : Seq(Roots), batchSize : Nat \ {0},
   prevTotalElements : Uint40, timestamp : Nat \ {0}]

SccExtraData == [totalElements : Uint40, lastSequencerTimestamp : Nat]

SccTypeOK == sccBatches \in Buffers(SccHeader, SccExtraData)

SccInit ==
  sccBatches = EmptyBuffer([totalElements |-> 0, lastSequencerTimestamp |-> 0])

SccTotalElements == sccBatches.extraData.totalElements

\* batches().get reverts out of bounds, so no header is valid there.
IsValidBatchHeader(h) ==
  /\ InBounds(sccBatches, h.batchIndex)
  /\ Get(sccBatches, h.batchIndex) = h

InsideFraudProofWindow(h) ==
  h.timestamp + FRAUD_PROOF_WINDOW > blockTimestamp

\* The element a cross-domain message is proved against: in range of a batch
\* whose header is stored.
VerifyStateCommitment(element, h, index) ==
  /\ IsValidBatchHeader(h)
  /\ index \in 1 .. h.batchSize
  /\ h.batchRoot[index] = element

StateBatchFits_Unbounded(batch, ctcTotal) == TRUE

StateBatchFits(batch, ctcTotal) == SccTotalElements + Len(batch) <= ctcTotal

\* ctcTotal is CanonicalTransactionChain.getTotalElements().
AppendStateBatch(sender, batch, shouldStartAtElement, ctcTotal) ==
  LET header ==
        [batchIndex        |-> sccBatches.length,
         batchRoot         |-> batch,
         batchSize         |-> Len(batch),
         prevTotalElements |-> SccTotalElements,
         timestamp         |-> blockTimestamp]
  IN /\ shouldStartAtElement = SccTotalElements
     /\ sender = OVM_Proposer
     /\ Len(batch) > 0
     /\ StateBatchFits(batch, ctcTotal)
     /\ CanPush(sccBatches)
     /\ sccBatches' =
          Push(sccBatches, header,
               [totalElements          |-> SccTotalElements + Len(batch),
                lastSequencerTimestamp |-> blockTimestamp])

\* Truncates the container, this batch included, and restores the total.
DeleteBatch_KeepTotal(h) ==
  sccBatches' =
    DeleteElementsAfterInclusive(sccBatches, h.batchIndex, sccBatches.extraData)

DeleteBatch(h) ==
  sccBatches' =
    DeleteElementsAfterInclusive(sccBatches, h.batchIndex,
      [totalElements          |-> h.prevTotalElements,
       lastSequencerTimestamp |-> 0])

DeleteStateBatch_AnyTime(sender, h) ==
  /\ sender = OVM_FraudVerifier
  /\ IsValidBatchHeader(h)
  /\ DeleteBatch(h)

DeleteStateBatch(sender, h) ==
  /\ sender = OVM_FraudVerifier
  /\ IsValidBatchHeader(h)
  /\ InsideFraudProofWindow(h)
  /\ DeleteBatch(h)
=============================================================================
