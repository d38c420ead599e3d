----------------------------- MODULE RollupChains -----------------------------
(***************************************************************************)
(* The two chains of the rollup on one L1: users enqueue, the sequencer    *)
(* appends transaction batches, the proposer appends state batches for     *)
(* transactions already in the CTC, the fraud verifier deletes state       *)
(* batches inside their window, and L1 blocks are mined in between.        *)
(***************************************************************************)
EXTENDS CanonicalTransactionChain, StateCommitmentChain, Functions

CONSTANTS
  SequencerParams,   \* calldata the sequencer may submit
  StateBatches,      \* batches of state roots the proposer may submit
  MaxQueue,          \* bound: elements ever enqueued
  MaxTimestamp       \* bound: last L1 timestamp

\* What GenSequencerBatchParams guarantees of the calldata it generates.
WellFormed(params) ==
  params.totalElementsToAppend =
    NumSequencer(params.contexts) + NumQueue(params.contexts)

ASSUME ParamsAssumption ==
  /\ SequencerParams \subseteq AppendSequencerBatchParams
  /\ StateBatches \subseteq Seq(Roots)
  /\ \A params \in SequencerParams : WellFormed(params)
  /\ OVM_Sequencer \in Senders
  /\ MaxQueue \in Nat
  /\ MaxTimestamp \in Nat

vars == <<clockVars, ctcVars, sccBatches>>

Init ==
  /\ ClockInit
  /\ CtcInit
  /\ SccInit

L1_MineBlock ==
  /\ blockTimestamp < MaxTimestamp
  /\ MineBlock
  /\ UNCHANGED <<ctcVars, sccBatches>>

CTC_Enqueue ==
  \E tx \in Transactions :
    /\ Len(queueElements) < MaxQueue
    /\ Enqueue(tx)
    /\ UNCHANGED <<clockVars, sccBatches>>

CTC_AppendSequencerBatch ==
  \E sender \in Senders, params \in SequencerParams :
    /\ AppendSequencerBatch(sender, params)
    /\ UNCHANGED <<clockVars, sccBatches>>

SCC_AppendStateBatch ==
  \E sender \in Senders, batch \in StateBatches, start \in Uint40 :
    /\ AppendStateBatch(sender, batch, start, CtcTotalElements)
    /\ UNCHANGED <<clockVars, ctcVars>>

\* The header is an argument of the call.  Only one that some slot holds can
\* be valid; the slots of deleted batches, which still hold theirs, included.
SCC_DeleteStateBatch ==
  \E sender \in Senders, h \in Range(sccBatches.buf) \ {NoObject} :
    /\ DeleteStateBatch(sender, h)
    /\ UNCHANGED <<clockVars, ctcVars>>

Next ==
  \/ L1_MineBlock
  \/ CTC_Enqueue
  \/ CTC_AppendSequencerBatch
  \/ SCC_AppendStateBatch
  \/ SCC_DeleteStateBatch

Spec == Init /\ [][Next]_vars

-----------------------------------------------------------------------------
TypeOK ==
  /\ ClockTypeOK
  /\ CtcTypeOK
  /\ SccTypeOK

\* The state batches in the container are contiguous: each header sits at its
\* own index and starts where the one before ended, and the packed total is
\* where the last one ends (appendStateBatch, deleteStateBatch and the
\* container's truncation keep three pieces of storage in step).
StateBatchesContiguous ==
  LET n == sccBatches.length
      End(i) == sccBatches.buf[i].prevTotalElements + sccBatches.buf[i].batchSize
  IN /\ \A i \in 0 .. n - 1 : sccBatches.buf[i].batchIndex = i
     /\ \A i \in 1 .. n - 1 : sccBatches.buf[i].prevTotalElements = End(i - 1)
     /\ n > 0 => /\ sccBatches.buf[0].prevTotalElements = 0
                 /\ SccTotalElements = End(n - 1)
     /\ n = 0 => SccTotalElements = 0

\* There is never a state root for a transaction that is not canonical, even
\* after deletions (appendStateBatch compares totals kept by two contracts).
RootsOnlyForTransactions == SccTotalElements <= CtcTotalElements

\* The two indices of the next queue element agree (appendSequencerBatch
\* advances one by the contexts' queue counts and the other by the total less
\* the contexts' sequencer counts).
QueueIndicesAgree == ctcBatches.extraData.nextQueueIndex = nextQueueIndex

\* The batches consume the queue in order, without gap or overlap: every
\* event's range starts where the one before ended, and the last one ends at
\* _nextQueueIndex (SequencerBatchAppended is emitted before the update).
QueueConsumedInOrder ==
  LET n == Len(ctcLog)
      End(i) == ctcLog[i].startingQueueIndex + ctcLog[i].numQueueElements
  IN /\ \A i \in 2 .. n : ctcLog[i].startingQueueIndex = End(i - 1)
     /\ n > 0 => /\ ctcLog[1].startingQueueIndex = 0
                 /\ nextQueueIndex = End(n)
     /\ n = 0 => nextQueueIndex = 0
     /\ nextQueueIndex <= Len(queueElements)

\* Finality: a state batch outside its fraud proof window, which is what the
\* L1 messenger relies on when it relays a withdrawal, is never removed or
\* replaced, although deleting an earlier batch deletes all later ones.
Finalized(i) ==
  /\ InBounds(sccBatches, i)
  /\ ~InsideFraudProofWindow(sccBatches.buf[i])

FinalityIsForever ==
  [][\A i \in Slots :
       Finalized(i) => /\ i < sccBatches'.length
                       /\ sccBatches'.buf[i] = sccBatches.buf[i]]_vars
=============================================================================
