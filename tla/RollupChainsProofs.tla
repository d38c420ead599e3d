-------------------------- MODULE RollupChainsProofs --------------------------
(***************************************************************************)
(* Proofs, for every value of the constants, of the properties of          *)
(* RollupChains.  The contiguity of the state batches is not inductive as  *)
(* it stands: deleting batch k makes its prevTotalElements the new total,  *)
(* which must bound every earlier batch, and finality needs that a batch   *)
(* appended later is not older.  SccOrder says both.                       *)
(***************************************************************************)
EXTENDS RollupChains, FiniteSetTheorems, TLAPS

SccEnd(i) == sccBatches.buf[i].prevTotalElements + sccBatches.buf[i].batchSize

\* The stored headers, in index order, are ordered by range and by time.
SccOrder ==
  /\ \A i \in Slots : i < sccBatches.length =>
       /\ sccBatches.buf[i] \in SccHeader
       /\ SccEnd(i) <= SccTotalElements
       /\ sccBatches.buf[i].timestamp <= blockTimestamp
  /\ \A i, j \in Slots : i < j /\ j < sccBatches.length =>
       /\ SccEnd(i) <= sccBatches.buf[j].prevTotalElements
       /\ sccBatches.buf[i].timestamp <= sccBatches.buf[j].timestamp

SccInv ==
  /\ SccOrder
  /\ StateBatchesContiguous
  /\ RootsOnlyForTransactions

CtcInv ==
  /\ QueueIndicesAgree
  /\ QueueConsumedInOrder

IInv == TypeOK /\ CtcInv /\ SccInv
-----------------------------------------------------------------------------
\* The counts computed by the loop of appendSequencerBatch are naturals, and
\* the queue count is positive when the last context announces queue elements.
LEMMA ContextCounts ==
  ASSUME NEW contexts \in Seq(BatchContext)
  PROVE  /\ NumSequencer(contexts) \in Nat
         /\ NumQueue(contexts) \in Nat
         /\ LastContext(contexts).numSubsequentQueueTransactions > 0
              => NumQueue(contexts) > 0
<1> DEFINE P == (DOMAIN contexts) \X Uint24
           S == {e \in P : e[2] < contexts[e[1]].numSequencedTransactions}
           Q == {e \in P : e[2] < contexts[e[1]].numSubsequentQueueTransactions}
<1>1. IsFiniteSet(P)
  <2>1. DOMAIN contexts = 1 .. Len(contexts) /\ Len(contexts) \in Nat
    OBVIOUS
  <2>2. IsFiniteSet(1 .. Len(contexts)) /\ IsFiniteSet(Uint24)
    BY <2>1, FS_Interval, MaxUint24Assumption DEF Uint24
  <2>3. QED
    BY <2>1, <2>2, FS_Product
<1>2. /\ IsFiniteSet(S) /\ Cardinality(S) \in Nat
      /\ IsFiniteSet(Q) /\ Cardinality(Q) \in Nat
  BY <1>1, FS_Subset, FS_CardinalityType
<1>3. ASSUME LastContext(contexts).numSubsequentQueueTransactions > 0
      PROVE  Cardinality(Q) > 0
  <2>1. contexts # <<>>
    BY <1>3 DEF LastContext
  <2>2. Len(contexts) \in DOMAIN contexts /\ contexts[Len(contexts)] \in BatchContext
    BY <2>1
  <2>3. contexts[Len(contexts)].numSubsequentQueueTransactions > 0
    BY <1>3, <2>1 DEF LastContext
  <2>4. <<Len(contexts), 0>> \in Q
    BY <2>2, <2>3, MaxUint24Assumption DEF Uint24
  <2> HIDE DEF Q
  <2>5. Cardinality(Q) # 0
    BY <1>2, <2>4, FS_EmptySet
  <2>6. QED
    BY <1>2, <2>5
<1>4. QED
  BY <1>2, <1>3 DEF NumSequencer, NumQueue

\* What an accepted sequencer batch does to the CTC's storage, with the
\* calldata well formed: both copies of the queue index advance by the number
\* of queue elements the contexts announce.
LEMMA AppendSequencerBatchEffect ==
  ASSUME CtcTypeOK, ClockTypeOK, QueueIndicesAgree,
         NEW sender \in Senders, NEW params \in SequencerParams,
         AppendSequencerBatch(sender, params)
  PROVE  LET q == NumQueue(params.contexts) IN
         /\ q \in Nat
         /\ nextQueueIndex' = nextQueueIndex + q
         /\ nextQueueIndex' <= Len(queueElements)
         /\ queueElements' = queueElements
         /\ ctcBatches' \in Buffers(CtcHeader, CtcExtraData)
         /\ ctcBatches'.extraData.nextQueueIndex = nextQueueIndex'
         /\ ctcBatches'.extraData.totalElements =
              CtcTotalElements + params.totalElementsToAppend
         /\ ctcLog' = Append(ctcLog,
              [startingQueueIndex |-> nextQueueIndex,
               numQueueElements   |-> q,
               totalElements      |-> CtcTotalElements + params.totalElementsToAppend,
               params             |-> params])
         /\ CtcTotalElements + params.totalElementsToAppend \in Uint40
<1> DEFINE q == NumQueue(params.contexts)
           s == NumSequencer(params.contexts)
           n == params.totalElementsToAppend
           next == nextQueueIndex + q
           time == BatchTime(params, next)
           header == [batchIndex        |-> ctcBatches.length,
                      batchRoot         |-> blockNumber - 1,
                      batchSize         |-> n,
                      prevTotalElements |-> CtcTotalElements]
           extra == [totalElements  |-> CtcTotalElements + n,
                     nextQueueIndex |-> ctcBatches.extraData.nextQueueIndex + (n - s),
                     timestamp      |-> time.timestamp,
                     blockNumber    |-> time.blockNumber]
<1>1. /\ params \in AppendSequencerBatchParams
      /\ n = s + q
  BY ParamsAssumption DEF WellFormed
<1>2. /\ params.contexts \in Seq(BatchContext)
      /\ n \in Uint24
  BY <1>1 DEF AppendSequencerBatchParams
<1>3. s \in Nat /\ q \in Nat
  BY <1>2, ContextCounts
<1>4. n - s = q
  BY <1>1, <1>3
<1>5. /\ next <= Len(queueElements)
      /\ extra.totalElements \in Uint40
      /\ extra.nextQueueIndex \in Uint40
      /\ ctcBatches.length < MaxUint40
      /\ ctcBatches' = Push(ctcBatches, header, extra)
      /\ ctcLog' = Append(ctcLog, [startingQueueIndex |-> next - (n - s),
                                   numQueueElements   |-> n - s,
                                   totalElements      |-> extra.totalElements,
                                   params             |-> params])
      /\ nextQueueIndex' = next
      /\ queueElements' = queueElements
  BY DEF AppendSequencerBatch, AppendAllowed, NextIndex, NumQueued, CanPush,
         NextExtraData, AppendedEvent
<1>6. time.timestamp \in Nat /\ time.blockNumber \in Nat
  <2> DEFINE last == LastContext(params.contexts)
  <2>1. last \in BatchContext
    <3>1. CASE params.contexts = <<>>
      BY <3>1, MaxUint24Assumption DEF LastContext, BatchContext, Uint24
    <3>2. CASE params.contexts # <<>>
      <4>1. Len(params.contexts) \in 1 .. Len(params.contexts)
        BY <1>2, <3>2
      <4>2. QED
        BY <1>2, <3>2, <4>1 DEF LastContext
    <3>3. QED
      BY <3>1, <3>2
  <2>2. CASE last.numSubsequentQueueTransactions = 0
    BY <2>1, <2>2 DEF BatchTime, BatchContext
  <2>3. CASE last.numSubsequentQueueTransactions # 0
    <3>1. last.numSubsequentQueueTransactions > 0
      BY <2>1, <2>3 DEF BatchContext, Uint24
    <3>2. q > 0
      BY <1>2, <3>1, ContextCounts
    <3>3. next \in 1 .. Len(queueElements)
      BY <1>3, <1>5, <3>2 DEF CtcTypeOK
    <3>4. queueElements[next] \in QueueElement
      BY <3>3 DEF CtcTypeOK
    <3>5. QED
      BY <2>3, <3>4 DEF BatchTime, QueueElement
  <2>4. QED
    BY <2>2, <2>3
<1>7. header \in CtcHeader
  <2>1. ctcBatches.length \in Slots
    BY <1>5, MaxUint40Assumption DEF CtcTypeOK, Buffers, Uint40, Slots
  <2>2. CtcTotalElements \in Uint40
    BY DEF CtcTypeOK, Buffers, CtcExtraData, CtcTotalElements
  <2>3. blockNumber - 1 \in Nat
    BY DEF ClockTypeOK
  <2>4. QED
    BY <1>2, <2>1, <2>2, <2>3 DEF CtcHeader
<1>8. extra \in CtcExtraData
  BY <1>5, <1>6 DEF CtcExtraData
<1>9. ctcBatches' \in Buffers(CtcHeader, CtcExtraData)
  <2>1. ctcBatches.length + 1 \in Uint40
    BY <1>5, MaxUint40Assumption DEF CtcTypeOK, Buffers, Uint40
  <2>2. [ctcBatches.buf EXCEPT ![ctcBatches.length] = header]
          \in [Slots -> CtcHeader \cup {NoObject}]
    BY <1>7 DEF CtcTypeOK, Buffers
  <2>3. QED
    BY <1>5, <1>8, <2>1, <2>2 DEF Buffers, Push
<1>10. ctcBatches'.extraData = extra
  BY <1>5 DEF Push
<1>11. next - (n - s) = nextQueueIndex
  BY <1>3, <1>4 DEF CtcTypeOK
<1>12. QED
  BY <1>3, <1>4, <1>5, <1>9, <1>10, <1>11 DEF QueueIndicesAgree

-----------------------------------------------------------------------------
\* The deployed contracts satisfy the invariant.
LEMMA InitIInv == Init => IInv
<1> SUFFICES ASSUME Init PROVE IInv
  OBVIOUS
<1>1. ClockTypeOK
  BY DEF Init, ClockInit, ClockTypeOK
<1>2. /\ sccBatches.length = 0
      /\ sccBatches.extraData = [totalElements |-> 0, lastSequencerTimestamp |-> 0]
      /\ ctcBatches.length = 0
      /\ ctcBatches.extraData = [totalElements |-> 0, nextQueueIndex |-> 0,
                                 timestamp |-> 0, blockNumber |-> 0]
  BY DEF Init, SccInit, CtcInit, EmptyBuffer
<1>3. CtcTypeOK
  <2>1. ctcBatches \in Buffers(CtcHeader, CtcExtraData)
    BY MaxUint40Assumption
    DEF Init, CtcInit, EmptyBuffer, Buffers, CtcExtraData, Uint40
  <2>2. QED
    BY <2>1 DEF Init, CtcInit, CtcTypeOK
<1>4. SccTypeOK
  BY MaxUint40Assumption
  DEF Init, SccInit, EmptyBuffer, Buffers, SccExtraData, Uint40, SccTypeOK
<1>5. CtcInv
  BY <1>2 DEF Init, CtcInit, CtcInv, QueueIndicesAgree, QueueConsumedInOrder
<1>6. SccInv
  BY <1>2 DEF SccInv, SccOrder, Slots, StateBatchesContiguous,
    RootsOnlyForTransactions, SccTotalElements, CtcTotalElements
<1>7. QED
  BY <1>1, <1>3, <1>4, <1>5, <1>6 DEF IInv, TypeOK

\* A new transaction batch keeps the queue properties.
LEMMA SequencerBatchKeepsCtc ==
  ASSUME IInv, CTC_AppendSequencerBatch
  PROVE  CtcTypeOK' /\ CtcInv' /\ CtcTotalElements <= CtcTotalElements'
<1>1. PICK sender \in Senders, params \in SequencerParams :
        AppendSequencerBatch(sender, params)
  BY DEF CTC_AppendSequencerBatch
<1> DEFINE q == NumQueue(params.contexts)
           event == [startingQueueIndex |-> nextQueueIndex,
                     numQueueElements   |-> q,
                     totalElements      |-> CtcTotalElements + params.totalElementsToAppend,
                     params             |-> params]
<1>2. CtcTypeOK /\ ClockTypeOK /\ QueueIndicesAgree /\ QueueConsumedInOrder
  BY DEF IInv, TypeOK, CtcInv
<1>3. /\ q \in Nat
      /\ nextQueueIndex' = nextQueueIndex + q
      /\ nextQueueIndex' <= Len(queueElements)
      /\ queueElements' = queueElements
      /\ ctcBatches' \in Buffers(CtcHeader, CtcExtraData)
      /\ ctcBatches'.extraData.nextQueueIndex = nextQueueIndex'
      /\ CtcTotalElements' = CtcTotalElements + params.totalElementsToAppend
      /\ ctcLog' = Append(ctcLog, event)
      /\ CtcTotalElements + params.totalElementsToAppend \in Uint40
  BY <1>1, <1>2, AppendSequencerBatchEffect DEF CtcTotalElements
<1>4. /\ params \in AppendSequencerBatchParams
      /\ params.totalElementsToAppend \in Nat
  BY ParamsAssumption DEF AppendSequencerBatchParams, Uint24
<1>5. event \in SequencerBatchAppended
  BY <1>2, <1>3, <1>4 DEF SequencerBatchAppended, CtcTypeOK
<1>6. /\ ctcLog \in Seq(SequencerBatchAppended)
      /\ nextQueueIndex \in Nat
      /\ queueElements \in Seq(QueueElement)
  BY <1>2 DEF CtcTypeOK
<1> HIDE DEF event, q
<1>7. ctcLog' \in Seq(SequencerBatchAppended)
  BY <1>3, <1>5, <1>6
<1>8. CtcTypeOK'
  BY <1>3, <1>6, <1>7 DEF CtcTypeOK
<1>9. QueueIndicesAgree'
  BY <1>3 DEF QueueIndicesAgree
<1>10. QueueConsumedInOrder'
  <2>1. /\ Len(ctcLog') = Len(ctcLog) + 1
        /\ Len(ctcLog) \in Nat
        /\ ctcLog'[Len(ctcLog) + 1] = event
        /\ \A i \in 1 .. Len(ctcLog) : ctcLog'[i] = ctcLog[i]
    BY <1>3, <1>5, <1>6
  <2>2. /\ event.startingQueueIndex = nextQueueIndex
        /\ event.numQueueElements = q
    BY DEF event
  <2>3. Len(ctcLog) = 0 => nextQueueIndex = 0
    BY <1>2, <1>6 DEF QueueConsumedInOrder
  <2>4. QED
    BY <1>2, <1>3, <1>6, <2>1, <2>2, <2>3 DEF QueueConsumedInOrder
<1>11. CtcTotalElements \in Nat
  BY <1>2 DEF CtcTypeOK, Buffers, CtcExtraData, Uint40, CtcTotalElements
<1>12. QED
  BY <1>3, <1>4, <1>8, <1>9, <1>10, <1>11 DEF CtcInv

\* Appending a state batch keeps the state chain's invariant: the new header
\* goes to index length, over whatever a deleted batch left there.
LEMMA StateBatchKeepsScc ==
  ASSUME IInv, SCC_AppendStateBatch
  PROVE  SccTypeOK' /\ SccInv'
<1>1. PICK sender \in Senders, batch \in StateBatches, start \in Uint40 :
        AppendStateBatch(sender, batch, start, CtcTotalElements)
  BY DEF SCC_AppendStateBatch
<1>0. PICK n \in Uint40 : n = sccBatches.length
  BY DEF IInv, TypeOK, SccTypeOK, Buffers
<1> DEFINE size == Len(batch)
           header == [batchIndex        |-> n,
                      batchRoot         |-> batch,
                      batchSize         |-> size,
                      prevTotalElements |-> SccTotalElements,
                      timestamp         |-> blockTimestamp]
<1>2. /\ blockTimestamp \in Nat \ {0}
      /\ CtcTotalElements \in Uint40
      /\ sccBatches \in Buffers(SccHeader, SccExtraData)
      /\ sccBatches.buf \in [Slots -> SccHeader \cup {NoObject}]
      /\ SccTotalElements \in Uint40
  BY DEF IInv, TypeOK, ClockTypeOK, CtcTypeOK, SccTypeOK, Buffers, CtcExtraData,
    SccExtraData, CtcTotalElements, SccTotalElements
<1>3. batch \in Seq(Roots) /\ size \in Nat \ {0}
  BY <1>1, ParamsAssumption DEF AppendStateBatch
<1>4. /\ SccTotalElements + size <= CtcTotalElements
      /\ n < MaxUint40
      /\ sccBatches' = Push(sccBatches, header,
                            [totalElements          |-> SccTotalElements + size,
                             lastSequencerTimestamp |-> blockTimestamp])
      /\ UNCHANGED <<clockVars, ctcVars>>
  BY <1>0, <1>1 DEF AppendStateBatch, StateBatchFits, CanPush, SCC_AppendStateBatch
<1>5. n \in Slots /\ SccTotalElements + size \in Uint40
  BY <1>2, <1>3, <1>4, MaxUint40Assumption DEF Slots, Uint40
<1>6. header \in SccHeader
  BY <1>2, <1>3, <1>5 DEF SccHeader
<1>7. /\ sccBatches'.length = n + 1
      /\ sccBatches'.buf = [sccBatches.buf EXCEPT ![n] = header]
      /\ sccBatches'.extraData = [totalElements          |-> SccTotalElements + size,
                                  lastSequencerTimestamp |-> blockTimestamp]
      /\ SccTotalElements' = SccTotalElements + size
  BY <1>0, <1>4 DEF Push, SccTotalElements
<1>8. SccTypeOK'
  <2>1. n + 1 \in Uint40
    BY <1>0, <1>2, <1>4, MaxUint40Assumption DEF Uint40
  <2>2. sccBatches'.buf \in [Slots -> SccHeader \cup {NoObject}]
    BY <1>2, <1>6, <1>7
  <2>3. sccBatches'.extraData \in SccExtraData
    BY <1>2, <1>5, <1>7 DEF SccExtraData
  <2>4. QED
    BY <1>4, <1>7, <2>1, <2>2, <2>3 DEF SccTypeOK, Buffers, Push
<1>9. /\ sccBatches'.buf[n] = header
      /\ \A i \in Slots : i # n => sccBatches'.buf[i] = sccBatches.buf[i]
  BY <1>2, <1>5, <1>7
<1>10. /\ header.batchIndex = n /\ header.batchSize = size
       /\ header.prevTotalElements = SccTotalElements
       /\ header.timestamp = blockTimestamp
  OBVIOUS
<1>11. blockTimestamp' = blockTimestamp /\ CtcTotalElements' = CtcTotalElements
  BY <1>4 DEF clockVars, ctcVars, CtcTotalElements
<1>12. n \in Nat /\ SccTotalElements \in Nat /\ CtcTotalElements \in Nat
  BY <1>2, <1>0 DEF Uint40
<1>13. \A i \in Slots : i < n => /\ sccBatches.buf[i] \in SccHeader
                                 /\ sccBatches.buf[i].batchSize \in Nat
                                 /\ sccBatches.buf[i].prevTotalElements \in Nat
                                 /\ sccBatches.buf[i].timestamp \in Nat
  BY <1>0 DEF IInv, SccInv, SccOrder, SccHeader, Uint40
<1>14. SccOrder /\ StateBatchesContiguous
  BY DEF IInv, SccInv
<1> HIDE DEF header, size
<1>15. \A i \in Slots : i < n + 1 => i < n \/ i = n
  BY <1>12 DEF Slots
<1>16. SccOrder'
  <2>1. ASSUME NEW i \in Slots, i < n + 1
        PROVE  /\ sccBatches'.buf[i] \in SccHeader
               /\ SccEnd(i)' <= SccTotalElements'
               /\ sccBatches'.buf[i].timestamp <= blockTimestamp'
    <3>1. CASE i = n
      BY <1>2, <1>3, <1>6, <1>7, <1>9, <1>10, <1>11, <1>12, <3>1 DEF SccEnd
    <3>2. CASE i < n
      BY <1>0, <1>3, <1>7, <1>9, <1>11, <1>12, <1>13, <1>14, <3>2 DEF SccOrder, SccEnd
    <3>3. QED
      BY <1>15, <2>1, <3>1, <3>2
  <2>2. ASSUME NEW i \in Slots, NEW j \in Slots, i < j, j < n + 1
        PROVE  /\ SccEnd(i)' <= sccBatches'.buf[j].prevTotalElements
               /\ sccBatches'.buf[i].timestamp <= sccBatches'.buf[j].timestamp
    <3>1. i < n /\ i # n /\ sccBatches'.buf[i] = sccBatches.buf[i]
      BY <1>9, <1>12, <2>2 DEF Slots
    <3>2. CASE j = n
      BY <1>0, <1>9, <1>10, <1>14, <3>1, <3>2 DEF SccOrder, SccEnd
    <3>3. CASE j < n
      BY <1>0, <1>9, <1>12, <1>14, <2>2, <3>1, <3>3 DEF SccOrder, SccEnd
    <3>4. QED
      BY <1>15, <2>2, <3>2, <3>3
  <2>3. QED
    BY <1>7, <2>1, <2>2 DEF SccOrder
<1>17. StateBatchesContiguous'
  <2>1. 0 .. n \subseteq Slots
    BY <1>5, <1>12, MaxUint40Assumption DEF Slots
  <2>2. \A i \in 0 .. n : sccBatches'.buf[i].batchIndex = i
    BY <1>0, <1>9, <1>10, <1>12, <1>14, <2>1 DEF StateBatchesContiguous
  <2>3. ASSUME NEW i \in 1 .. n
        PROVE  sccBatches'.buf[i].prevTotalElements = SccEnd(i - 1)'
    <3>1. i - 1 \in Slots /\ i - 1 # n /\ i - 1 \in 0 .. n - 1
      BY <1>12, <2>1
    <3>2. CASE i = n
      BY <1>0, <1>9, <1>10, <1>12, <1>14, <3>1, <3>2 DEF StateBatchesContiguous, SccEnd
    <3>3. CASE i # n
      BY <1>0, <1>9, <1>12, <1>14, <2>1, <3>1, <3>3 DEF StateBatchesContiguous, SccEnd
    <3>4. QED
      BY <3>2, <3>3
  <2>4. sccBatches'.buf[0].prevTotalElements = 0
    BY <1>0, <1>9, <1>10, <1>12, <1>14, <2>1 DEF StateBatchesContiguous
  <2>5. SccTotalElements' = SccEnd(n)'
    BY <1>7, <1>9, <1>10 DEF SccEnd
  <2>6. sccBatches'.length - 1 = n /\ sccBatches'.length # 0
    BY <1>7, <1>12
  <2>7. QED
    BY <2>2, <2>3, <2>4, <2>5, <2>6 DEF StateBatchesContiguous, SccEnd
<1>18. RootsOnlyForTransactions'
  BY <1>4, <1>7, <1>11 DEF RootsOnlyForTransactions, size
<1>19. QED
  BY <1>8, <1>16, <1>17, <1>18 DEF SccInv

\* Deleting state batch k makes k the length and its prevTotalElements the
\* total; the batches before it are untouched.
LEMMA DeleteEffect ==
  ASSUME IInv, SCC_DeleteStateBatch
  PROVE  \E k \in Slots :
           /\ k < sccBatches.length
           /\ sccBatches.buf[k] \in SccHeader
           /\ InsideFraudProofWindow(sccBatches.buf[k])
           /\ sccBatches' = [sccBatches EXCEPT
                !.length = k,
                !.extraData = [totalElements |-> sccBatches.buf[k].prevTotalElements,
                               lastSequencerTimestamp |-> 0]]
           /\ UNCHANGED <<clockVars, ctcVars>>
<1>1. PICK sender \in Senders, h \in Range(sccBatches.buf) \ {NoObject} :
        DeleteStateBatch(sender, h) /\ UNCHANGED <<clockVars, ctcVars>>
  BY DEF SCC_DeleteStateBatch
<1>2. h \in SccHeader
  BY <1>1 DEF IInv, TypeOK, SccTypeOK, Buffers, Range
<1>3. h.batchIndex \in Slots
  BY <1>2 DEF SccHeader
<1>4. QED
  BY <1>1, <1>2, <1>3 DEF DeleteStateBatch, IsValidBatchHeader, InBounds, Get,
    DeleteBatch, DeleteElementsAfterInclusive

\* Deletion keeps the state chain's invariant: what remains is a prefix of
\* what was there, and the restored total is where that prefix ends.
LEMMA DeleteKeepsScc ==
  ASSUME IInv, SCC_DeleteStateBatch
  PROVE  SccTypeOK' /\ SccInv'
<1>1. PICK k \in Slots :
         /\ k < sccBatches.length
         /\ sccBatches.buf[k] \in SccHeader
         /\ sccBatches' = [sccBatches EXCEPT
              !.length = k,
              !.extraData = [totalElements |-> sccBatches.buf[k].prevTotalElements,
                             lastSequencerTimestamp |-> 0]]
         /\ UNCHANGED <<clockVars, ctcVars>>
  BY DeleteEffect
<1>2. /\ sccBatches \in Buffers(SccHeader, SccExtraData)
      /\ SccOrder /\ StateBatchesContiguous /\ RootsOnlyForTransactions
  BY DEF IInv, TypeOK, SccTypeOK, SccInv
<1>3. /\ sccBatches'.length = k
      /\ sccBatches'.buf = sccBatches.buf
      /\ sccBatches'.extraData =
           [totalElements |-> sccBatches.buf[k].prevTotalElements,
            lastSequencerTimestamp |-> 0]
      /\ SccTotalElements' = sccBatches.buf[k].prevTotalElements
      /\ sccBatches' \in [length : {k}, extraData : {sccBatches'.extraData},
                          buf : {sccBatches.buf}]
  BY <1>1, <1>2 DEF Buffers, SccTotalElements
<1>4. /\ k \in Uint40 /\ k \in Nat
      /\ sccBatches.length \in Nat
      /\ SccTotalElements \in Nat /\ CtcTotalElements \in Nat
      /\ sccBatches.buf[k].prevTotalElements \in Uint40
      /\ sccBatches.buf[k].prevTotalElements \in Nat
      /\ sccBatches.buf[k].batchSize \in Nat
  <2>1. k \in Uint40 /\ k \in Nat
    BY MaxUint40Assumption DEF Uint40, Slots
  <2>2. sccBatches.length \in Nat
    BY <1>2 DEF Uint40, Buffers
  <2>3. SccTotalElements \in Nat
    BY <1>2 DEF Uint40, Buffers, SccExtraData, SccTotalElements
  <2>4. CtcTotalElements \in Nat
    BY DEF IInv, TypeOK, Uint40, Buffers, CtcTypeOK, CtcExtraData, CtcTotalElements
  <2>5. QED
    BY <1>1, <2>1, <2>2, <2>3, <2>4 DEF SccHeader, Uint40
<1>5. SccTypeOK'
  BY <1>2, <1>3, <1>4 DEF SccTypeOK, Buffers, SccExtraData
<1>6. blockTimestamp' = blockTimestamp /\ CtcTotalElements' = CtcTotalElements
  BY <1>1 DEF clockVars, ctcVars, CtcTotalElements
<1>7. \A i \in Slots : i < k => i < sccBatches.length
  BY <1>1, <1>4 DEF Slots
<1>8. SccOrder'
  BY <1>1, <1>2, <1>3, <1>6, <1>7 DEF SccOrder, SccEnd
<1>9. StateBatchesContiguous'
  <2>1. 0 .. k \subseteq 0 .. sccBatches.length - 1
    BY <1>1, <1>4
  <2>2. \A i \in 0 .. k - 1 : sccBatches.buf[i].batchIndex = i
    BY <1>2, <1>4, <2>1 DEF StateBatchesContiguous
  <2>3. \A i \in 1 .. k : sccBatches.buf[i].prevTotalElements = SccEnd(i - 1)
    BY <1>2, <1>4, <2>1 DEF StateBatchesContiguous, SccEnd
  <2>4. sccBatches.buf[0].prevTotalElements = 0
    BY <1>1, <1>2, <1>4 DEF StateBatchesContiguous
  <2>5. k > 0 => SccTotalElements' = SccEnd(k - 1)
    BY <1>3, <1>4, <2>3
  <2>6. k = 0 => SccTotalElements' = 0
    BY <1>3, <2>4
  <2>7. QED
    BY <1>3, <1>4, <2>2, <2>3, <2>4, <2>5, <2>6 DEF StateBatchesContiguous, SccEnd
<1>10. RootsOnlyForTransactions'
  <2>1. SccEnd(k) <= SccTotalElements
    BY <1>1, <1>2 DEF SccOrder
  <2>2. sccBatches.buf[k].prevTotalElements <= SccTotalElements
    BY <1>4, <2>1 DEF SccEnd
  <2>3. QED
    BY <1>2, <1>3, <1>4, <1>6, <2>2 DEF RootsOnlyForTransactions
<1>11. QED
  BY <1>5, <1>8, <1>9, <1>10 DEF SccInv

\* Every step keeps the invariant; a step of one contract leaves the other's
\* storage alone, and neither the clock nor the CTC's total ever decreases.
LEMMA NextIInv == IInv /\ [Next]_vars => IInv'
<1> SUFFICES ASSUME IInv, [Next]_vars PROVE IInv'
  OBVIOUS
<1> USE DEF IInv, TypeOK
<1>1. ASSUME UNCHANGED sccBatches, SccTotalElements' = SccTotalElements,
             CtcTotalElements <= CtcTotalElements',
             blockTimestamp <= blockTimestamp', ClockTypeOK', CtcTypeOK'
      PROVE  SccTypeOK' /\ SccInv'
  <2>1. SccTypeOK'
    BY <1>1 DEF SccTypeOK
  <2>2. SccOrder'
    <3>1. \A i \in Slots : i < sccBatches.length =>
            sccBatches.buf[i].timestamp \in Nat
      BY DEF SccInv, SccOrder, SccHeader
    <3>2. QED
      BY <1>1, <3>1 DEF SccInv, SccOrder, SccEnd, ClockTypeOK
  <2>3. StateBatchesContiguous'
    BY <1>1 DEF SccInv, StateBatchesContiguous
  <2>4. RootsOnlyForTransactions'
    <3>1. SccTotalElements \in Nat
      BY DEF SccTypeOK, Buffers, SccExtraData, SccTotalElements, Uint40
    <3>2. CtcTotalElements \in Nat /\ CtcTotalElements' \in Nat
      BY <1>1 DEF CtcTypeOK, Buffers, CtcExtraData, CtcTotalElements, Uint40
    <3>3. QED
      BY <1>1, <3>1, <3>2 DEF SccInv, RootsOnlyForTransactions
  <2>5. QED
    BY <2>1, <2>2, <2>3, <2>4 DEF SccInv
<1>2. ASSUME UNCHANGED ctcVars PROVE CtcTypeOK' /\ CtcInv' /\ CtcTotalElements' = CtcTotalElements
  BY <1>2 DEF ctcVars, CtcTypeOK, CtcInv, QueueIndicesAgree, QueueConsumedInOrder,
    CtcTotalElements
<1>3. ASSUME UNCHANGED sccBatches PROVE SccTotalElements' = SccTotalElements
  BY <1>3 DEF SccTotalElements
<1>4. ASSUME UNCHANGED clockVars
      PROVE  ClockTypeOK' /\ blockTimestamp <= blockTimestamp'
  BY <1>4 DEF clockVars, ClockTypeOK
<1>5. CtcTotalElements \in Nat
  BY DEF CtcTypeOK, Buffers, CtcExtraData, CtcTotalElements, Uint40
<1>6. CASE L1_MineBlock
  <2>1. ClockTypeOK' /\ blockTimestamp <= blockTimestamp'
    BY <1>6, BlockGapsAssumption DEF L1_MineBlock, MineBlock, ClockTypeOK
  <2>2. UNCHANGED <<ctcVars, sccBatches>>
    BY <1>6 DEF L1_MineBlock
  <2>3. QED
    BY <1>1, <1>2, <1>3, <1>5, <2>1, <2>2
<1>7. CASE CTC_Enqueue
  <2>1. PICK tx \in Transactions : Enqueue(tx) /\ UNCHANGED <<clockVars, sccBatches>>
    BY <1>7 DEF CTC_Enqueue
  <2>2. [transactionHash |-> tx, timestamp |-> blockTimestamp,
         blockNumber |-> blockNumber] \in QueueElement
    BY DEF QueueElement, ClockTypeOK
  <2>3. /\ queueElements' \in Seq(QueueElement)
        /\ Len(queueElements') = Len(queueElements) + 1
    BY <2>1, <2>2 DEF Enqueue, CtcTypeOK
  <2>4. CtcTypeOK' /\ CtcTotalElements' = CtcTotalElements
    BY <2>1, <2>3 DEF Enqueue, CtcTypeOK, CtcTotalElements
  <2>5. CtcInv'
    BY <2>1, <2>3 DEF Enqueue, CtcInv, CtcTypeOK, QueueIndicesAgree,
      QueueConsumedInOrder
  <2>6. QED
    BY <1>1, <1>3, <1>4, <1>5, <2>1, <2>4, <2>5
<1>8. CASE CTC_AppendSequencerBatch
  <2>1. CtcTypeOK' /\ CtcInv' /\ CtcTotalElements <= CtcTotalElements'
    BY <1>8, SequencerBatchKeepsCtc
  <2>2. UNCHANGED <<clockVars, sccBatches>>
    BY <1>8 DEF CTC_AppendSequencerBatch
  <2>3. QED
    BY <1>1, <1>3, <1>4, <2>1, <2>2
<1>9. CASE SCC_AppendStateBatch
  <2>1. UNCHANGED <<clockVars, ctcVars>>
    BY <1>9 DEF SCC_AppendStateBatch
  <2>2. QED
    BY <1>2, <1>4, <1>9, <2>1, StateBatchKeepsScc
<1>10. CASE SCC_DeleteStateBatch
  <2>1. UNCHANGED <<clockVars, ctcVars>>
    BY <1>10 DEF SCC_DeleteStateBatch
  <2>2. QED
    BY <1>2, <1>4, <1>10, <2>1, DeleteKeepsScc
<1>11. CASE UNCHANGED vars
  BY <1>1, <1>2, <1>3, <1>4, <1>5, <1>11 DEF vars
<1>12. QED
  BY <1>6, <1>7, <1>8, <1>9, <1>10, <1>11 DEF Next

-----------------------------------------------------------------------------
\* The inductive invariant holds in every reachable state.
THEOREM InductiveInvariant == Spec => []IInv
BY InitIInv, NextIInv, PTL DEF Spec

\* Every storage variable of the two contracts keeps its type: in particular
\* no packed total or container length leaves its uint40.
THEOREM TypeCorrect == Spec => []TypeOK
<1>1. IInv => TypeOK
  BY DEF IInv
<1>2. QED
  BY <1>1, InductiveInvariant, PTL

\* appendSequencerBatch advances both copies of the queue index alike, and
\* the batches consume the queue in order without gap or overlap.
THEOREM QueueCorrect == Spec => [](QueueIndicesAgree /\ QueueConsumedInOrder)
<1>1. IInv => QueueIndicesAgree /\ QueueConsumedInOrder
  BY DEF IInv, CtcInv
<1>2. QED
  BY <1>1, InductiveInvariant, PTL

\* The stored state batches are contiguous and never run ahead of the
\* canonical transactions, through any sequence of appends and deletions.
THEOREM StateChainCorrect ==
  Spec => [](StateBatchesContiguous /\ RootsOnlyForTransactions)
<1>1. IInv => StateBatchesContiguous /\ RootsOnlyForTransactions
  BY DEF IInv, SccInv
<1>2. QED
  BY <1>1, InductiveInvariant, PTL

\* A state batch outside its fraud proof window is never removed or replaced:
\* a batch that may be deleted is inside its window, so every later batch,
\* being no older, is inside its own.
THEOREM Finality == Spec => FinalityIsForever
<1> DEFINE Keep == \A i \in Slots :
             Finalized(i) => /\ i < sccBatches'.length
                             /\ sccBatches'.buf[i] = sccBatches.buf[i]
<1>1. IInv /\ [Next]_vars => [Keep]_vars
  <2> SUFFICES ASSUME IInv, [Next]_vars, NEW i \in Slots, Finalized(i)
               PROVE  /\ i < sccBatches'.length
                      /\ sccBatches'.buf[i] = sccBatches.buf[i]
    OBVIOUS
  <2>1. /\ i < sccBatches.length
        /\ ~(sccBatches.buf[i].timestamp + FRAUD_PROOF_WINDOW > blockTimestamp)
    BY DEF Finalized, InBounds, InsideFraudProofWindow
  <2>2. sccBatches.length \in Nat /\ i \in Nat
    BY DEF IInv, TypeOK, SccTypeOK, Buffers, Uint40, Slots
  <2>3. CASE UNCHANGED sccBatches
    BY <2>1, <2>3
  <2>4. CASE SCC_AppendStateBatch
    <3>1. PICK header, extra : sccBatches' = Push(sccBatches, header, extra)
      BY <2>4 DEF SCC_AppendStateBatch, AppendStateBatch
    <3>2. sccBatches.buf \in [Slots -> SccHeader \cup {NoObject}]
      BY DEF IInv, TypeOK, SccTypeOK, Buffers
    <3>3. QED
      BY <2>1, <2>2, <3>1, <3>2 DEF Push
  <2>5. CASE SCC_DeleteStateBatch
    <3>1. PICK k \in Slots :
            /\ k < sccBatches.length
            /\ sccBatches.buf[k] \in SccHeader
            /\ InsideFraudProofWindow(sccBatches.buf[k])
            /\ sccBatches' = [sccBatches EXCEPT
                 !.length = k,
                 !.extraData = [totalElements |-> sccBatches.buf[k].prevTotalElements,
                                lastSequencerTimestamp |-> 0]]
      BY <2>5, DeleteEffect
    <3>2. k \in Nat
      BY DEF Slots
    <3>3. /\ sccBatches.buf[i].timestamp \in Nat
          /\ sccBatches.buf[k].timestamp \in Nat
          /\ blockTimestamp \in Nat
      BY <2>1, <3>1 DEF IInv, TypeOK, ClockTypeOK, SccInv, SccOrder, SccHeader
    <3>4. k < i => sccBatches.buf[k].timestamp <= sccBatches.buf[i].timestamp
      BY <2>1 DEF IInv, SccInv, SccOrder
    <3>5. i < k
      BY <2>1, <2>2, <3>1, <3>2, <3>3, <3>4, SccAssumption
      DEF InsideFraudProofWindow
    <3>6. sccBatches'.length = k /\ sccBatches'.buf = sccBatches.buf
      BY <3>1 DEF IInv, TypeOK, SccTypeOK, Buffers
    <3>7. QED
      BY <3>5, <3>6
  <2>6. QED
    BY <2>3, <2>4, <2>5 DEF Next, vars, L1_MineBlock, CTC_Enqueue,
      CTC_AppendSequencerBatch
<1>2. QED
  BY <1>1, InductiveInvariant, PTL DEF Spec, FinalityIsForever
=============================================================================
