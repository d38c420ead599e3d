-------------------------- MODULE SubmitterProgress --------------------------
(***************************************************************************)
(* What the batch submitter publishes in the end.  CraftBatchTx has no     *)
(* choice: what the size limit and the pruning leave of a range of blocks  *)
(* is a matter of these blocks, which never change, so it is the same at   *)
(* every poll.  Here that outcome is fixed, for every range, when the last *)
(* block of the range is made, and it can be any.                          *)
(***************************************************************************)
EXTENDS SubmitterProtocol

CONSTANT
  Prunes          \* a batch may exceed cfg.MaxTxSize

VARIABLE
  ends            \* per L2 block and start: where the batch made of the blocks
                  \*   from start up to this one ends

ASSUME PrunesAssumption == Prunes \in BOOLEAN

progressVars == <<vars, ends>>

ProgressInit == Init /\ ends = <<>>

\* The pruning can leave any part of a range, or nothing.
PossibleEnds(start, end) == IF Prunes THEN start .. end ELSE {end}

ProduceBlock ==
  LET height == Len(chain) + 1 IN
  /\ L2_Produce
  /\ \E outcome \in [1 .. height -> 1 .. height + 1] :
       /\ \A start \in 1 .. height : outcome[start] \in PossibleEnds(start, height + 1)
       /\ ends' = Append(ends, outcome)

\* The end of the batch that CraftBatchTx makes of the blocks start .. end - 1.
BatchEnd(start, end) == ends[end - 1][start]

StartSendingBatch ==
  /\ phase = "nonced"
  /\ CraftAndSend(BatchEnd(range.start, range.end))
  /\ UNCHANGED ends

ProgressNext ==
  \/ ProduceBlock
  \/ StartSendingBatch
  \/ OtherStep /\ UNCHANGED ends

\* The event loop and the transaction manager run on timers and L1 mines blocks
\* and, some day, a pending transaction.  Calls to L1 do not fail for ever, and
\* VerifyCondition does not decline for ever: a batch that can be made goes out at
\* the latest after MaxBatchSubmissionTime, once the gas price allows.  A
\* resubmission is sure to learn that its nonce is used up only if its gas
\* estimation succeeds.
Fairness ==
  /\ WF_vars(L1_MineBlock)
  /\ WF_vars(L1_MineTx)
  /\ WF_vars(DoStartClearing)
  /\ WF_vars(DoGetBatchBlockRange)
  /\ SF_vars(DoNonceAt)
  /\ SF_progressVars(StartSendingBatch)
  /\ WF_vars(DoSkipRound)
  /\ WF_vars(DoPublish)
  /\ WF_vars(DoAbortNonceTooLow /\ EstimateGas(sending.data))
  /\ WF_vars(DoReceiveReceipt)

FairSpec == ProgressInit /\ [][ProgressNext]_progressVars /\ Fairness

-----------------------------------------------------------------------------
\* txMgr.Send comes to an end ("until the transaction eventually confirms",
\* txmgr.go).
SendReturns == phase = "sending" ~> phase # "sending"

\* Nothing of the unpublished blocks goes out: the pruning leaves enqueued
\* transactions only, which Write refuses at every poll, or nothing, and then an
\* empty batch is sent at every poll.
PrunedAway ==
  LET start == total + 1
      end   == Len(chain) + 1
  IN /\ start < end
     /\ ~HoldsSequencerTx([start |-> start, end |-> BatchEnd(start, end)])

\* A block of the sequencer's own transaction, and with it all blocks before
\* it, is published on L1 in the end, unless the submitter is stuck for good
\* because the batch it makes is pruned to one without a transaction of the
\* sequencer.  Nothing else stops it: neither failing calls, skipped rounds and
\* resubmissions nor batches that end early (eventLoop, CraftBatchTx, Send).
SequencerBlocksPublished ==
  \A i \in 1 .. MaxBlocks :
    (i <= Len(chain) /\ chain[i] = "sequencer") ~> (total >= i \/ []PrunedAway)

\* The same of a block of an enqueued transaction, whether or not somebody
\* sends the sequencer a transaction afterwards ("will require that the
\* Sequencer will eventually append it", CanonicalTransactionChain.sol).
QueueBlocksPublished ==
  \A i \in 1 .. MaxBlocks :
    (i <= Len(chain) /\ chain[i] = "queue") ~> (total >= i)
=============================================================================
