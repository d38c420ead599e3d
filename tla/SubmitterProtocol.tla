-------------------------- MODULE SubmitterProtocol --------------------------
(***************************************************************************)
(* The batch submitter against the least it needs to know of L2 and of the *)
(* CTC: which blocks hold a transaction of the sequencer, how many blocks  *)
(* are published, and that a batch is accepted exactly when it starts at   *)
(* the first unpublished block.  RollupPipeline, with the real encoding    *)
(* and the real contract, implements this specification; SubmitterProgress *)
(* says what is published in the end.                                      *)
(***************************************************************************)
EXTENDS BatchSubmitter, Sequences

CONSTANTS
  MaxBlocks,      \* bound: L2 blocks
  MaxTip,         \* bound: L1 blocks
  MaxRestarts,    \* bound: restarts of the submitter
  MaxEmptyNonce   \* bound: nonce below which empty batches are sent

VARIABLES
  chain,          \* per L2 block: "sequencer" or "queue", who its transaction is from
  total,          \* blocks published: the CTC's total elements
  tip             \* L1's block number

ASSUME BoundsAssumption ==
  {MaxBlocks, MaxTip, MaxRestarts, MaxEmptyNonce} \subseteq Nat

vars == <<submitterVars, accountVars, chain, total, tip>>

Init ==
  /\ SubmitterInit
  /\ chain = <<>>
  /\ total = 0
  /\ tip = 1

\* The data of a batch stands for its blocks: start up to end, exclusive.
Accepted(data) == data # Clearing => data.start = total + 1

\* RawTransact estimates the gas of a call first; the latest L1 state stands for
\* the state the node estimates it on.
EstimateGas_Skipped(data) == TRUE

EstimateGas(data) == Accepted(data)

HoldsSequencerTx(data) ==
  \E i \in data.start .. data.end - 1 : chain[i] = "sequencer"

\* Write refuses enqueued transactions alone, but not a batch of nothing.
Encodable(data) == data.start = data.end \/ HoldsSequencerTx(data)

L2_Produce ==
  /\ Len(chain) < MaxBlocks
  /\ \E origin \in {"sequencer", "queue"} : chain' = Append(chain, origin)
  /\ UNCHANGED <<submitterVars, accountVars, total, tip>>

L1_MineBlock ==
  /\ tip < MaxTip
  /\ tip' = tip + 1
  /\ UNCHANGED <<submitterVars, accountVars, chain, total>>

L1_MineTx ==
  \E tx \in mempool :
    /\ MineTx(tx, tip)
    /\ total' = IF tx.data # Clearing /\ Accepted(tx.data)
                THEN tx.data.end - 1
                ELSE total
    /\ UNCHANGED <<chain, tip>>

restVars == <<chain, total, tip>>

DoRestart == instance < MaxRestarts /\ Restart /\ UNCHANGED restVars

DoClearNonceUnavailable == ClearNonceUnavailable /\ UNCHANGED restVars

DoStartClearing == StartClearing /\ UNCHANGED restVars

\* The two reads of the code are one step: a start that is out of date at the
\* second one fails the gas estimation.
DoGetBatchBlockRange ==
  GetBatchBlockRange(total + 1, Len(chain) + 1) /\ UNCHANGED restVars

DoNonceAt == NonceAt /\ UNCHANGED restVars

\* The size limit and the pruning end the batch at end.
CraftAndSend(end) ==
  /\ phase = "nonced"
  /\ LET data == [start |-> range.start, end |-> end] IN
     /\ Encodable(data)
     /\ data.start = data.end => sending.nonce < MaxEmptyNonce
     /\ EstimateGas(data)
     /\ StartSending(data)
  /\ UNCHANGED restVars

\* What they leave of the range depends on the sizes and contexts of its blocks,
\* which are not known here.
DoStartSending ==
  /\ phase = "nonced"
  /\ \E end \in range.start .. range.end : CraftAndSend(end)

DoSkipRound == SkipRound /\ UNCHANGED restVars

DoPublish ==
  /\ phase \in {"clearing", "sending"}
  /\ EstimateGas(sending.data)
  /\ Publish
  /\ UNCHANGED restVars

\* An attempt may have estimated its gas before the nonce was used up.
DoAbortNonceTooLow == AbortNonceTooLow /\ UNCHANGED restVars

DoReceiveReceipt == ReceiveReceipt(tip) /\ UNCHANGED restVars

\* The steps that neither make a block nor a batch.
OtherStep ==
  \/ L1_MineBlock
  \/ L1_MineTx
  \/ DoRestart
  \/ DoClearNonceUnavailable
  \/ DoStartClearing
  \/ DoGetBatchBlockRange
  \/ DoNonceAt
  \/ DoSkipRound
  \/ DoPublish
  \/ DoAbortNonceTooLow
  \/ DoReceiveReceipt

Next == L2_Produce \/ DoStartSending \/ OtherStep

Spec == Init /\ [][Next]_vars

-----------------------------------------------------------------------------
\* A batch in the mempool is never mined as a revert: no transaction of the
\* account can be mined between the reading of the nonce and the batch's own
\* inclusion, and the gas estimation in between fails on a stale start
\* (eventLoop, RawTransact), restarts included.
NoBatchReverts == \A tx \in mempool : Accepted(tx.data)

\* With ClearPendingTx, once an instance polls for blocks no transaction of an
\* earlier instance can be mined any more ("ensure the batch submitter starts
\* submitting from a clean slate", clear_pending_tx.go).
CleanSlate ==
  clearPendingTx /\ phase \in {"polling", "ranged", "nonced", "sending"} =>
    \A tx \in mempool : tx.instance = instance

\* The clearing of pending transactions gives up on a nonce only when the
\* transaction of another instance took it ("Getting a nonce too low error
\* implies that a previous transaction in the mempool has confirmed",
\* clear_pending_tx.go).
ClearingYieldsOnlyToOthers ==
  [][phase = "clearing" /\ phase' \in {"clear", "exited"} /\ instance' = instance
       => lastMined.tx.instance # instance]_vars
=============================================================================
