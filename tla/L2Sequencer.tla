----------------------------- MODULE L2Sequencer -----------------------------
(***************************************************************************)
(* What l2geth's sync service promises when it runs as the sequencer: the  *)
(* chain grows by one block per transaction, enqueued transactions enter   *)
(* it in queue order, and each block gets the timestamp and the L1 block   *)
(* number of the OVM context.  Each application is one step here; the      *)
(* steps inside it and its failures are in SyncService.                    *)
(***************************************************************************)
EXTENDS L2Blocks, Integers, SequencesExt

CONSTANTS
  TimestampRefreshThreshold,   \* s.timestampRefreshThreshold
  DeployTimestamp,             \* L1 context of the CTC's deployment
  DeployBlockNumber

VARIABLES
  l2Chain,          \* the blocks after genesis; block n has height n
  ovmTimestamp,     \* s.OVMContext, in memory
  ovmBlockNumber

sequencerVars == <<l2Chain, ovmTimestamp, ovmBlockNumber>>

SequencerInit ==
  /\ l2Chain = <<>>
  /\ ovmTimestamp = DeployTimestamp
  /\ ovmBlockNumber = DeployBlockNumber

\* The timestamp a transaction gets: now, once the latest one is old enough.
AssignTimestamp_Now(latest, now) == now

AssignTimestamp(latest, now) ==
  IF now - latest > TimestampRefreshThreshold THEN now ELSE latest

\* Queue elements are numbered from 0.
QueueBlocks(chain) == SelectSeq(chain, IsQueueOriginL1)

\* The polling loop may update the L1 block number to tip meanwhile.
ApplySequencerTransaction(tx, now, tip) ==
  LET ts == AssignTimestamp(ovmTimestamp, now) IN
  /\ l2Chain' = Append(l2Chain, Block(Len(l2Chain), ts, ovmBlockNumber, tx,
                                      NoQueueIndex))
  /\ ovmTimestamp' = Max({ovmTimestamp, ts})
  /\ ovmBlockNumber' = Max({ovmBlockNumber, tip})

\* The element's own timestamp is replaced; its block number is kept.
ApplyQueueTransaction(queue, now) ==
  LET qi == Len(QueueBlocks(l2Chain))
      ts == AssignTimestamp(ovmTimestamp, now)
      el == queue[qi + 1]
  IN /\ qi < Len(queue)
     /\ l2Chain' = Append(l2Chain, Block(Len(l2Chain), ts, el.blockNumber,
                                         el.transactionHash, qi))
     /\ ovmTimestamp' = Max({ovmTimestamp, ts})
     /\ ovmBlockNumber' = Max({ovmBlockNumber, el.blockNumber})

UpdateL1BlockNumber(n) ==
  /\ n > ovmBlockNumber
  /\ ovmBlockNumber' = n
  /\ UNCHANGED <<l2Chain, ovmTimestamp>>

\* A restart takes the context back from the last block.
InitializeLatestL1 ==
  /\ ovmTimestamp' = IF l2Chain = <<>> THEN DeployTimestamp
                     ELSE Last(l2Chain).timestamp
  /\ ovmBlockNumber' = IF l2Chain = <<>> THEN DeployBlockNumber
                       ELSE Last(l2Chain).blockNumber
  /\ UNCHANGED l2Chain
=============================================================================
