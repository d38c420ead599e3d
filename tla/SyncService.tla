----------------------------- MODULE SyncService -----------------------------
(***************************************************************************)
(* l2geth's sync service as the sequencer.  Transactions come from the     *)
(* RPC and, through the transport layer, from the L1 queue; txLock lets    *)
(* one at a time into applyTransactionToTip, which updates the OVM context *)
(* in memory, writes two indices to the database, hands the transaction to *)
(* the miner and waits.  The node may crash between any two of these steps *)
(* and repairs the indices when it starts again.                           *)
(***************************************************************************)
EXTENDS L2Blocks, Integers, SequencesExt

CONSTANTS
  SequencerTxs, Transactions,
  TimestampRefreshThreshold, DeployTimestamp, DeployBlockNumber,
  NoIndex,        \* an index that was never written (nil)
  NotApplying,    \* txLock is free
  Times,          \* what the sequencer's clock may say
  InitialQueue,   \* elements in the queue when the model starts ...
  InitialChain,   \* ... and the blocks of a chain that is already running
  Faults,         \* of "crash", "reject_sequencer", "reject_queue"
  MaxQueue,       \* bound: elements ever enqueued
  MaxUserBlocks,  \* bound: blocks of the sequencer's own transactions
  MaxTip,         \* bound: L1 blocks
  MaxCrashes      \* bound: crashes of the node

VARIABLES
  status,             \* "down", "syncing" (RPC closed), "up" or "panicked"
  l2Chain,            \* database: blocks after genesis
  headIndex,          \* database: HeadIndex
  headQueueIndex,     \* database: HeadQueueIndex
  ovmTimestamp,       \* memory: OVMContext
  ovmBlockNumber,
  applying,           \* memory: the running applyTransactionToTip
  queue,              \* transport layer: the enqueued transactions it serves
  tip,                \* transport layer: number of the latest L1 block
  crashes

databaseVars == <<l2Chain, headIndex, headQueueIndex>>
contextVars == <<ovmTimestamp, ovmBlockNumber>>
remoteVars == <<queue, tip>>
vars == <<status, databaseVars, contextVars, applying, remoteVars, crashes>>

QueueBlocks == SelectSeq(l2Chain, IsQueueOriginL1)
UserBlocks == Len(l2Chain) - Len(QueueBlocks)

LatestOf_Skewed(chain) == IF chain = <<>> THEN NoIndex ELSE Len(chain) - 2

LatestOf(chain) == IF chain = <<>> THEN NoIndex ELSE Len(chain) - 1

Init ==
  /\ status = "up"
  /\ l2Chain = InitialChain
  /\ headIndex = LatestOf(l2Chain)
  /\ headQueueIndex = LatestOf(QueueBlocks)
  /\ ovmTimestamp = IF l2Chain = <<>> THEN DeployTimestamp
                    ELSE Last(l2Chain).timestamp
  /\ ovmBlockNumber = IF l2Chain = <<>> THEN DeployBlockNumber
                      ELSE Last(l2Chain).blockNumber
  /\ applying = NotApplying
  /\ queue = InitialQueue
  /\ tip = 1
  /\ crashes = 0

NextIndex(latest) == IF latest = NoIndex THEN 0 ELSE latest + 1

\* Writing nil is a no-op.
Set(old, index) == IF index = NoIndex THEN old ELSE index

AssignTimestamp(latest, now) ==
  IF now - latest > TimestampRefreshThreshold THEN now ELSE latest

-----------------------------------------------------------------------------
\* The first part of applyTransactionToTip: context and HeadIndex.
BeginApply(tx, now, bn, queueIndex) ==
  LET ts    == AssignTimestamp(ovmTimestamp, now)
      index == NextIndex(headIndex)
  IN /\ applying = NotApplying
     /\ applying' = [block     |-> Block(index, ts, bn, tx, queueIndex),
                     written   |-> queueIndex = NoQueueIndex,
                     timestamp |-> ovmTimestamp, blockNumber |-> ovmBlockNumber,
                     index     |-> headIndex]
     /\ ovmTimestamp' = Max({ovmTimestamp, ts})
     /\ ovmBlockNumber' = Max({ovmBlockNumber, bn})
     /\ headIndex' = index
     /\ UNCHANGED <<status, l2Chain, headQueueIndex, remoteVars, crashes>>

\* A transaction from the RPC, accepted by ValidateAndApplySequencerTransaction.
ApplySequencerTx ==
  \E tx \in SequencerTxs, now \in Times :
    /\ status = "up"
    /\ UserBlocks < MaxUserBlocks
    /\ BeginApply(tx, now, ovmBlockNumber, NoQueueIndex)

\* When the queue is synced: in Start, and then in every round of sequence.
QueueIsSynced_OnlyAtStart == status = "syncing"

QueueIsSynced == status \in {"syncing", "up"}

\* The next transaction of syncQueueTransactionRange.
ApplyQueueTx ==
  LET qi == NextIndex(headQueueIndex) IN
  \E now \in Times :
    /\ QueueIsSynced
    /\ qi < Len(queue)
    /\ BeginApply(queue[qi + 1].transactionHash, now, queue[qi + 1].blockNumber, qi)

\* Then HeadQueueIndex, for an enqueued transaction.
WriteQueueIndex ==
  /\ applying # NotApplying
  /\ ~applying.written
  /\ headQueueIndex' = applying.block.queueIndex
  /\ applying' = [applying EXCEPT !.written = TRUE]
  /\ UNCHANGED <<status, l2Chain, headIndex, contextVars, remoteVars, crashes>>

\* The miner worker commits a block with the transaction; chainHeadCh fires.
CommitBlock ==
  /\ applying # NotApplying
  /\ applying.written
  /\ l2Chain' = Append(l2Chain, applying.block)
  /\ applying' = NotApplying
  /\ UNCHANGED <<status, headIndex, headQueueIndex, contextVars, remoteVars,
                 crashes>>

RestoredIndex_Kept == headIndex

RestoredIndex == Set(headIndex, applying.index)

RestoredTimestamp_Kept == ovmTimestamp

RestoredTimestamp == applying.timestamp

\* The worker reports an error: the context and HeadIndex are restored.  While
\* the node starts, the error ends Start and with it the node.
RejectTx ==
  /\ applying # NotApplying
  /\ applying.written
  /\ (IF applying.block.queueIndex = NoQueueIndex
      THEN "reject_sequencer" ELSE "reject_queue") \in Faults
  /\ ovmTimestamp' = RestoredTimestamp
  /\ ovmBlockNumber' = applying.blockNumber
  /\ headIndex' = RestoredIndex
  /\ applying' = NotApplying
  /\ status' = IF status = "syncing" THEN "down" ELSE status
  /\ UNCHANGED <<l2Chain, headQueueIndex, remoteVars, crashes>>

\* The polling loop, which also applies the queue, asks for the tip of L1.  It
\* does not take txLock: a transaction from the RPC may be in progress.
UpdateL1BlockNumber ==
  /\ status = "up"
  /\ applying # NotApplying => applying.block.queueIndex = NoQueueIndex
  /\ tip > ovmBlockNumber
  /\ ovmBlockNumber' = tip
  /\ UNCHANGED <<status, databaseVars, ovmTimestamp, applying, remoteVars, crashes>>

-----------------------------------------------------------------------------
Crash ==
  /\ "crash" \in Faults
  /\ crashes < MaxCrashes
  /\ status \in {"syncing", "up"}
  /\ status' = "down"
  /\ applying' = NotApplying
  /\ crashes' = crashes + 1
  /\ UNCHANGED <<databaseVars, contextVars, remoteVars>>

\* initializeLatestL1: the block of HeadIndex, or the last block and its index
\* if that is missing.  It panics at genesis, which has no transaction.
RepairedIndex ==
  IF headIndex = NoIndex \/ headIndex < Len(l2Chain)
  THEN headIndex
  ELSE Set(headIndex, LatestOf(l2Chain))

\* The queue index of the last block that has one, if HeadQueueIndex was written.
RepairedQueueIndex_Trusted == headQueueIndex

RepairedQueueIndex ==
  IF headQueueIndex = NoIndex \/ QueueBlocks = <<>>
  THEN headQueueIndex
  ELSE Last(QueueBlocks).queueIndex

InitializeLatestL1 ==
  /\ status = "down"
  /\ IF headIndex # NoIndex /\ l2Chain = <<>>
     THEN /\ status' = "panicked"
          /\ UNCHANGED <<databaseVars, contextVars>>
     ELSE /\ status' = "syncing"
          /\ headIndex' = RepairedIndex
          /\ headQueueIndex' = RepairedQueueIndex
          /\ ovmTimestamp' = IF headIndex = NoIndex THEN DeployTimestamp
                             ELSE l2Chain[headIndex' + 1].timestamp
          /\ ovmBlockNumber' = IF headIndex = NoIndex THEN DeployBlockNumber
                               ELSE l2Chain[headIndex' + 1].blockNumber
          /\ UNCHANGED l2Chain
  /\ UNCHANGED <<applying, remoteVars, crashes>>

\* Start opens the RPC once the queue is synced to its tip.
OpenRPC ==
  /\ status = "syncing"
  /\ applying = NotApplying
  /\ NextIndex(headQueueIndex) = Len(queue)
  /\ status' = "up"
  /\ UNCHANGED <<databaseVars, contextVars, applying, remoteVars, crashes>>

-----------------------------------------------------------------------------
\* The transport layer learns of an enqueued transaction, perhaps much later
\* than of the L1 block that holds it.
RemoteEnqueue ==
  /\ Len(queue) < MaxQueue
  /\ \E tx \in Transactions, bn \in 1 .. tip :
       /\ queue # <<>> => Last(queue).blockNumber <= bn
       /\ queue' = Append(queue, [transactionHash |-> tx, blockNumber |-> bn])
  /\ UNCHANGED <<status, databaseVars, contextVars, applying, tip, crashes>>

RemoteTip ==
  /\ tip < MaxTip
  /\ tip' = tip + 1
  /\ UNCHANGED <<status, databaseVars, contextVars, applying, queue, crashes>>

Next ==
  \/ ApplySequencerTx
  \/ ApplyQueueTx
  \/ WriteQueueIndex
  \/ CommitBlock
  \/ RejectTx
  \/ UpdateL1BlockNumber
  \/ Crash
  \/ InitializeLatestL1
  \/ OpenRPC
  \/ RemoteEnqueue
  \/ RemoteTip

Spec == Init /\ [][Next]_vars

\* The loops poll and the miner answers; a node that is down is started again.
\* Go's mutexes do not starve a waiter, so the queue gets txLock in the end.
Fairness ==
  /\ SF_vars(ApplyQueueTx)
  /\ WF_vars(WriteQueueIndex)
  /\ WF_vars(CommitBlock)
  /\ WF_vars(InitializeLatestL1)
  /\ WF_vars(OpenRPC)

FairSpec == Spec /\ Fairness

-----------------------------------------------------------------------------
Index == Nat \cup {NoIndex}

SyncTypeOK ==
  /\ status \in {"down", "syncing", "up", "panicked"}
  /\ \A block \in ToSet(l2Chain) :
       block \in [index : Nat, timestamp : Nat, blockNumber : Nat,
                 tx : Transactions \cup SequencerTxs,
                 queueIndex : Nat \cup {NoQueueIndex}]
  /\ headIndex \in Index
  /\ headQueueIndex \in Index
  /\ ovmTimestamp \in Nat
  /\ ovmBlockNumber \in Nat

\* Whenever no transaction is being applied, the two indices in the database are
\* those of the chain's last block and of its last enqueued transaction, although
\* they are written before the block and may survive it (applyTransactionToTip
\* and the repair in initializeLatestL1).
IndicesMatchChain ==
  status \in {"syncing", "up"} /\ applying = NotApplying =>
    /\ headIndex = LatestOf(l2Chain)
    /\ headQueueIndex = LatestOf(QueueBlocks)

\* The chain takes the queue in order, without gap or repetition, which is what
\* the CTC assumes of the batches made from it (sequence: "It will sync any
\* `enqueue` transactions it has yet to sync").
QueueAppliedInOrder ==
  \A i \in DOMAIN QueueBlocks : QueueBlocks[i].queueIndex = i - 1

\* A node that stopped can be started again ("On restart, these values are
\* repaired to handle the case where the index is updated but the transaction
\* isn't yet added to the chain").
RestartSucceeds == status # "panicked"

\* The sync service implements L2Sequencer: with the context as it was before
\* an application in progress, and of a stopped node as the restart will set
\* it, every step is one of L2Sequencer's or changes nothing.
Sequencer == INSTANCE L2Sequencer WITH
  ovmTimestamp <-
    IF status = "down" THEN Last(l2Chain).timestamp
    ELSE IF applying = NotApplying THEN ovmTimestamp ELSE applying.timestamp,
  ovmBlockNumber <-
    IF status = "down" THEN Last(l2Chain).blockNumber
    ELSE IF applying = NotApplying THEN ovmBlockNumber ELSE applying.blockNumber

ImplementsL2Sequencer ==
  [][ \/ \E tx \in SequencerTxs, now \in Times, n \in 1 .. MaxTip :
           Sequencer!ApplySequencerTransaction(tx, now, n)
      \/ \E now \in Times : Sequencer!ApplyQueueTransaction(queue, now)
      \/ \E n \in 1 .. MaxTip : Sequencer!UpdateL1BlockNumber(n)
      \/ Sequencer!InitializeLatestL1 ]_(Sequencer!sequencerVars)

\* An enqueued transaction known to the transport layer gets its block, whatever
\* the RPC is sent meanwhile and through crashes (syncQueueToTip).
QueueEventuallyApplied ==
  \A i \in 1 .. MaxQueue :
    (i <= Len(queue)) ~> (i <= Len(QueueBlocks))
=============================================================================
