# A TLA+ model of the Boba optimistic rollup

Boba is an optimistic rollup.  A sequencer executes L2 transactions, its batch
submitter publishes them on L1 in the Canonical Transaction Chain (CTC), a
proposer publishes the resulting state roots in the State Commitment Chain
(SCC), and anybody can reconstruct the L2 chain from L1.  Contracts on L1 and L2
pass messages and tokens between the two layers on top of these chains.  This
directory models the parts of that pipeline whose correctness depends on the
order of steps of several actors, model-checks them with TLC on small instances
and proves the central results with TLAPS for every value of the constants.

## The system

| Part | Where | State it changes |
| --- | --- | --- |
| Canonical Transaction Chain | `packages/contracts/contracts/L1/rollup` | queue of L1 to L2 transactions, batch headers, packed metadata |
| State Commitment Chain | same | batch headers of state roots, packed metadata; batches can be deleted inside the fraud proof window |
| Chain storage container, ring buffer | same, `libraries/utils/Lib_Buffer.sol` | array with a length and one word of metadata |
| Address manager, bond manager | `libraries/resolver`, `L1/verification` | name to address table; stub collateral check |
| L1 and L2 cross domain messengers | `L1/messaging`, `L2/messaging` | relayed, blocked and successful messages |
| Standard bridges, ETH and token predeploys | `L1/messaging`, `L2/messaging`, `L2/predeploys` | deposits, balances |
| Batch submitter core | `go/bss-core` | polling loop, transaction manager, nonce handling |
| Sequencer and proposer drivers | `go/batch-submitter` | block range to submit, batch encoding |
| l2geth sync service | `l2geth/rollup` | indices of the last applied transaction, L1 context |
| l2geth miner worker | `l2geth/miner` | one block per transaction |
| Data transport layer (DTL) | `packages/data-transport-layer` | database of L1 and L2 data, served to l2geth |
| Message relayer, fast relayers | `packages/message-relayer` | relays finalised L2 messages |
| Fast messenger, liquidity pools, NFT bridges | `packages/boba/contracts` | fast exits without the window |
| Gas oracles | `go/gas-oracle`, `packages/boba/gas-price-oracle` | L2 gas price, L1 base fee |
| Fraud detector, monitors, gateways, SDK, examples, operations | `boba_community`, `ops_boba`, `packages`, `ops` | no state of the protocol |

How they interact: users call `enqueue` on the CTC or send transactions to the
sequencer's l2geth.  The sync service of l2geth takes enqueued transactions from
the DTL and gives all transactions, one per block, to the miner worker.  The
sequencer driver reads blocks from l2geth, encodes a batch and hands it to the
transaction manager, which sends it to the CTC and raises the gas price until it
confirms.  The proposer driver does the same with state roots and the SCC.  The
DTL reads the events and the calldata of both chains; verifiers rebuild L2 from
it.  Withdrawals are L2 messages proved against a state root of the SCC whose
fraud proof window has passed.

`PROJECT.json` lists every part with its sources, the ones that are not modelled
with the reason.

## Modules

| Module | Models |
| --- | --- |
| `L1Clock` | `block.timestamp` and `block.number` of L1 (external) |
| `ChainStorage` | `ChainStorageContainer` over `Lib_Buffer`: push, get, truncate; stale slots above the length; uint40 length |
| `StateCommitmentChain` | `appendStateBatch`, `deleteStateBatch`, `verifyStateCommitment`, the fraud proof window |
| `CanonicalTransactionChain` | `enqueue`, `appendSequencerBatch`, packed metadata, events |
| `RollupChains` | the two chains composed on one L1, their properties |
| `RollupChainsProofs` | the inductive invariant of `RollupChains` and the theorems |
| `MCRollupChains` | instances for TLC |
| `L2Blocks` | an L2 block: one transaction with its L1 context, index and queue index |
| `L2Sequencer` | abstract sequencer: each application of a transaction is one step |
| `SyncService` | `l2geth/rollup/sync_service.go` as the sequencer, step by step, with crashes; implements `L2Sequencer` |
| `MCSyncService` | initial chains for TLC |
| `SequencerBatch` | `CraftBatchTx`, `GenSequencerBatchParams`, `Write`: from blocks to calldata |
| `TransportLayer` | `SequencerBatch.read`, `parseEvent`, `_makeFullTransaction`: from event and calldata back to transactions |
| `BatchSubmitter` | event loop, `txMgr.Send`, `ClearPendingTx`, and the L1 account they use |
| `SubmitterProtocol` | the submitter against an abstract CTC; a batch may end anywhere in its range |
| `SubmitterProgress` | the same with the outcome of `CraftBatchTx` fixed for every range of blocks; liveness is stated here |
| `SubmitterProofs` | theorems about `SubmitterProtocol` |
| `PublishedChain` | abstract promise to readers of L1: a growing prefix of the sequencer's chain |
| `RollupPipeline` | CTC, sequencer, encoder, submitter and reader composed; implements `PublishedChain` and `SubmitterProtocol` |
| `MCRollupPipeline` | transaction sizes and clock skews for TLC |

Conventions.  A variable, operator or record field keeps the name it has in the
source where TLA+ allows it.  A hash is modelled by what is hashed (collision
freedom), a Merkle root by its leaves.  A definition named `X_Suffix`, placed
just before `X`, is a faulty variant of `X` (a dropped guard, an index updated too
early); it is used to check that a property does depend on that piece of code.
Nothing else refers to it.

## State and actions

* Contracts.  A call is one action; a call that reverts changes nothing, so its
  `require`s are the action's guard.  `AppendAllowed` collects the guards of
  `appendSequencerBatch`, because gas estimation evaluates them as well.
* Sync service.  `applyTransactionToTip` is cut where a crash matters: context and
  `HeadIndex` (`BeginApply`), `HeadQueueIndex` (`WriteQueueIndex`), and the
  worker's answer (`CommitBlock` or `RejectTx`).  `txLock` is `applying`.
  `updateL1BlockNumber` does not take the lock, so it interleaves.  A restart is
  `InitializeLatestL1`, then the queue, then `OpenRPC`.  `syncTransactionsToTip`
  finds nothing to do, since the sequencer is the source of the transactions.
  The refresh of the gas price oracle cache after a block, which can fail and
  restore the index, is left out; so are failing reads while the queue index is
  repaired.
* Batch submitter.  Reading the range, reading the nonce, crafting and every
  attempt of `Send` are separate steps; a restart can happen between any two.
  Failed L1 calls are `SkipRound` and `ClearNonceUnavailable`.  An attempt that
  L1 accepts is one step from gas estimation to the mempool: whatever is mined in
  between uses up the nonce, so the attempt would not be accepted.  An attempt
  can fail with a low nonce although its estimation would now fail too
  (`AbortNonceTooLow` has no guard on it), but it need not.  The latest L1 state
  stands for the state on which the node estimates.
* What a batch holds.  `CraftBatchTx` breaks off at the size limit and then drops a
  tenth of the elements until the calldata fits.  This can leave any prefix of the
  range: the whole, enqueued transactions only (`Write` refuses it), or nothing
  (`Write` and the CTC accept an empty batch, and the submitter pays for it).
  `RollupPipeline` computes the prefix from the sizes, `SubmitterProtocol` allows
  every prefix at every poll, and `SubmitterProgress` fixes one for each range,
  since the blocks of a range never change.  With the sizes of the pipeline's runs
  some batch is always left, or refused; the empty batch is in the runs of
  `SubmitterProtocol` and `SubmitterProgress`.
* Readers.  The transport layer's entries are a variable that each accepted batch
  extends, with the queue filled in as `_makeFullTransaction` does.  The hard fork
  index is 0 in every run: sequencer and readers are those after the fork.

## Runs

Passing runs, with the distinct states TLC finds:

| Run | Bounds | Shows |
| --- | --- | --- |
| `queue` | 3 queue elements, up to 2 contexts, totals up to 3 | both queue indices agree, the queue is consumed in order, also at the limit of the counters |
| `finality` | window 2, timestamps to 4, 2 roots, 3 batches | contiguity, roots only for transactions, finality |
| `publish` | 4 blocks, 2 enqueued, a small and a large transaction (488,633) | fresh batches are accepted, readers rebuild the chain |
| `restart` | 3 blocks, 1 enqueued, 1 restart of each process, 2 confirmations, clock behind by 1, room for one context and two transactions, so that batches are pruned, also to one that `Write` refuses (705,952) | timestamps never go back, readers rebuild the chain, `SubmitterProtocol` is implemented |
| `submitter_restart` | 3 blocks, 2 restarts, with and without clearing, every prefix of a range, empty batches below nonce 2 (487,559) | no pending batch reverts, clean slate |
| `submitter_live` | 3 blocks, every outcome of pruning for every range, empty batches below nonce 2, no restart, 1 confirmation (97,595) | sequencer blocks are published unless they are pruned away for good, `Send` returns |
| `sync` | 3 queue elements, 2 user blocks, 2 crashes (34,262) | indices, queue order, `L2Sequencer` is implemented, enqueued transactions are applied in the end |

The bounds are small but reach the cases that matter: contexts with and without
enqueued transactions, two batches in sequence, a size limit that splits a batch,
a deletion followed by a new batch in the same slot, two instances with
transactions of the same nonce, a crash at every step of an application and
another during the repair.  `sync` starts from a chain whose first block is an
enqueued transaction; the fresh chain is the subject of the violated runs.
Deadlock is not checked because every bounded model stops at its bounds.

## Disagreements between the code and what it says of itself

Each of these runs checks one sentence of a comment and TLC finds a behaviour of
the code that contradicts it.  `PROJECT.json` quotes the sentences.

* `queue_only`: a range with enqueued transactions only cannot be encoded.
* `send_stuck`: after a restart without clearing, `Send` may resubmit for ever,
  because a failing gas estimation does not end it.
* `clear_abort`: clearing takes its own mined transaction for another instance's.
* `first_crash`: a crash before the first block makes every later start panic.
* `queue_reject`: an enqueued transaction that the worker rejects is skipped.

Two more were seen with TLC and have no run of their own.  The no-op behind
`first_crash` (`SetLatestEnqueueIndex(nil)`) also keeps the index of the first
enqueued transaction after a crash before its block, so element 0 is skipped
(`QueueAppliedInOrder`, from a chain of user blocks).  And the L1 block number of
a block can be lower than that of the block before: `updateL1BlockNumber` follows
the L1 tip ahead of the queue; `applyTransactionToTip` logs this as an error and
goes on, and readers rebuild the numbers all the same.

## Fairness

`SubmitterProgress`: weak fairness of the submitter's steps (they run on timers)
and of L1 (blocks are mined, a pending transaction is mined some day, since its
gas price is raised).  Reading the nonce and starting to send have strong
fairness: calls to L1 fail, and `VerifyCondition` declines, not for ever; this
assumes that the L1 gas price comes below its configured maximum.  Aborting on a
low nonce is fair only while the gas estimation succeeds.  `submitter_live` uses
one confirmation, as the number of L1 blocks is bounded.

Fairness never chooses where a batch ends: `ends` holds one outcome of
`CraftBatchTx` for each range of blocks, and every poll of the range gets it
again.  So the submitter can be stuck.  With 100 blocks of enqueued transactions,
one transaction of the sequencer and calldata just above `MaxTxSize`, pruning
leaves the first 90, which `Write` refuses at every poll.
`SequencerBlocksPublished` therefore has an alternative, `[]PrunedAway`: from
some point on, what pruning leaves of the unpublished blocks holds no transaction
of the sequencer.  The run shows that nothing else keeps a block of the
sequencer's from L1, and that a batch which merely ends early only delays it.
`MaxEmptyNonce` bounds the empty batches, which could otherwise go on for ever;
it affects only behaviours that `PrunedAway` describes.

`SyncService`: the worker answers, a stopped node is started again, and the queue
loop gets `txLock` in the end, for which Go's mutex hands over to a starving
waiter; hence strong fairness of `ApplyQueueTx`.  User transactions need none.

## What is proved

`RollupChainsProofs`, for all widths, windows, senders, roots and well-formed
calldata: `TypeCorrect`, `QueueCorrect`, `StateChainCorrect`, `Finality`.  The
properties are not inductive on their own.  The inductive invariant adds that the
packed totals match the last header and that timestamps of the state batches do
not decrease and do not exceed the L1 time; `Finality` follows because a batch
that may be deleted is inside its window and so is every later one.  Sums over
contexts are cardinalities of sets of pairs, which avoids induction over the
contexts.  Assumed: the constants' types and that calldata is well formed, which
`GenSequencerBatchParams` guarantees.

`SubmitterProofs`, for any number of blocks, restarts and confirmations:
`SlateIsClean` and `BatchesDoNotRevert`.  The first rests on nonces: all pending
transactions carry the account's next nonce, mined ones a smaller one, and once
the nonce of a clearing transaction is used up nothing is pending until the
instance goes on.  The second holds because a transaction enters the mempool only
if its call succeeds now, and everything that changes the CTC's total uses up
the nonce that all pending transactions share.

Only model-checked: all liveness, the two refinements of `RollupPipeline`, that
of `SyncService`, and the properties of encoding and decoding.

## Not modelled

The messengers, bridges, fast messenger, liquidity pools, relayers and gas oracles;
the proposer's driver; the ingestion loop of the transport layer; the verifier and
replica modes of the sync service, its fee checks and gas price oracle cache; the
Turing payload and the compression of transaction data; the gas burning of
`enqueue`; L1 reorganisations; database writes that fail.  `PROJECT.json` gives
the reasons.

## Plan

1. The transport layer's ingestion loop (missing events, rewind, crash), then the
   verifier mode of the sync service on top of it, implementing `PublishedChain`.
2. The messengers and bridges on `RollupChains`, using finality; conservation of
   deposits and withdrawals; the proposer's driver on `BatchSubmitter`.
3. Proofs: the index invariant of `SyncService`, the refinement of
   `SubmitterProtocol`, replay protection of the messengers.
