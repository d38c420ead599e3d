---------------------------- MODULE MCRollupChains ----------------------------
(***************************************************************************)
(* RollupChains with counters of a few values, so that totals, container   *)
(* lengths and the queue reach their limits.  MCRollupQueue.cfg takes      *)
(* every well-formed calldata of at most MaxContexts contexts;             *)
(* MCRollupFinality.cfg takes plain sequencer batches and explores state   *)
(* batches, deletions and the passing of time.  The contract never reads   *)
(* the transactions in the calldata, so they are left empty here.          *)
(***************************************************************************)
EXTENDS RollupChains

CONSTANTS MaxContexts, MaxBatch

MCContext ==
  [numSequencedTransactions : 0 .. 1, numSubsequentQueueTransactions : 0 .. 1,
   timestamp : {1}, blockNumber : {1}]

QueueParams ==
  {params \in [shouldStartAtElement : Uint40, totalElementsToAppend : Uint24,
               contexts : UNION {[1 .. n -> MCContext] : n \in 0 .. MaxContexts},
               txs : {<<>>}] :
     WellFormed(params)}

\* One context of sequencer transactions.
PlainParams ==
  {[shouldStartAtElement |-> start, totalElementsToAppend |-> n,
    contexts |-> <<[numSequencedTransactions |-> n,
                    numSubsequentQueueTransactions |-> 0,
                    timestamp |-> 1, blockNumber |-> 1]>>,
    txs |-> <<>>] :
     start \in Uint40, n \in 1 .. MaxBatch}

RootBatches == UNION {[1 .. n -> Roots] : n \in 0 .. MaxBatch}
=============================================================================
