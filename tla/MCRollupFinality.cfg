SPECIFICATION Spec
CONSTANTS
  BlockGaps = {1, 2}
  MaxUint40 = 3
  MaxUint24 = 2
  NoObject = NoObject
  Roots = {r1, r2}
  Transactions = {t1}
  SequencerTxs = {}
  Senders = {Sequencer, Proposer, FraudVerifier}
  OVM_Sequencer = Sequencer
  OVM_Proposer = Proposer
  OVM_FraudVerifier = FraudVerifier
  FRAUD_PROOF_WINDOW = 2
  MaxQueue = 0
  MaxTimestamp = 4
  MaxContexts = 2
  MaxBatch = 2
  SequencerParams <- PlainParams
  StateBatches <- RootBatches
INVARIANTS
  StateBatchesContiguous
  RootsOnlyForTransactions
PROPERTY FinalityIsForever
CHECK_DEADLOCK FALSE
