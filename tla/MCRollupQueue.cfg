SPECIFICATION Spec
CONSTANTS
  BlockGaps = {1}
  MaxUint40 = 3
  MaxUint24 = 2
  NoObject = NoObject
  Roots = {}
  Transactions = {t1}
  SequencerTxs = {}
  Senders = {Sequencer, Proposer, FraudVerifier}
  OVM_Sequencer = Sequencer
  OVM_Proposer = Proposer
  OVM_FraudVerifier = FraudVerifier
  FRAUD_PROOF_WINDOW = 2
  MaxQueue = 3
  MaxTimestamp = 2
  MaxContexts = 2
  MaxBatch = 2
  SequencerParams <- QueueParams
  StateBatches <- RootBatches
INVARIANTS
  TypeOK
  QueueIndicesAgree
  QueueConsumedInOrder
CHECK_DEADLOCK FALSE
