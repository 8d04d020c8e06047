SPECIFICATION Spec
CONSTANTS
  Block <- MCBlock
  Tx <- MCTx
  NoBlock = NoBlock
  Start = "s"
  InitiallyKnown <- MCKnown
  Past <- MCPast
  SelChain <- MCSelChain
  BlueWork <- MCScore
  BlueScore <- MCScore
  DaaScore <- MCScore
  TxsOf <- MCTxsOf
  Accepts <- MCAccepts
  FetchLimit = 3
  MinConfirmations = 0
  DisableVirtualChainProcessing = FALSE
  DisableTransactionAcceptance = FALSE
  DisableTransactionProcessing = FALSE
  DisableVcpWaitForSync = FALSE
  QueueCapacity = 1
  CheckpointQueueCapacity = 1
  EvictCaches = FALSE
  BlockBatchSize = 2
  NoopThreshold = 1
  TxBatchSize = 2
  EvictTransactions = FALSE
  DynamicTipDistance = FALSE
  InitialTipDistance = 1
  TipWindow = 2
  ReorgsToBackOff = 1
  VcpSyncedBelow = 2
  CatchUpWindow = 2
  DbFaults = FALSE
  AllowSignal = FALSE
  MaxRestarts = 0
INVARIANTS
  NoDoubleCredit
  FirstRunCredits
PROPERTIES
  ImplementsArchive
