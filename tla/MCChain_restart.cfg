SPECIFICATION Spec
CONSTANTS
  Block <- MCBlock
  Tx <- MCTx
  NoBlock = NoBlock
  Start = "s"
  InitiallyKnown <- MCKnown
  Past <- MCPast
  SelChain <- MCSelChain
  BlueWork <- MCScore
  BlueScore <- MCScore
  DaaScore <- MCScore
  TxsOf <- MCTxsOf
  Accepts <- MCAccepts
  FetchLimit = 3
  MinConfirmations = 0
  DisableVirtualChainProcessing = FALSE
  DisableTransactionAcceptance = TRUE
  DisableTransactionProcessing = TRUE
  DisableVcpWaitForSync = FALSE
  QueueCapacity = 6
  CheckpointQueueCapacity = 1
  EvictCaches = TRUE
  BlockBatchSize = 2
  NoopThreshold = 1
  TxBatchSize = 2
  EvictTransactions = FALSE
  DynamicTipDistance = TRUE
  InitialTipDistance = 1
  TipWindow = 2
  ReorgsToBackOff = 1
  VcpSyncedBelow = 2
  CatchUpWindow = 2
  DbFaults = TRUE
  AllowSignal = FALSE
  MaxRestarts = 1
INVARIANTS
  ChainRowsExact
  ChainOrder
PROPERTIES
  CheckpointNeverRegresses
