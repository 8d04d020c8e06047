SPECIFICATION FairSpec
CONSTANTS
  Block <- MCBlock2
  Tx <- MCTx
  NoBlock = NoBlock
  Start = "s"
  InitiallyKnown <- MCBlock2
  Past <- MCPast2
  SelChain <- MCSelChain2
  BlueWork <- MCScore2
  BlueScore <- MCScore2
  DaaScore <- MCScore2
  TxsOf <- MCTxsOf2
  Accepts <- MCAccepts2
  FetchLimit = 2
  MinConfirmations = 0
  DisableVirtualChainProcessing = FALSE
  DisableTransactionAcceptance = FALSE
  DisableTransactionProcessing = FALSE
  DisableVcpWaitForSync = TRUE
  QueueCapacity = 1
  CheckpointQueueCapacity = 5
  EvictCaches = FALSE
  BlockBatchSize = 1
  NoopThreshold = 1
  TxBatchSize = 2
  EvictTransactions = FALSE
  DynamicTipDistance = FALSE
  InitialTipDistance = 1
  TipWindow = 2
  ReorgsToBackOff = 1
  VcpSyncedBelow = 2
  CatchUpWindow = 1
  DbFaults = FALSE
  AllowSignal = TRUE
  MaxRestarts = 0
PROPERTIES
  ShutdownCompletes
