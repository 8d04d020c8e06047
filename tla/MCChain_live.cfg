SPECIFICATION FairSpec
CONSTANTS
  Block <- MCBlock
  Tx <- MCTx
  NoBlock = NoBlock
  Start = "s"
  InitiallyKnown <- MCBlock
  Past <- MCPast
  SelChain <- MCSelChain
  BlueWork <- MCScore
  BlueScore <- MCScore
  DaaScore <- MCScore
  TxsOf <- MCTxsOf
  Accepts <- MCAccepts
  FetchLimit = 2
  MinConfirmations = 0
  DisableVirtualChainProcessing = FALSE
  DisableTransactionAcceptance = FALSE
  DisableTransactionProcessing = FALSE
  DisableVcpWaitForSync = TRUE
  QueueCapacity = 1
  CheckpointQueueCapacity = 1
  EvictCaches = FALSE
  BlockBatchSize = 1
  NoopThreshold = 1
  TxBatchSize = 1
  EvictTransactions = FALSE
  DynamicTipDistance = FALSE
  InitialTipDistance = 1
  TipWindow = 2
  ReorgsToBackOff = 1
  VcpSyncedBelow = 2
  CatchUpWindow = 1
  DbFaults = TRUE
  AllowSignal = FALSE
  MaxRestarts = 0
PROPERTIES
  CandidateSettles
  FetcherNeverStuck
