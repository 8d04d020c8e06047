SPECIFICATION Spec
CONSTANTS
  Block <- MCBlock4
  Tx <- MCTx
  NoBlock = NoBlock
  Start = "s"
  InitiallyKnown <- MCKnown
  Past <- MCPast4
  SelChain <- MCSelChain4
  BlueWork <- MCScore4
  BlueScore <- MCScore4
  DaaScore <- MCScore4
  TxsOf <- MCTxsOf4
  Accepts <- MCAccepts4
  FetchLimit = 4
  MinConfirmations = 0
  DisableVirtualChainProcessing = FALSE
  DisableTransactionAcceptance = FALSE
  DisableTransactionProcessing = FALSE
  DisableVcpWaitForSync = FALSE
  QueueCapacity = 1
  CheckpointQueueCapacity = 1
  EvictCaches = FALSE
  BlockBatchSize = 2
  NoopThreshold = 1
  TxBatchSize = 2
  EvictTransactions = FALSE
  DynamicTipDistance = FALSE
  InitialTipDistance = 1
  TipWindow = 2
  ReorgsToBackOff = 1
  VcpSyncedBelow = 2
  CatchUpWindow = 2
  DbFaults = FALSE
  AllowSignal = FALSE
  MaxRestarts = 0
INVARIANTS
  BalancesLive
