SPECIFICATION Spec
CONSTANTS
  Block <- MCBlock
  Tx <- MCTx
  NoBlock = NoBlock
  Start = "s"
  InitiallyKnown <- MCBlock
  Past <- MCPast
  SelChain <- MCSelChain
  BlueWork <- MCBlueWork
  BlueScore <- MCBlueScore
  DaaScore <- MCBlueScore
  TxsOf <- MCTxsOf
  Accepts <- MCAccepts
  FetchLimit = 3
  MinConfirmations = 0
  DisableVirtualChainProcessing = TRUE
  DisableTransactionAcceptance = FALSE
  DisableTransactionProcessing = FALSE
  DisableVcpWaitForSync = FALSE
  QueueCapacity = 1
  CheckpointQueueCapacity = 1
  EvictCaches = FALSE
  BlockBatchSize = 1
  NoopThreshold = 1
  TxBatchSize = 2
  EvictTransactions = TRUE
  DynamicTipDistance = FALSE
  InitialTipDistance = 1
  TipWindow = 2
  ReorgsToBackOff = 1
  VcpSyncedBelow = 2
  CatchUpWindow = 2
  DbFaults = FALSE
  AllowSignal = FALSE
  MaxRestarts = 0
INVARIANTS
  TypeOK
  TxDurable
  BlocksBacked
  BlockDurable
  FirstRunInOrder
PROPERTIES
  CheckpointNeverRegresses
