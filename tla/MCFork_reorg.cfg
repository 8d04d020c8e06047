SPECIFICATION Spec
CONSTANTS
  Block <- MCBlock
  Tx <- MCTx
  NoBlock = NoBlock
  Start = "s"
  InitiallyKnown <- MCKnown
  Past <- MCPast
  SelChain <- MCSelChain
  BlueWork <- MCBlueWork
  BlueScore <- MCBlueScore
  DaaScore <- MCBlueScore
  TxsOf <- MCTxsOf
  Accepts <- MCAccepts
  FetchLimit = 4
  MinConfirmations = 0
  DisableVirtualChainProcessing = FALSE
  DisableTransactionAcceptance = FALSE
  DisableTransactionProcessing = TRUE
  DisableVcpWaitForSync = FALSE
  QueueCapacity = 4
  CheckpointQueueCapacity = 1
  EvictCaches = FALSE
  BlockBatchSize = 1
  NoopThreshold = 1
  TxBatchSize = 2
  EvictTransactions = FALSE
  DynamicTipDistance = TRUE
  InitialTipDistance = 0
  TipWindow = 2
  ReorgsToBackOff = 1
  VcpSyncedBelow = 2
  CatchUpWindow = 2
  DbFaults = FALSE
  AllowSignal = FALSE
  MaxRestarts = 0
INVARIANTS
  TypeOK
  AcceptancesExact
  FirstRunFollows
