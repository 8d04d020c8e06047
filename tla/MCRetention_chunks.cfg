SPECIFICATION Spec
CONSTANTS
  MaxPoint = 4
  Tx <- MCTxPaid
  NoTx = NoTx
  Outpoint <- MCOutpoint
  BlockOf <- MCBlockOfPaid
  Timestamp <- MCTimestampPaid
  AcceptedBy <- MCAcceptedByPaid
  OutputsOf <- MCOutputsOfPaid
  SpendsOf <- MCSpendsOfPaid
  NoRetention = NoRetention
  Retention = 3
  RetentionBlockParent = 5
  RetentionBlocksTransactions = NoRetention
  RetentionBlocks = NoRetention
  RetentionTransactions = 3
  RetentionAddressesTransactions = NoRetention
  PruneBatchSize = 1
  PruneDb = {6}
  ExcludeBlockTimestamp = FALSE
  DisableTransactionAcceptance = FALSE
  MergeDelay = 2
  CatchUp = 0
  MaxTime = 6
  AllowSignal = FALSE
  MaxFaults = 0
INVARIANT SpentOutputsGone
