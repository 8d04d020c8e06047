SPECIFICATION Spec
CONSTANTS
  MaxPoint = 4
  Tx <- MCTx
  NoTx = NoTx
  Outpoint <- MCOutpoint
  BlockOf <- MCBlockOf
  Timestamp <- MCTimestamp
  AcceptedBy <- MCAcceptedBy
  OutputsOf <- MCOutputsOf
  SpendsOf <- MCSpendsOf
  NoRetention = NoRetention
  Retention = 3
  RetentionBlockParent = 5
  RetentionBlocksTransactions = NoRetention
  RetentionBlocks = NoRetention
  RetentionTransactions = 2
  RetentionAddressesTransactions = NoRetention
  PruneBatchSize = 1
  PruneDb = {4, 5}
  ExcludeBlockTimestamp = FALSE
  DisableTransactionAcceptance = FALSE
  MergeDelay = 2
  CatchUp = 0
  MaxTime = 5
  AllowSignal = TRUE
  MaxFaults = 1
INVARIANTS
  TypeOK
  UnsettledKept
  UtxoSetStored
  NoOrphanRows
