SPECIFICATION FairSpec
CONSTANTS
  MaxPoint = 3
  IbdBatchSize = 2
  P2pAddress = TRUE
  MaxPeerFaults = 1
  MaxDbFaults = 1
  RebuildThreshold = 1
  ForceBalanceRebuild = FALSE
  ForceUtxoImport = FALSE
  DisableInitialUtxoImport = FALSE
  IgnoreCheckpoint = "none"
  LegacyCheckpoints = {0, 1}
  RpcFaults = TRUE
  PruningMoves = TRUE
  AllowSignal = TRUE
  MaxRestarts = 2
INVARIANTS
  TypeOK
  BalancesMatchCheckpoint
  ImportExact
  NoWindowStall
PROPERTIES
  StartSettles
  SignalEndsProcess
