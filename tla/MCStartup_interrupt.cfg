SPECIFICATION Spec
CONSTANTS
  MaxPoint = 4
  IbdBatchSize = 2
  P2pAddress = TRUE
  MaxPeerFaults = 1
  MaxDbFaults = 0
  RebuildThreshold = 1
  ForceBalanceRebuild = FALSE
  ForceUtxoImport = FALSE
  DisableInitialUtxoImport = FALSE
  IgnoreCheckpoint = "none"
  LegacyCheckpoints = {0}
  RpcFaults = FALSE
  PruningMoves = TRUE
  AllowSignal = TRUE
  MaxRestarts = 0
INVARIANTS
  BalancesFit
