------------------------------ MODULE Indexer ------------------------------
(***************************************************************************)
(* The indexer as start_processing assembles it: the five tasks run        *)
(* concurrently on the shared queues, flags and tables, next to a node     *)
(* that keeps receiving blocks.  A signal sets the shutdown flag, which    *)
(* each task notices at its own pace.  The process may end at any moment   *)
(* (a panic in one task, a second signal, a kill) and is started again:    *)
(* only the tables survive, and the tasks resume from the saved            *)
(* checkpoint.                                                             *)
(***************************************************************************)
EXTENDS BlockFetcher, BlockProcessor, TransactionProcessor,
        VirtualChainProcessor, CheckpointProcessor

CONSTANTS
  AllowSignal,   \* whether the operator may stop the indexer
  MaxRestarts    \* bound on the number of restarts

ASSUME IndexerAssumption ==
  /\ {EvictCaches, EvictTransactions, DbFaults, AllowSignal} \subseteq BOOLEAN
  /\ MaxRestarts \in Nat

VARIABLE restarts

vars == <<known, durable, shared, fetcherVars, blockProcVars, txProcVars, vcpVars,
          checkpointVars, forced, restarts>>

\* The first start: no checkpoint is saved yet, so the tasks begin at the
\* pruning point.
Init ==
  /\ ConsensusInit
  /\ StoreInit
  /\ SharedInit
  /\ FetcherInit(Start)
  /\ BlockProcInit
  /\ TxProcInit
  /\ VcpInit(Start)
  /\ CheckpointInit(Start)
  /\ forced = FALSE
  /\ restarts = 0

NodeStep ==
  /\ \E b \in Block : AddBlock(b)
  /\ UNCHANGED <<durable, shared, fetcherVars, blockProcVars, txProcVars, vcpVars,
                 checkpointVars, forced, restarts>>

FetcherFrame ==
  UNCHANGED <<known, durable, cpQueue, startVcp, lastBlock, shutdown,
             blockProcVars, txProcVars, vcpVars, checkpointVars, forced, restarts>>

FetcherStep == FetcherNext /\ FetcherFrame

BlockProcFrame ==
  UNCHANGED <<known, txsTable, blockTxTable, balances, blockCheckpoint, txsQueue,
             shutdown, fetcherVars, txProcVars, vcpVars, checkpointVars, forced,
             restarts>>

BlockProcStep == BlockProcNext /\ BlockProcFrame

TxProcFrame ==
  UNCHANGED <<known, blocksTable, blockParentTable, acceptances, chainRows,
             balances, blockCheckpoint, blocksQueue, startVcp, lastBlock, shutdown,
             fetcherVars, blockProcVars, vcpVars, checkpointVars, forced, restarts>>

TxProcStep == TxProcNext /\ TxProcFrame

VcpFrame ==
  UNCHANGED <<known, blocksTable, blockParentTable, txsTable, blockTxTable,
             balances, blockCheckpoint, blocksQueue, txsQueue, startVcp, lastBlock,
             shutdown, fetcherVars, blockProcVars, txProcVars, checkpointVars,
             forced, restarts>>

VcpStep == VcpNext /\ VcpFrame

CheckpointFrame ==
  UNCHANGED <<known, tables, blocksQueue, txsQueue, startVcp, lastBlock, shutdown,
             fetcherVars, blockProcVars, txProcVars, vcpVars, restarts>>

CheckpointStep == CheckpointNext /\ CheckpointFrame

\* handle_signal, first signal.
Signal ==
  /\ AllowSignal
  /\ ~shutdown
  /\ shutdown' = TRUE
  /\ UNCHANGED <<known, durable, blocksQueue, txsQueue, cpQueue, startVcp, lastBlock,
                 fetcherVars, blockProcVars, txProcVars, vcpVars, checkpointVars,
                 forced, restarts>>

\* The process ends, wherever its tasks are, and is started again: the tasks
\* resume from the saved checkpoint.
Restart ==
  /\ restarts < MaxRestarts
  /\ restarts' = restarts + 1
  /\ SharedReset
  /\ FetcherReset(blockCheckpoint)
  /\ BlockProcReset
  /\ TxProcReset
  /\ VcpReset(blockCheckpoint)
  /\ CheckpointReset(blockCheckpoint)
  /\ UNCHANGED <<known, durable, forced>>

\* All tasks returned after a signal: try_join_all is done.
AllExited ==
  /\ fpc = "exited"
  /\ bpc = "exited"
  /\ tpc \in {"exited", "disabled"}
  /\ vpc \in {"exited", "disabled"}
  /\ cpc = "exited"

Terminated == AllExited /\ UNCHANGED vars

Next ==
  \/ NodeStep
  \/ FetcherStep
  \/ BlockProcStep
  \/ TxProcStep
  \/ VcpStep
  \/ CheckpointStep
  \/ Signal
  \/ Restart
  \/ Terminated

Spec == Init /\ [][Next]_vars

TypeOK ==
  /\ StoreTypeOK
  /\ FetcherTypeOK
  /\ BlockProcTypeOK
  /\ TxProcTypeOK
  /\ VcpTypeOK
  /\ CheckpointTypeOK
  /\ restarts \in Nat
-----------------------------------------------------------------------------
\* All rows of the transactions in the body of b are in the database.
TxsStored(b) == TxsOf[b] \subseteq txsTable /\ BlockTxRows(b) \subseteq blockTxTable

BlockStored(b) == b \in blocksTable /\ b \in blockParentTable

\* A restart reads nothing below the saved checkpoint again, so whatever is
\* below it must be in the database: every block in the past of the
\* checkpoint has all its transactions stored.  Excepted is a checkpoint
\* saved unconfirmed after 120 s (checkpoint.rs, force_save).
TxsBacked ==
  ~DisableTransactionProcessing /\ ~forced =>
     \A b \in Past[blockCheckpoint] : TxsStored(b)

\* The same for the rows of the blocks themselves and their parents.
BlocksBacked == ~forced => \A b \in Past[blockCheckpoint] : BlockStored(b)

\* The saved checkpoint never moves to a block in its own past: a restart
\* does not go back (checkpoint.rs, save_checkpoint).
CheckpointNeverRegresses ==
  [][blockCheckpoint' \notin Past[blockCheckpoint]]_vars

\* The chain blocks after the pruning point, up to block b.
TrackedChain(b) == SelChain[b] \ {Start}

\* The acceptance rows of the selected chain up to block b.
ChainAcceptances(b) == UNION {Accepts[c] \X {c} : c \in TrackedChain(b)}

\* Between two rounds of the virtual chain processor, a transaction is marked
\* accepted by exactly the chain block that accepts it, for the chain up to
\* start_hash, and no other transaction is marked: neither a reorg nor a
\* restart leaves a stale row or loses one.
AcceptancesExact ==
  vpc = "poll" /\ startVcp /\ ~DisableTransactionAcceptance =>
     acceptances = ChainAcceptances(startHash)

\* The same for the chain block markers of --disable=transaction_acceptance:
\* every chain block after the pruning point has one row, no other has any.
ChainRowsExact ==
  vpc = "poll" /\ startVcp /\ DisableTransactionAcceptance =>
     \A b \in Block :
        chainRows[b] = IF b \in TrackedChain(startHash) THEN 1 ELSE 0

\* No transaction moves a balance twice (checkpoint.rs, previous_checkpoint).
NoDoubleCredit ==
  \A t \in Tx : outputsCredited[t] <= 1 /\ inputsDebited[t] <= 1

\* Between two iterations of the checkpoint processor, the balances are those
\* after the saved checkpoint: every transaction accepted on its chain was
\* applied once and no other.  Excepted is again a forced save.
BalancesLive ==
  cpc = "pop" /\ ~forced =>
     \A t \in Tx :
        LET n == IF \E c \in TrackedChain(blockCheckpoint) : t \in Accepts[c] THEN 1 ELSE 0
        IN  outputsCredited[t] = n /\ inputsDebited[t] = n
-----------------------------------------------------------------------------
\* Every task runs on its own, is polled by the runtime as long as it can do
\* something and retries every sleep; time passes.  Nothing is assumed of the
\* node, of signals, restarts, cache expiry or failing queries.
Fairness ==
  /\ WF_vars(FetcherWork /\ FetcherFrame)
  /\ WF_vars(BlockProcStep)
  /\ WF_vars(TxProcWork /\ TxProcFrame)
  /\ WF_vars(VcpStep)
  /\ WF_vars(CheckpointWork /\ CheckpointFrame)
  /\ WF_vars(Tick /\ CheckpointFrame)

FairSpec == Spec /\ Fairness

\* A candidate is eventually saved or dropped by a restart or a shutdown: a
\* confirmation that was used up for an earlier candidate, or never comes,
\* delays the checkpoint but does not block it (checkpoint.rs, force_save).
CandidateSettles ==
  (candidate # NoBlock) ~> (candidate = NoBlock \/ shutdown)

\* Back-pressure never stops the fetcher for good: a block that waits for
\* room in txs_queue is eventually handed over or abandoned.
FetcherNeverStuck == (fpc = "push_txs") ~> (fpc # "push_txs")

\* After a signal every task returns (or the process is ended otherwise).
ShutdownCompletes == shutdown ~> (AllExited \/ ~shutdown)
=============================================================================
