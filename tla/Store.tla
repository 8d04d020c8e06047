------------------------------- MODULE Store -------------------------------
(***************************************************************************)
(* What the tasks of the indexer share.                                    *)
(*                                                                         *)
(* Durable, in PostgreSQL: the tables the tasks write and the checkpoint   *)
(* in the vars table.  A transaction stands for its rows in transactions,  *)
(* transactions_inputs and transactions_outputs and for the rows of its    *)
(* outputs in addresses_transactions; the rows of its inputs in that index *)
(* are left out.  A balance is represented by how often each transaction's *)
(* outputs were credited and its inputs debited, so that a lost or         *)
(* repeated delta shows whatever the amounts are.                          *)
(*                                                                         *)
(* Volatile, gone when the process ends: the three bounded queues between  *)
(* the tasks, the start_vcp flag, the block processor's last block in the  *)
(* metrics and the shutdown flag.                                          *)
(*                                                                         *)
(* All tables are enabled (no --disable=..._table flag).                   *)
(***************************************************************************)
EXTENDS Consensus

CONSTANTS
  DisableVirtualChainProcessing,  \* --disable=virtual_chain_processing
  DisableTransactionAcceptance,   \* --disable=transaction_acceptance
  DisableTransactionProcessing,   \* --disable=transaction_processing
  DisableVcpWaitForSync,          \* --disable=vcp_wait_for_sync
  QueueCapacity,                  \* blocks_queue, txs_queue (1000 * batch_scale)
  CheckpointQueueCapacity         \* checkpoint_queue (30000)

ASSUME StoreAssumption ==
  /\ {DisableVirtualChainProcessing, DisableTransactionAcceptance,
      DisableTransactionProcessing, DisableVcpWaitForSync} \subseteq BOOLEAN
  /\ QueueCapacity \in Nat \ {0}
  /\ CheckpointQueueCapacity \in Nat \ {0}

VARIABLES
  blocksTable,       \* blocks with a row in blocks
  blockParentTable,  \* blocks with their rows in block_parent
  txsTable,          \* transactions with their rows in transactions, ...
  blockTxTable,      \* rows <<block, tx>> of blocks_transactions
  acceptances,       \* rows <<tx, block>> of transactions_acceptances
  chainRows,         \* chainRows[b]: number of rows <<NULL, b>> of that table
  outputsCredited,   \* times the outputs of a transaction were credited
  inputsDebited,     \* times the inputs of a transaction were debited
  blockCheckpoint,   \* the variable block_checkpoint of vars
  blocksQueue,       \* fetcher -> block processor
  txsQueue,          \* fetcher -> transaction processor
  cpQueue,           \* all processors -> checkpoint processor
  startVcp,          \* block processor -> virtual chain processor
  lastBlock,         \* metrics.components.block_processor.last_block
  shutdown           \* SignalHandler.shutdown_sent

tables == <<blocksTable, blockParentTable, txsTable, blockTxTable,
            acceptances, chainRows>>
balances == <<outputsCredited, inputsDebited>>
durable == <<tables, balances, blockCheckpoint>>
shared == <<blocksQueue, txsQueue, cpQueue, startVcp, lastBlock, shutdown>>

\* An empty database on which the first start has saved the initial
\* checkpoint: "balance tracking begins here".
StoreInit ==
  /\ blocksTable = {}
  /\ blockParentTable = {}
  /\ txsTable = {}
  /\ blockTxTable = {}
  /\ acceptances = {}
  /\ chainRows = [b \in Block |-> 0]
  /\ outputsCredited = [t \in Tx |-> 0]
  /\ inputsDebited = [t \in Tx |-> 0]
  /\ blockCheckpoint = Start

\* Queues, flags and metrics as start_processing makes them.
SharedInit ==
  /\ blocksQueue = <<>>
  /\ txsQueue = <<>>
  /\ cpQueue = <<>>
  /\ startVcp = FALSE
  /\ lastBlock = NoBlock
  /\ shutdown = FALSE

\* The same, when the process is started again.
SharedReset ==
  /\ blocksQueue' = <<>>
  /\ txsQueue' = <<>>
  /\ cpQueue' = <<>>
  /\ startVcp' = FALSE
  /\ lastBlock' = NoBlock
  /\ shutdown' = FALSE

Origin == {"Blocks", "Transactions", "Vcp"}

CheckpointBlock == [origin : Origin, hash : Block]

StoreTypeOK ==
  /\ known \subseteq Block
  /\ blocksTable \subseteq Block
  /\ blockParentTable \subseteq Block
  /\ txsTable \subseteq Tx
  /\ blockTxTable \subseteq Block \X Tx
  /\ acceptances \subseteq Tx \X Block
  /\ chainRows \in [Block -> Nat]
  /\ outputsCredited \in [Tx -> Nat]
  /\ inputsDebited \in [Tx -> Nat]
  /\ blockCheckpoint \in Block
  /\ blocksQueue \in Seq([hash : Block, synced : BOOLEAN])
  /\ txsQueue \in Seq(Block)
  /\ cpQueue \in Seq(CheckpointBlock)
  /\ startVcp \in BOOLEAN
  /\ lastBlock \in Block \cup {NoBlock}
  /\ shutdown \in BOOLEAN

\* The rows of block b in blocks_transactions.
BlockTxRows(b) == {b} \X TxsOf[b]

\* The inserts: each is one statement with ON CONFLICT DO NOTHING.
InsertBlockRows(blocks) == blocksTable' = blocksTable \cup blocks

InsertBlockParentRows(blocks) == blockParentTable' = blockParentTable \cup blocks

InsertTransactionRows(txs) == txsTable' = txsTable \cup txs

InsertBlockTransactionRows(rows) == blockTxTable' = blockTxTable \cup rows

\* Of rows of transactions_acceptances, those a conflict does not keep out: the
\* transaction is not marked accepted yet.
Unmarked(rows) == {row \in rows : \A old \in acceptances : old[1] # row[1]}

\* The deltas of created and spent outputs are added to the balances, in one
\* statement as long as no more than 25000 addresses change.
UpdateBalancesIncremental(created, spent) ==
  /\ outputsCredited' = [t \in Tx |->
       IF t \in created THEN outputsCredited[t] + 1 ELSE outputsCredited[t]]
  /\ inputsDebited' = [t \in Tx |->
       IF t \in spent THEN inputsDebited[t] + 1 ELSE inputsDebited[t]]

\* Blocks of a set that have rows in transactions_acceptances.
WithAcceptanceRows(hashes) ==
  {b \in hashes : chainRows[b] > 0 \/ \E t \in Tx : <<t, b>> \in acceptances}

\* DELETE FROM transactions_acceptances WHERE block_hash = ANY(hashes)
DeleteAcceptances(hashes) ==
  /\ acceptances' = {row \in acceptances : row[2] \notin hashes}
  /\ chainRows' = [b \in Block |-> IF b \in hashes THEN 0 ELSE chainRows[b]]

\* update_last_block: the metrics keep the block with the highest DAA score.
UpdateLastBlock(b) ==
  lastBlock' = IF lastBlock # NoBlock /\ DaaScore[lastBlock] >= DaaScore[b]
               THEN lastBlock ELSE b

\* ArrayQueue::push fails when the queue is full; the producers retry.
PushCheckpoint(origin, hash) ==
  /\ Len(cpQueue) < CheckpointQueueCapacity
  /\ cpQueue' = Append(cpQueue, [origin |-> origin, hash |-> hash])
=============================================================================
