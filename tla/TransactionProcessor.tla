------------------------ MODULE TransactionProcessor ------------------------
(***************************************************************************)
(* process_transactions: collects the transactions of fetched blocks into  *)
(* a batch, writes the rows of transactions it has not seen lately, then   *)
(* the block relations, and reports every block of the batch to the        *)
(* checkpoint processor.  The task is not spawned with                     *)
(* --disable=transaction_processing.                                       *)
(***************************************************************************)
EXTENDS Store

CONSTANTS
  TxBatchSize,        \* batch_size (5000 * batch_scale), in block relations
  EvictTransactions   \* whether entries of tx_id_cache may expire

ASSUME TransactionProcessorAssumption == TxBatchSize \in Nat \ {0}

VARIABLES
  tpc,       \* "pop", "txs", "relations", "push", "exited" or "disabled"
  txBatch,   \* checkpoint_blocks: blocks whose relations are in block_tx
  txRows,    \* transactions (with tx_inputs, tx_outputs, addresses) to write
  txCache    \* tx_id_cache

txProcVars == <<tpc, txBatch, txRows, txCache>>

TxProcInit ==
  /\ tpc = IF DisableTransactionProcessing THEN "disabled" ELSE "pop"
  /\ txBatch = <<>>
  /\ txRows = {}
  /\ txCache = {}

\* The same, when the process is started again.
TxProcReset ==
  /\ tpc' = IF DisableTransactionProcessing THEN "disabled" ELSE "pop"
  /\ txBatch' = <<>>
  /\ txRows' = {}
  /\ txCache' = {}

TxProcTypeOK ==
  /\ tpc \in {"pop", "txs", "relations", "push", "exited", "disabled"}
  /\ txBatch \in Seq(Block)
  /\ tpc \in {"txs", "relations", "push"} => txBatch # <<>>
  /\ txRows \subseteq Tx
  /\ txCache \subseteq Tx

\* block_tx: the relations of the blocks of a batch.
Relations(batch) == UNION {BlockTxRows(b) : b \in Range(batch)}

\* A block is popped.  Of a transaction in the cache only the block relation
\* is kept.  The batch is committed when it has enough relations, or at least
\* one and the last commit is more than 2 s ago; only a pop makes the code
\* look.
PopTxs ==
  /\ tpc = "pop"
  /\ ~shutdown
  /\ txsQueue # <<>>
  /\ txsQueue' = Tail(txsQueue)
  /\ txBatch' = Append(txBatch, Head(txsQueue))
  /\ txRows' = txRows \cup (TxsOf[Head(txsQueue)] \ txCache)
  /\ txCache' = txCache \cup TxsOf[Head(txsQueue)]
  /\ tpc' \in {"pop", "txs"}
  /\ Relations(txBatch') = {} => tpc' = "pop"
  /\ Cardinality(Relations(txBatch')) >= TxBatchSize => tpc' = "txs"
  /\ UNCHANGED <<cpQueue, txsTable, blockTxTable>>

\* Mutant of InsertTransactions: the inserts are not awaited.
InsertTransactionsUnawaited ==
  /\ tpc = "txs"
  /\ \E chunk \in SUBSET (txRows \ txsTable) : InsertTransactionRows(chunk)
  /\ tpc' = "relations"
  /\ UNCHANGED <<txBatch, txRows, txCache, txsQueue, cpQueue, blockTxTable>>

\* The concurrent inserts commit the rows chunk by chunk, in any order; a chunk
\* all of whose rows are there already changes nothing.
Chunk(chunk, rows, table) ==
  /\ chunk \subseteq rows \ table
  /\ chunk = {} <=> rows \subseteq table

\* A chunk of transaction rows; all are awaited before the relations are
\* written.
InsertTransactions ==
  /\ tpc = "txs"
  /\ \E chunk \in SUBSET txRows :
       /\ Chunk(chunk, txRows, txsTable)
       /\ InsertTransactionRows(chunk)
       /\ tpc' = IF txRows \subseteq txsTable' THEN "relations" ELSE "txs"
  /\ UNCHANGED <<txBatch, txRows, txCache, txsQueue, cpQueue, blockTxTable>>

\* A chunk of block relations; all are awaited before the blocks are reported.
InsertBlockTxs ==
  /\ tpc = "relations"
  /\ \E chunk \in SUBSET Relations(txBatch) :
       /\ Chunk(chunk, Relations(txBatch), blockTxTable)
       /\ InsertBlockTransactionRows(chunk)
       /\ tpc' = IF Relations(txBatch) \subseteq blockTxTable' THEN "push" ELSE "relations"
  /\ UNCHANGED <<txBatch, txRows, txCache, txsQueue, cpQueue, txsTable>>

\* Mutant of PushTxCheckpoint: the last slot of the queue is never used.
PushTxCheckpointOffByOne ==
  /\ tpc = "push"
  /\ Len(cpQueue) + 1 < CheckpointQueueCapacity
  /\ PushCheckpoint("Transactions", Head(txBatch))
  /\ txBatch' = Tail(txBatch)
  /\ txRows' = IF Len(txBatch) = 1 THEN {} ELSE txRows
  /\ tpc' = IF Len(txBatch) = 1 THEN "pop" ELSE "push"
  /\ UNCHANGED <<txCache, txsQueue, txsTable, blockTxTable>>

\* One checkpoint block of the committed batch; all vectors are empty after
\* the last one.  Waits while the queue is full, whatever the shutdown flag.
PushTxCheckpoint ==
  /\ tpc = "push"
  /\ PushCheckpoint("Transactions", Head(txBatch))
  /\ txBatch' = Tail(txBatch)
  /\ txRows' = IF Len(txBatch) = 1 THEN {} ELSE txRows
  /\ tpc' = IF Len(txBatch) = 1 THEN "pop" ELSE "push"
  /\ UNCHANGED <<txCache, txsQueue, txsTable, blockTxTable>>

\* The time to live of a cache entry expires.
EvictTx ==
  /\ EvictTransactions
  /\ \E t \in txCache : txCache' = txCache \ {t}
  /\ UNCHANGED <<tpc, txBatch, txRows, txsQueue, cpQueue, txsTable, blockTxTable>>

\* The loop ends between two pops; what is in the batch is lost.
TxProcExit ==
  /\ tpc = "pop"
  /\ shutdown
  /\ tpc' = "exited"
  /\ UNCHANGED <<txBatch, txRows, txCache, txsQueue, cpQueue, txsTable, blockTxTable>>

\* What the task does by itself.
TxProcWork ==
  \/ PopTxs
  \/ InsertTransactions
  \/ InsertBlockTxs
  \/ PushTxCheckpoint
  \/ TxProcExit

TxProcNext == TxProcWork \/ EvictTx
=============================================================================
