---------------------------- MODULE TxDurability ----------------------------
(***************************************************************************)
(* Why the checkpoint may be trusted with respect to transactions: the     *)
(* inductive invariant behind TxsBacked.                                   *)
(*                                                                         *)
(* A block is passed on in an order in which nothing precedes its past.    *)
(* That order is created by getBlocks and must survive the response, the   *)
(* cache, the queue and the batch, so that a block whose commit the        *)
(* transaction processor reports has its whole past stored, whichever of   *)
(* the blocks in between was skipped because it had been handed over       *)
(* before.                                                                 *)
(***************************************************************************)
EXTENDS Indexer

StoredTxs == {b \in Block : TxsStored(b)}

\* Blocks handed to the transaction processor: stored, in its batch or still
\* in its queue.
HandedOver == StoredTxs \cup Range(txBatch) \cup Range(txsQueue)

\* Stored together with its past.
Settled(b) == b \in StoredTxs /\ Past[b] \subseteq StoredTxs

\* The fetcher: everything before low_hash, and everything the cache makes it
\* skip, was handed over; a block of the response comes after its past.
\* After a signal blocks are abandoned but entered in the cache, and none is
\* handed over any more.
FetcherInOrder ==
  ~shutdown =>
    /\ Past[lowHash] \subseteq HandedOver
    /\ blockCache \subseteq HandedOver
    /\ \A i \in 1..Len(pending) :
         Past[pending[i]] \subseteq HandedOver \cup Before(pending, i)

\* The queue and the batch: a block comes after its past.
QueueInOrder ==
  \A i \in 1..Len(txsQueue) :
    Past[txsQueue[i]] \subseteq StoredTxs \cup Range(txBatch) \cup Before(txsQueue, i)

BatchInOrder ==
  \A b \in Range(txBatch) : Past[b] \subseteq StoredTxs \cup Range(txBatch)

\* The batch: a transaction that is skipped because it is in the cache has
\* its rows in the table or in the batch, and the rows of the batch reach the
\* tables before its blocks are reported.
BatchComplete ==
  /\ txCache \subseteq txsTable \cup txRows
  /\ \A b \in Range(txBatch) : TxsOf[b] \subseteq txsTable \cup txRows
  /\ tpc \in {"relations", "push"} => txRows \subseteq txsTable
  /\ tpc = "push" => Relations(txBatch) \subseteq blockTxTable

\* What the checkpoint processor is told, remembers and decides.
ConfirmationsSettled ==
  /\ \A i \in 1..Len(cpQueue) :
       cpQueue[i].origin = "Transactions" => Settled(cpQueue[i].hash)
  /\ \A b \in txsProcessed : Settled(b)
  /\ cpc \in {"created", "spent", "save"} => cpOkTxs
  /\ candidate # NoBlock /\ cpOkTxs => Settled(candidate)

CheckpointBacked == Past[blockCheckpoint] \subseteq StoredTxs

\* All of it together.
OrderKept ==
  /\ FetcherInOrder
  /\ QueueInOrder
  /\ BatchInOrder
  /\ BatchComplete
  /\ ConfirmationsSettled
  /\ CheckpointBacked

\* The invariant: until a save is forced without confirmation, the order of
\* blocks is kept from the node to the checkpoint and every confirmation the
\* checkpoint processor acts on is of a block stored together with its past.
TxDurable == ~DisableTransactionProcessing /\ ~forced => OrderKept
-----------------------------------------------------------------------------
\* The abstract archive, seen through the tables.
Archive == INSTANCE ResumableArchive WITH archived <- StoredTxs, checkpoint <- blockCheckpoint

\* The five tasks, their queues, caches, evictions and restarts together are
\* an archive that can be continued from its checkpoint: no step of any task
\* moves the checkpoint past a block that is not stored or takes back a stored
\* one (checkpoint.rs, save_checkpoint; process_transactions.rs).
ImplementsArchive == Archive!Spec
=============================================================================
