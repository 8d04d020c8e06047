--------------------------- MODULE BlockDurability ---------------------------
(***************************************************************************)
(* Why the checkpoint may be trusted with respect to the rows of blocks:   *)
(* the inductive invariant behind BlocksBacked.                            *)
(*                                                                         *)
(* Without the virtual chain processor a candidate is a block whose commit *)
(* the block processor reported, so no confirmation is waited for and no   *)
(* save is ever forced early: what has to be shown is that a reported      *)
(* block was stored together with its whole past.  (A candidate of the     *)
(* virtual chain processor counts as confirmed by the block processor from *)
(* the start, whether or not its past was stored.)                         *)
(***************************************************************************)
EXTENDS Indexer

StoredBlocks == {b \in Block : BlockStored(b)}

\* The entries of blocks_queue, and the blocks they name.
QueueEntry == [hash : Block, synced : BOOLEAN]

HashesOf(entries) == {e.hash : e \in entries}

\* Blocks handed to the block processor: stored, in its batch or still in its
\* queue.
BlocksHandedOver == StoredBlocks \cup Range(blockBatch) \cup HashesOf(Range(blocksQueue))

\* Stored together with its past.
BlockSettled(b) == b \in StoredBlocks /\ Past[b] \subseteq StoredBlocks

\* The fetcher: everything before low_hash, and everything the cache makes it
\* skip, was handed over; a block of the response comes after its past, and
\* the block that waits for room in txs_queue was handed over already.
BlocksFetchedInOrder ==
  ~shutdown =>
    /\ Past[lowHash] \subseteq BlocksHandedOver
    /\ blockCache \subseteq BlocksHandedOver
    /\ \A i \in 1..Len(pending) :
         Past[pending[i]] \subseteq BlocksHandedOver \cup Before(pending, i)
    /\ fpc = "push_txs" => Head(pending) \in BlocksHandedOver

\* The queue and the batch: a block comes after its past.
BlockQueueInOrder ==
  \A i \in 1..Len(blocksQueue) :
    Past[blocksQueue[i].hash] \subseteq
      StoredBlocks \cup Range(blockBatch) \cup HashesOf(Before(blocksQueue, i))

BlockBatchInOrder ==
  \A b \in Range(blockBatch) : Past[b] \subseteq StoredBlocks \cup Range(blockBatch)

\* The rows of the batch reach one table, then the other, before its blocks
\* are reported.
BlockBatchCommitted ==
  /\ bpc \in {"parents", "clear", "push"} => Range(blockBatch) \subseteq blocksTable
  /\ bpc \in {"clear", "push"} => Range(blockBatch) \subseteq blockParentTable

\* What the checkpoint processor is offered, and what it takes as candidate.
\* The virtual chain processor, which is not spawned, offers nothing.
ReportsSettled ==
  /\ \A i \in 1..Len(cpQueue) :
       Offers(cpQueue[i].origin) => BlockSettled(cpQueue[i].hash)
  /\ candidate # NoBlock => BlockSettled(candidate)
  /\ vpc = "disabled"

CheckpointBackedByBlocks == Past[blockCheckpoint] \subseteq StoredBlocks

\* All of it together.
BlockOrderKept ==
  /\ BlocksFetchedInOrder
  /\ BlockQueueInOrder
  /\ BlockBatchInOrder
  /\ BlockBatchCommitted
  /\ ReportsSettled
  /\ CheckpointBackedByBlocks

\* The invariant: without the virtual chain processor, the order of blocks is
\* kept from the node to the checkpoint, and every block the checkpoint
\* processor is told of was stored together with its past.
BlockDurable == DisableVirtualChainProcessing => BlockOrderKept
-----------------------------------------------------------------------------
\* The abstract archive, seen through the tables of blocks; its promise is
\* never given up.
BlockArchive == INSTANCE ResumableArchive
                  WITH archived <- StoredBlocks, checkpoint <- blockCheckpoint, forced <- FALSE

\* Without the virtual chain processor, the tasks together are an archive of
\* block rows that can be continued from its checkpoint, even when a save was
\* forced after 120 s for want of a confirmation by the transaction processor
\* (process_blocks.rs, checkpoint.rs).
ImplementsBlockArchive == BlockArchive!Spec
-----------------------------------------------------------------------------
(***************************************************************************)
(* Why the checkpoint does not go back when there is no virtual chain      *)
(* processor: blocks are handed over once, in order, and stay in order on  *)
(* their way through queue, batch and reports.  This needs the cache to    *)
(* remember every block, and lasts until the process is first killed:      *)
(* after a restart blocks before the checkpoint may be handed over again.  *)
(***************************************************************************)
\* The blocks before those of a set.
PastOf(blocks) == UNION {Past[b] : b \in blocks}

\* Of a set of reports, the blocks that may become the candidate.
OfferedBy(reports) == {r.hash : r \in {q \in reports : Offers(q.origin)}}

\* What the checkpoint processor has taken, what it was offered, and whatever
\* left the fetcher.
TakenBlocks == {blockCheckpoint} \cup ({candidate} \ {NoBlock})

ReportedBlocks == TakenBlocks \cup OfferedBy(Range(cpQueue))

HandedOverBlocks ==
  ReportedBlocks \cup Range(blockBatch) \cup HashesOf(Range(blocksQueue))

\* The fetcher: the cache holds all blocks handed over but the one that is
\* being pushed, and with a block its past.
CacheComplete ==
  /\ Past[lowHash] \subseteq blockCache
  /\ PastOf(blockCache) \subseteq blockCache
  /\ \A i \in 1..Len(pending) :
       Past[pending[i]] \subseteq blockCache \cup Before(pending, i)
  /\ HandedOverBlocks \subseteq
       blockCache \cup {Start} \cup (IF fpc = "push_txs" THEN {Head(pending)} ELSE {})

\* No block is in the past of one that is ahead of it.
QueueAfterBatch ==
  \A i \in 1..Len(blocksQueue) :
    blocksQueue[i].hash \notin
      PastOf(ReportedBlocks \cup Range(blockBatch) \cup HashesOf(Before(blocksQueue, i)))

BatchAfterReports ==
  \A i \in 1..Len(blockBatch) : blockBatch[i] \notin PastOf(ReportedBlocks \cup Before(blockBatch, i))

ReportsAfterCandidate ==
  \A i \in 1..Len(cpQueue) :
    Offers(cpQueue[i].origin) =>
      cpQueue[i].hash \notin PastOf(TakenBlocks \cup OfferedBy(Before(cpQueue, i)))

CandidateAfterCheckpoint == candidate \notin Past[blockCheckpoint]

NoneFallsBehind ==
  /\ CacheComplete
  /\ QueueAfterBatch
  /\ BatchAfterReports
  /\ ReportsAfterCandidate
  /\ CandidateAfterCheckpoint

\* The invariant, without the virtual chain processor and as long as no cache
\* entry expires.
FirstRunInOrder ==
  DisableVirtualChainProcessing /\ ~EvictCaches /\ restarts = 0 => NoneFallsBehind
=============================================================================
