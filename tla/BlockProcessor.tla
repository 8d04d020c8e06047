--------------------------- MODULE BlockProcessor ---------------------------
(***************************************************************************)
(* process_blocks: collects blocks into a batch, writes the batch to       *)
(* blocks and block_parent, clears the acceptances an earlier run left for *)
(* these blocks, decides when the virtual chain processor may start, and   *)
(* reports every block of the batch to the checkpoint processor.           *)
(***************************************************************************)
EXTENDS Store

CONSTANTS
  BlockBatchSize,   \* batch_size (800 * batch_scale)
  NoopThreshold     \* NOOP_DELETES_BEFORE_VCP (10)

ASSUME BlockProcessorAssumption ==
  /\ BlockBatchSize \in Nat \ {0}
  /\ NoopThreshold \in Nat \ {0}

VARIABLES
  bpc,              \* "pop", "blocks", "parents", "clear", "push" or "exited"
  blockBatch,       \* checkpoint_blocks, and with it blocks and blocks_parents
  poppedSynced,     \* synced flag of the block that completes the batch
  firstBlock,       \* first_block
  tasDeleted,       \* whether this commit deleted acceptance rows
  noopDeleteCount   \* noop_delete_count

blockProcVars ==
  <<bpc, blockBatch, poppedSynced, firstBlock, tasDeleted, noopDeleteCount>>

BlockProcInit ==
  /\ bpc = "pop"
  /\ blockBatch = <<>>
  /\ poppedSynced = FALSE
  /\ firstBlock = TRUE
  /\ tasDeleted = FALSE
  /\ noopDeleteCount = 0

\* The same, when the process is started again.
BlockProcReset ==
  /\ bpc' = "pop"
  /\ blockBatch' = <<>>
  /\ poppedSynced' = FALSE
  /\ firstBlock' = TRUE
  /\ tasDeleted' = FALSE
  /\ noopDeleteCount' = 0

BlockProcTypeOK ==
  /\ bpc \in {"pop", "blocks", "parents", "clear", "push", "exited"}
  /\ blockBatch \in Seq(Block)
  /\ bpc \notin {"pop", "exited"} => blockBatch # <<>>
  /\ poppedSynced \in BOOLEAN
  /\ firstBlock \in BOOLEAN
  /\ tasDeleted \in BOOLEAN
  /\ noopDeleteCount \in Nat

\* A block is popped.  The batch is committed when it is full, or when the
\* last commit is more than 2 s ago; only a pop makes the code look.
PopBlock ==
  /\ bpc = "pop"
  /\ ~shutdown
  /\ blocksQueue # <<>>
  /\ blocksQueue' = Tail(blocksQueue)
  /\ blockBatch' = Append(blockBatch, Head(blocksQueue).hash)
  /\ bpc' \in {"pop", "blocks"}
  /\ Len(blockBatch') >= BlockBatchSize => bpc' = "blocks"
  /\ poppedSynced' = (bpc' = "blocks" /\ Head(blocksQueue).synced)
  /\ UNCHANGED <<firstBlock, tasDeleted, noopDeleteCount, cpQueue, startVcp,
                 lastBlock, blocksTable, blockParentTable, acceptances, chainRows>>

\* One INSERT ... ON CONFLICT DO NOTHING of a chunk of the batch; the step
\* after the last chunk moves on.
InsertChunk(table, chunk) ==
  LET missing == Range(blockBatch) \ table
  IN  chunk \subseteq missing /\ (chunk = {} <=> missing = {})

InsertBlocks ==
  /\ bpc = "blocks"
  /\ \E chunk \in SUBSET Range(blockBatch) :
       /\ InsertChunk(blocksTable, chunk)
       /\ InsertBlockRows(chunk)
       /\ bpc' = IF Range(blockBatch) \subseteq blocksTable' THEN "parents" ELSE "blocks"
  /\ UNCHANGED <<blockBatch, poppedSynced, firstBlock, tasDeleted, noopDeleteCount,
                 blocksQueue, cpQueue, startVcp, lastBlock, blockParentTable,
                 acceptances, chainRows>>

\* Mutant of InsertBlockParents: moves on whatever the statement inserted.
InsertBlockParentsUnchecked ==
  /\ bpc = "parents"
  /\ \E chunk \in SUBSET Range(blockBatch) :
       InsertBlockParentRows(chunk)
  /\ bpc' = "clear"
  /\ UNCHANGED <<blockBatch, poppedSynced, firstBlock, tasDeleted, noopDeleteCount,
                 blocksQueue, cpQueue, startVcp, lastBlock, blocksTable,
                 acceptances, chainRows>>

InsertBlockParents ==
  /\ bpc = "parents"
  /\ \E chunk \in SUBSET Range(blockBatch) :
       /\ InsertChunk(blockParentTable, chunk)
       /\ InsertBlockParentRows(chunk)
       /\ bpc' = IF Range(blockBatch) \subseteq blockParentTable' THEN "clear" ELSE "parents"
  /\ UNCHANGED <<blockBatch, poppedSynced, firstBlock, tasDeleted, noopDeleteCount,
                 blocksQueue, cpQueue, startVcp, lastBlock, blocksTable,
                 acceptances, chainRows>>

\* Acceptances are cleared until the virtual chain processor is started.
Clearing == ~startVcp /\ ~DisableVirtualChainProcessing

\* Mutant of ToClear: the first block of every batch is skipped.
ToClearSkipping == Range(Tail(blockBatch))

\* The blocks of the batch whose acceptances are cleared: all but the very
\* first block since the start, which is the checkpoint itself.
ToClear == Range(IF firstBlock THEN Tail(blockBatch) ELSE blockBatch)

\* One DELETE of a chunk of the batch, as far as it deletes rows.
ClearAcceptances ==
  /\ bpc = "clear"
  /\ Clearing
  /\ \E chunk \in (SUBSET WithAcceptanceRows(ToClear)) \ {{}} : DeleteAcceptances(chunk)
  /\ tasDeleted' = TRUE
  /\ UNCHANGED <<bpc, blockBatch, poppedSynced, firstBlock, noopDeleteCount,
                 blocksQueue, cpQueue, startVcp, lastBlock, blocksTable,
                 blockParentTable>>

\* noop_delete_count after a commit.
CountNoop ==
  IF (DisableVcpWaitForSync \/ poppedSynced) /\ ~tasDeleted
  THEN noopDeleteCount + 1
  ELSE 0

\* All rows are written: the virtual chain processor is started after enough
\* commits in a row that found nothing to clear, and the metrics are updated.
FinishCommit ==
  /\ bpc = "clear"
  /\ Clearing => WithAcceptanceRows(ToClear) = {}
  /\ IF Clearing
     THEN /\ firstBlock' = FALSE
          /\ noopDeleteCount' = CountNoop
          /\ startVcp' = (CountNoop >= NoopThreshold)
     ELSE UNCHANGED <<firstBlock, noopDeleteCount, startVcp>>
  /\ tasDeleted' = FALSE
  /\ poppedSynced' = FALSE
  /\ UpdateLastBlock(blockBatch[Len(blockBatch)])
  /\ bpc' = "push"
  /\ UNCHANGED <<blockBatch, blocksQueue, cpQueue, blocksTable, blockParentTable,
                 acceptances, chainRows>>

\* One checkpoint block of the committed batch; the batch is empty after the
\* last one.  The loop waits while the queue is full and never looks at the
\* shutdown flag.
PushBlockCheckpoint ==
  /\ bpc = "push"
  /\ PushCheckpoint("Blocks", Head(blockBatch))
  /\ blockBatch' = Tail(blockBatch)
  /\ bpc' = IF Len(blockBatch) = 1 THEN "pop" ELSE "push"
  /\ UNCHANGED <<poppedSynced, firstBlock, tasDeleted, noopDeleteCount, blocksQueue,
                 startVcp, lastBlock, blocksTable, blockParentTable, acceptances,
                 chainRows>>

\* The loop ends between two pops; what is in the batch is lost.
BlockProcExit ==
  /\ bpc = "pop"
  /\ shutdown
  /\ bpc' = "exited"
  /\ UNCHANGED <<blockBatch, poppedSynced, firstBlock, tasDeleted, noopDeleteCount,
                 blocksQueue, cpQueue, startVcp, lastBlock, blocksTable,
                 blockParentTable, acceptances, chainRows>>

BlockProcNext ==
  \/ PopBlock
  \/ InsertBlocks
  \/ InsertBlockParents
  \/ ClearAcceptances
  \/ FinishCommit
  \/ PushBlockCheckpoint
  \/ BlockProcExit
=============================================================================
