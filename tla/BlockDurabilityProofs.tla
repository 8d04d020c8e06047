------------------------ MODULE BlockDurabilityProofs ------------------------
(***************************************************************************)
(* Without the virtual chain processor, a saved checkpoint is backed by    *)
(* the rows of the blocks of its past, for every block DAG, every order of *)
(* the responses, every size of the queues and batches, every eviction     *)
(* from the cache, and any number of restarts.                             *)
(***************************************************************************)
EXTENDS BlockDurability, TypeProofs

\* Nothing was fetched yet.
LEMMA InitBlockOrder == DisableVirtualChainProcessing /\ Init => BlockOrderKept
  <1> SUFFICES ASSUME DisableVirtualChainProcessing, Init PROVE BlockOrderKept
    OBVIOUS
  <1>1. /\ blocksQueue = <<>> /\ cpQueue = <<>> /\ pending = <<>> /\ blockBatch = <<>>
        /\ blockCache = {} /\ lowHash = Start /\ blockCheckpoint = Start
        /\ candidate = NoBlock /\ bpc = "pop" /\ fpc = "fetch" /\ vpc = "disabled"
    BY DEF Init, SharedInit, StoreInit, FetcherInit, BlockProcInit, VcpInit, CheckpointInit
  <1>2. Past[Start] = {} /\ Range(<<>>) = {} /\ Len(<<>>) = 0
    BY Emptied, EmptyRange, ConsensusAssumption
  <1>3. BlocksFetchedInOrder
    BY <1>1, <1>2 DEF BlocksFetchedInOrder
  <1>4. BlockQueueInOrder /\ BlockBatchInOrder /\ BlockBatchCommitted
    BY <1>1, <1>2 DEF BlockQueueInOrder, BlockBatchInOrder, BlockBatchCommitted
  <1>5. ReportsSettled /\ CheckpointBackedByBlocks
    BY <1>1, <1>2 DEF ReportsSettled, CheckpointBackedByBlocks
  <1> QED
    BY <1>3, <1>4, <1>5 DEF BlockOrderKept

\* What a push to blocks_queue does to the hashes in it, ...
LEMMA BlockPushed ==
  ASSUME NEW s \in Seq(QueueEntry), NEW e \in QueueEntry
  PROVE  /\ HashesOf(Range(Append(s, e))) = HashesOf(Range(s)) \cup {e.hash}
         /\ \A i \in 1..Len(Append(s, e)) :
              \/ /\ i \in 1..Len(s)
                 /\ Append(s, e)[i] = s[i]
                 /\ Before(Append(s, e), i) = Before(s, i)
              \/ /\ Append(s, e)[i] = e
                 /\ Before(Append(s, e), i) = Range(s)
  <1>1. /\ Range(Append(s, e)) = Range(s) \cup {e}
        /\ Len(Append(s, e)) = Len(s) + 1
        /\ \A i \in 1..Len(s) : /\ Append(s, e)[i] = s[i]
                                /\ Before(Append(s, e), i) = Before(s, i)
        /\ Append(s, e)[Len(s) + 1] = e
        /\ Before(Append(s, e), Len(s) + 1) = Range(s)
    BY Pushed
  <1>2. \A i \in 1..(Len(s) + 1) : i \in 1..Len(s) \/ i = Len(s) + 1
    <2>1. Len(s) \in Nat
      BY LenProperties
    <2> QED
      BY <2>1
  <1>3. HashesOf(Range(Append(s, e))) = HashesOf(Range(s)) \cup {e.hash}
    BY <1>1 DEF HashesOf
  <1>4. ASSUME NEW i \in 1..Len(Append(s, e))
        PROVE  \/ /\ i \in 1..Len(s)
                  /\ Append(s, e)[i] = s[i]
                  /\ Before(Append(s, e), i) = Before(s, i)
               \/ /\ Append(s, e)[i] = e
                  /\ Before(Append(s, e), i) = Range(s)
    <2>1. i \in 1..Len(s) \/ i = Len(s) + 1
      BY <1>1, <1>2
    <2> QED
      BY <1>1, <2>1
  <1> QED
    BY <1>3, <1>4

\* ... and what a pop does.
LEMMA BlockTaken ==
  ASSUME NEW s \in Seq(QueueEntry), s # <<>>
  PROVE  /\ HashesOf(Range(s)) = {Head(s).hash} \cup HashesOf(Range(Tail(s)))
         /\ Head(s) = s[1] /\ 1 \in 1..Len(s) /\ HashesOf(Before(s, 1)) = {}
         /\ \A i \in 1..Len(Tail(s)) :
              /\ i + 1 \in 1..Len(s)
              /\ Tail(s)[i] = s[i + 1]
              /\ HashesOf(Before(s, i + 1)) = {Head(s).hash} \cup HashesOf(Before(Tail(s), i))
  <1>1. /\ Head(s) = s[1] /\ 1 \in 1..Len(s)
        /\ Range(s) = {Head(s)} \cup Range(Tail(s))
        /\ \A i \in 1..Len(Tail(s)) :
             /\ i + 1 \in 1..Len(s)
             /\ Tail(s)[i] = s[i + 1]
             /\ Before(s, i + 1) = {Head(s)} \cup Before(Tail(s), i)
    BY Taken
  <1>2. \A X : HashesOf({Head(s)} \cup X) = {Head(s).hash} \cup HashesOf(X)
    BY DEF HashesOf
  <1>3. HashesOf(Before(s, 1)) = {}
    BY DEF HashesOf, Before
  <1> QED
    BY <1>1, <1>2, <1>3

\* A step of the fetcher.
LEMMA FetcherKeepsBlockOrder ==
  ASSUME TypeOK, BlockOrderKept, FetcherStep
  PROVE  BlockOrderKept'
  <1>1. /\ BlockBatchInOrder' /\ BlockBatchCommitted' /\ ReportsSettled'
        /\ CheckpointBackedByBlocks'
        /\ StoredBlocks' = StoredBlocks
    BY DEF FetcherStep, FetcherFrame, durable, tables, balances, blockProcVars, vcpVars, checkpointVars,
           BlockOrderKept, BlockBatchInOrder, BlockBatchCommitted, ReportsSettled,
           CheckpointBackedByBlocks, BlockSettled, StoredBlocks, BlockStored
  <1>2. /\ UNCHANGED <<blockBatch, shutdown>>
        /\ BlocksFetchedInOrder /\ BlockQueueInOrder
        /\ pending \in Seq(Block)
        /\ blocksQueue \in Seq(QueueEntry)
    BY DEF QueueEntry, FetcherStep, FetcherFrame, blockProcVars, BlockOrderKept, TypeOK, FetcherTypeOK,
           StoreTypeOK
  <1>3. ASSUME UNCHANGED blocksQueue
        PROVE  BlockQueueInOrder' /\ BlocksHandedOver' = BlocksHandedOver
    BY <1>1, <1>2, <1>3 DEF BlockQueueInOrder, BlocksHandedOver
  <1>4. ASSUME BlocksFetchedInOrder', BlockQueueInOrder'
        PROVE  BlockOrderKept'
    BY <1>1, <1>4 DEF BlockOrderKept
  <1>5. ASSUME pending # <<>>
        PROVE  /\ \A i \in 1..Len(Tail(pending)) :
                    /\ i + 1 \in 1..Len(pending)
                    /\ Tail(pending)[i] = pending[i + 1]
                    /\ Before(pending, i + 1) = {Head(pending)} \cup Before(Tail(pending), i)
               /\ ~shutdown => Past[Head(pending)] \subseteq BlocksHandedOver
    <2>1. Before(pending, 1) = {}
      BY DEF Before
    <2> QED
      BY <1>2, <1>5, <2>1, Taken DEF BlocksFetchedInOrder
  \* The loop body is left with the block at the head handed over.
  <1>6. ASSUME NextBlock, pending # <<>>, UNCHANGED blocksQueue,
               ~shutdown => Head(pending) \in BlocksHandedOver,
               blockCache' \subseteq blockCache \cup {Head(pending)}
        PROVE  BlocksFetchedInOrder'
    <2>0. BlocksHandedOver' = BlocksHandedOver
      BY <1>3, <1>6
    <2> SUFFICES ASSUME ~shutdown
                 PROVE  /\ Past[lowHash'] \subseteq BlocksHandedOver
                        /\ blockCache' \subseteq BlocksHandedOver
                        /\ \A i \in 1..Len(pending') :
                             Past[pending'[i]] \subseteq BlocksHandedOver \cup Before(pending', i)
                        /\ fpc' # "push_txs"
      BY <1>2, <2>0 DEF BlocksFetchedInOrder, Before
    <2>1. /\ Past[lowHash] \subseteq BlocksHandedOver
          /\ blockCache \subseteq BlocksHandedOver
          /\ \A i \in 1..Len(pending) :
               Past[pending[i]] \subseteq BlocksHandedOver \cup Before(pending, i)
      BY <1>2 DEF BlocksFetchedInOrder
    <2>2. /\ pending' = Tail(pending) /\ lowHash' \in {lowHash, Head(pending)}
          /\ fpc' # "push_txs"
      BY <1>6 DEF NextBlock
    <2>3. Past[lowHash'] \subseteq BlocksHandedOver
      BY <1>5, <1>6, <2>1, <2>2
    <2>4. ASSUME NEW i \in 1..Len(Tail(pending))
          PROVE  Past[Tail(pending)[i]] \subseteq BlocksHandedOver \cup Before(Tail(pending), i)
      BY <1>5, <1>6, <2>1, <2>4
    <2> QED
      BY <1>6, <2>1, <2>2, <2>3, <2>4
  \* A response, or nothing, is to be handled next.
  <1>7. ASSUME UNCHANGED <<blocksQueue, lowHash, blockCache>>, fpc' # "push_txs",
               NEW blocks, pending' \in {blocks, <<>>},
               ~shutdown => \A i \in 1..Len(blocks) :
                              Past[blocks[i]] \subseteq BlocksHandedOver \cup Before(blocks, i)
        PROVE  BlocksFetchedInOrder' /\ BlockQueueInOrder'
    BY <1>2, <1>3, <1>7, Emptied DEF BlocksFetchedInOrder, Before
  <1>8. CASE FetchBlocks
    <2>1. PICK blocks \in GetBlocks(lowHash) : pending' \in {blocks, <<>>}
      BY <1>8 DEF FetchBlocks, Handle
    <2>2. blocks \in Seq(Block) /\ DOMAIN blocks = 1..Len(blocks)
      BY ResponseType, LenProperties
    <2>3. \A i \in 1..Len(blocks) :
            Past[blocks[i]] \subseteq Past[lowHash] \cup Before(blocks, i)
      BY <2>2 DEF GetBlocks
    <2>4. ~shutdown => Past[lowHash] \subseteq BlocksHandedOver
      BY <1>2 DEF BlocksFetchedInOrder
    <2>5. fpc' # "push_txs" /\ UNCHANGED <<blocksQueue, lowHash, blockCache>>
      BY <1>8 DEF FetchBlocks, Handle
    <2> QED
      BY <1>4, <1>7, <2>1, <2>3, <2>4, <2>5
  <1>9. CASE RefreshTips
    <2>1. /\ pending' \in {pending, <<>>}
          /\ fpc' # "push_txs" /\ UNCHANGED <<blocksQueue, lowHash, blockCache>>
      BY <1>9 DEF RefreshTips, Handle
    <2> QED
      BY <1>2, <1>4, <1>7, <2>1 DEF BlocksFetchedInOrder
  <1>10. CASE IgnoreKnownBlock
    <2>1. pending # <<>>
      BY <1>10 DEF IgnoreKnownBlock, TypeOK, FetcherTypeOK
    <2>2. ~shutdown => Head(pending) \in BlocksHandedOver
      BY <1>2, <1>10 DEF IgnoreKnownBlock, BlocksFetchedInOrder
    <2> QED
      BY <1>3, <1>4, <1>6, <1>10, <2>1, <2>2 DEF IgnoreKnownBlock
  <1>11. CASE PushBlock
    <2> DEFINE e == [hash |-> Head(pending), synced |-> synced']
    <2>1. /\ pending # <<>> /\ ~shutdown /\ Head(pending) \in Block
          /\ synced' \in BOOLEAN
          /\ blocksQueue' = Append(blocksQueue, e)
          /\ UNCHANGED <<pending, lowHash, blockCache>>
      <3>1. pending # <<>> /\ ~shutdown /\ blocksQueue' = Append(blocksQueue, e)
            /\ UNCHANGED <<pending, lowHash, blockCache>>
        BY <1>11 DEF PushBlock, TypeOK, FetcherTypeOK
      <3>2. synced' \in BOOLEAN
        BY <1>11 DEF PushBlock, FindTip
      <3> QED
        BY <1>2, <3>1, <3>2, Popped
    <2>2. e \in QueueEntry /\ e.hash = Head(pending)
      BY <2>1 DEF QueueEntry
    <2> HIDE DEF e
    <2>3. HashesOf(Range(blocksQueue')) = HashesOf(Range(blocksQueue)) \cup {Head(pending)}
      BY <1>2, <2>1, <2>2, BlockPushed
    <2>4. BlocksHandedOver' = BlocksHandedOver \cup {Head(pending)}
      BY <1>1, <1>2, <2>3 DEF BlocksHandedOver
    <2>5. BlocksFetchedInOrder'
      BY <1>2, <2>1, <2>4 DEF BlocksFetchedInOrder, Before
    <2>6. BlockQueueInOrder'
      <3> SUFFICES ASSUME NEW i \in 1..Len(blocksQueue')
                   PROVE  Past[blocksQueue'[i].hash] \subseteq
                            StoredBlocks \cup Range(blockBatch) \cup
                            HashesOf(Before(blocksQueue', i))
        BY <1>1, <1>2 DEF BlockQueueInOrder
      <3>1. \/ /\ i \in 1..Len(blocksQueue)
               /\ blocksQueue'[i] = blocksQueue[i]
               /\ Before(blocksQueue', i) = Before(blocksQueue, i)
            \/ /\ blocksQueue'[i] = e
               /\ Before(blocksQueue', i) = Range(blocksQueue)
        BY <1>2, <2>1, <2>2, BlockPushed
      <3>2. Past[Head(pending)] \subseteq BlocksHandedOver
        BY <1>5, <2>1
      <3> QED
        BY <1>2, <2>2, <3>1, <3>2 DEF BlockQueueInOrder, BlocksHandedOver
    <2> QED
      BY <1>4, <2>5, <2>6
  <1>12. CASE PushTxs
    <2>1. pending # <<>>
      BY <1>12 DEF PushTxs, TypeOK, FetcherTypeOK
    <2>2. ~shutdown => Head(pending) \in BlocksHandedOver
      BY <1>2, <1>12 DEF PushTxs, BlocksFetchedInOrder
    <2> QED
      BY <1>3, <1>4, <1>6, <1>12, <2>1, <2>2 DEF PushTxs
  <1>13. CASE AbandonBlock
    BY <1>2, <1>3, <1>4, <1>13 DEF AbandonBlock, BlocksFetchedInOrder
  <1>14. CASE EvictBlock
    BY <1>2, <1>3, <1>4, <1>14 DEF EvictBlock, BlocksFetchedInOrder, Before
  <1>15. CASE FetcherExit
    BY <1>2, <1>3, <1>4, <1>15 DEF FetcherExit, BlocksFetchedInOrder, Before
  <1> QED
    BY <1>8, <1>9, <1>10, <1>11, <1>12, <1>13, <1>14, <1>15
       DEF FetcherStep, FetcherNext, FetcherWork

\* A step that leaves the fetcher alone keeps its order when whatever was
\* handed over still is.
LEMMA FetchedOrderFrame ==
  ASSUME BlocksFetchedInOrder, BlocksHandedOver \subseteq BlocksHandedOver',
         UNCHANGED <<fetcherVars, shutdown>>
  PROVE  BlocksFetchedInOrder'
  BY DEF BlocksFetchedInOrder, fetcherVars, Before

\* Reports outlast every step that stores more and reports nothing.
LEMMA ReportsFrame ==
  ASSUME ReportsSettled, StoredBlocks \subseteq StoredBlocks',
         UNCHANGED <<cpQueue, candidate, vpc>>
  PROVE  ReportsSettled'
  BY DEF ReportsSettled, BlockSettled

\* A new report in the queue, of a settled block if it may become the
\* candidate.
LEMMA NewReportSettled ==
  ASSUME ReportsSettled, StoreTypeOK, NEW o \in Origin, NEW b \in Block,
         PushCheckpoint(o, b), Offers(o) => BlockSettled(b),
         UNCHANGED <<candidate, vpc, blocksTable, blockParentTable>>
  PROVE  ReportsSettled'
  <1> DEFINE r == [origin |-> o, hash |-> b]
             n == Len(cpQueue)
  <1>1. r \in CheckpointBlock /\ cpQueue \in Seq(CheckpointBlock) /\ cpQueue' = Append(cpQueue, r)
    BY DEF CheckpointBlock, PushCheckpoint, StoreTypeOK
  <1>2. /\ n \in Nat
        /\ Len(cpQueue') = n + 1
        /\ \A i \in 1..n : cpQueue'[i] = cpQueue[i]
        /\ cpQueue'[n + 1] = r
    BY <1>1, AppendProperties, LenProperties
  <1>3. StoredBlocks' = StoredBlocks
    BY DEF StoredBlocks, BlockStored
  <1>4. \A i \in 1..(n + 1) : i \in 1..n \/ i = n + 1
    BY <1>2
  <1>5. \A i \in 1..Len(cpQueue') :
          Offers(cpQueue'[i].origin) => BlockSettled(cpQueue'[i].hash)
    BY <1>2, <1>4 DEF ReportsSettled
  <1> QED
    BY <1>3, <1>5 DEF ReportsSettled, BlockSettled

\* A step that neither touches the fetcher, the block processor and their
\* tables nor moves the checkpoint concerns the reports only.
LEMMA BlockOrderFrame ==
  ASSUME BlockOrderKept, ReportsSettled',
         UNCHANGED <<fetcherVars, bpc, blockBatch, blocksTable, blockParentTable, blocksQueue,
                     shutdown, blockCheckpoint>>
  PROVE  BlockOrderKept'
  <1>1. StoredBlocks' = StoredBlocks
    BY DEF StoredBlocks, BlockStored
  <1>2. BlocksHandedOver' = BlocksHandedOver
    BY <1>1 DEF BlocksHandedOver
  <1>3. BlocksFetchedInOrder'
    BY <1>2, FetchedOrderFrame DEF BlockOrderKept
  <1>4. BlockQueueInOrder' /\ BlockBatchInOrder'
    BY <1>1 DEF BlockOrderKept, BlockQueueInOrder, BlockBatchInOrder, Before
  <1>5. BlockBatchCommitted' /\ CheckpointBackedByBlocks'
    BY <1>1 DEF BlockOrderKept, BlockBatchCommitted, CheckpointBackedByBlocks
  <1> QED
    BY <1>3, <1>4, <1>5 DEF BlockOrderKept

\* A step of the block processor.
LEMMA BlockProcKeepsBlockOrder ==
  ASSUME TypeOK, BlockOrderKept, BlockProcStep
  PROVE  BlockOrderKept'
  <1>1. /\ UNCHANGED <<fetcherVars, candidate, vpc, shutdown, blockCheckpoint>>
        /\ blockBatch \in Seq(Block) /\ blocksQueue \in Seq(QueueEntry)
        /\ BlocksFetchedInOrder /\ BlockQueueInOrder /\ BlockBatchInOrder
        /\ BlockBatchCommitted /\ ReportsSettled /\ CheckpointBackedByBlocks
    BY DEF BlockProcStep, BlockProcFrame, vcpVars, checkpointVars, BlockOrderKept, TypeOK,
           BlockProcTypeOK, StoreTypeOK, QueueEntry
  <1>2. CASE PopBlock
    <2> DEFINE h == Head(blocksQueue).hash
    <2>1. /\ blocksQueue # <<>>
          /\ blocksQueue' = Tail(blocksQueue)
          /\ blockBatch' = Append(blockBatch, h)
          /\ bpc' \in {"pop", "blocks"}
          /\ UNCHANGED <<blocksTable, blockParentTable, cpQueue>>
      BY <1>2 DEF PopBlock
    <2>2. h \in Block
      <3>1. Head(blocksQueue) \in QueueEntry
        BY <1>1, <2>1, Popped
      <3> QED
        BY <3>1 DEF QueueEntry
    <2>3. StoredBlocks' = StoredBlocks
      BY <2>1 DEF StoredBlocks, BlockStored
    <2>4. /\ Range(blockBatch') = Range(blockBatch) \cup {h}
          /\ HashesOf(Range(blocksQueue)) = {h} \cup HashesOf(Range(blocksQueue'))
      BY <1>1, <2>1, <2>2, Pushed, BlockTaken
    <2>5. BlocksHandedOver' = BlocksHandedOver
      BY <2>3, <2>4 DEF BlocksHandedOver
    <2>6. BlockQueueInOrder'
      <3>1. SUFFICES ASSUME NEW i \in 1..Len(Tail(blocksQueue))
                     PROVE  Past[Tail(blocksQueue)[i].hash] \subseteq
                              StoredBlocks \cup Range(blockBatch') \cup
                              HashesOf(Before(Tail(blocksQueue), i))
        BY <2>1, <2>3 DEF BlockQueueInOrder
      <3>2. /\ i + 1 \in 1..Len(blocksQueue)
            /\ Tail(blocksQueue)[i] = blocksQueue[i + 1]
            /\ HashesOf(Before(blocksQueue, i + 1)) =
                 {h} \cup HashesOf(Before(Tail(blocksQueue), i))
        BY <1>1, <2>1, BlockTaken
      <3>3. Past[blocksQueue[i + 1].hash] \subseteq
              StoredBlocks \cup Range(blockBatch) \cup HashesOf(Before(blocksQueue, i + 1))
        BY <1>1, <3>2 DEF BlockQueueInOrder
      <3> QED
        BY <2>4, <3>2, <3>3
    <2>7. BlockBatchInOrder'
      <3>1. /\ Head(blocksQueue) = blocksQueue[1] /\ 1 \in 1..Len(blocksQueue)
            /\ HashesOf(Before(blocksQueue, 1)) = {}
        BY <1>1, <2>1, BlockTaken
      <3>2. Past[h] \subseteq StoredBlocks \cup Range(blockBatch)
        BY <1>1, <3>1 DEF BlockQueueInOrder
      <3> QED
        BY <1>1, <2>3, <2>4, <3>2 DEF BlockBatchInOrder
    <2>8. BlockBatchCommitted'
      BY <2>1 DEF BlockBatchCommitted
    <2> QED
      BY <1>1, <2>1, <2>3, <2>5, <2>6, <2>7, <2>8, FetchedOrderFrame, ReportsFrame
         DEF BlockOrderKept, CheckpointBackedByBlocks
  \* Rows are inserted: more is stored, the queue and the batch stay.
  <1>3. ASSUME UNCHANGED <<blockBatch, blocksQueue, cpQueue>>,
               blocksTable \subseteq blocksTable', blockParentTable \subseteq blockParentTable',
               BlockBatchCommitted'
        PROVE  BlockOrderKept'
    <2>1. StoredBlocks \subseteq StoredBlocks'
      BY <1>3 DEF StoredBlocks, BlockStored
    <2>2. BlocksHandedOver \subseteq BlocksHandedOver'
      BY <1>3, <2>1 DEF BlocksHandedOver
    <2>3. BlockQueueInOrder' /\ BlockBatchInOrder' /\ CheckpointBackedByBlocks'
      BY <1>1, <1>3, <2>1 DEF BlockQueueInOrder, BlockBatchInOrder, CheckpointBackedByBlocks
    <2> QED
      BY <1>1, <1>3, <2>1, <2>2, <2>3, FetchedOrderFrame, ReportsFrame DEF BlockOrderKept
  <1>4. CASE InsertBlocks
    <2>1. /\ UNCHANGED <<blockBatch, blocksQueue, cpQueue, blockParentTable>>
          /\ blocksTable \subseteq blocksTable'
          /\ bpc' = IF Range(blockBatch) \subseteq blocksTable' THEN "parents" ELSE "blocks"
      BY <1>4 DEF InsertBlocks, InsertBlockRows
    <2>2. BlockBatchCommitted'
      BY <2>1 DEF BlockBatchCommitted
    <2> QED
      BY <1>3, <2>1, <2>2
  <1>5. CASE InsertBlockParents
    <2>1. /\ UNCHANGED <<blockBatch, blocksQueue, cpQueue, blocksTable>>
          /\ blockParentTable \subseteq blockParentTable'
          /\ bpc = "parents"
          /\ bpc' = IF Range(blockBatch) \subseteq blockParentTable' THEN "clear" ELSE "parents"
      BY <1>5 DEF InsertBlockParents, InsertBlockParentRows
    <2>2. BlockBatchCommitted'
      BY <1>1, <2>1 DEF BlockBatchCommitted
    <2> QED
      BY <1>3, <2>1, <2>2
  <1>6. CASE ClearAcceptances \/ FinishCommit \/ BlockProcExit
    <2>1. /\ UNCHANGED <<blockBatch, blocksQueue, cpQueue, blocksTable, blockParentTable>>
          /\ bpc = "clear" \/ bpc' = "exited"
      BY <1>6 DEF ClearAcceptances, FinishCommit, BlockProcExit
    <2>2. BlockBatchCommitted'
      BY <1>1, <2>1 DEF BlockBatchCommitted
    <2> QED
      BY <1>3, <2>1, <2>2
  <1>7. CASE PushBlockCheckpoint
    <2> DEFINE h == Head(blockBatch)
    <2>1. /\ bpc = "push" /\ bpc' \in {"pop", "push"}
          /\ blockBatch # <<>>
          /\ h \in Block
          /\ blockBatch' = Tail(blockBatch)
          /\ PushCheckpoint("Blocks", h)
          /\ UNCHANGED <<blocksQueue, blocksTable, blockParentTable>>
      BY <1>1, <1>7, Popped DEF PushBlockCheckpoint, TypeOK, BlockProcTypeOK
    <2>2. Range(blockBatch) = {h} \cup Range(blockBatch') /\ Range(blockBatch) \subseteq Block
      BY <1>1, <2>1, Taken, RangeOfSeq
    \* The rows of the whole batch are in the tables.
    <2>3. Range(blockBatch) \subseteq StoredBlocks
      BY <1>1, <2>1, <2>2 DEF BlockBatchCommitted, StoredBlocks, BlockStored
    <2>4. BlockSettled(h)
      BY <1>1, <2>2, <2>3 DEF BlockSettled, BlockBatchInOrder
    <2>5. StoredBlocks' = StoredBlocks
      BY <2>1 DEF StoredBlocks, BlockStored
    <2>6. BlocksHandedOver' = BlocksHandedOver
      BY <2>1, <2>2, <2>3, <2>5 DEF BlocksHandedOver
    <2>7. BlockQueueInOrder' /\ BlockBatchInOrder' /\ CheckpointBackedByBlocks'
      BY <1>1, <2>1, <2>2, <2>3, <2>5
         DEF BlockQueueInOrder, BlockBatchInOrder, CheckpointBackedByBlocks
    <2>8. BlockBatchCommitted'
      BY <1>1, <2>1, <2>2 DEF BlockBatchCommitted
    <2>9. ReportsSettled'
      BY <1>1, <2>1, <2>4, NewReportSettled DEF Origin, TypeOK
    <2> QED
      BY <1>1, <2>6, <2>7, <2>8, <2>9, FetchedOrderFrame DEF BlockOrderKept
  <1> QED
    BY <1>2, <1>4, <1>5, <1>6, <1>7 DEF BlockProcStep, BlockProcNext

\* A step of the transaction processor.
LEMMA TxProcKeepsBlockOrder ==
  ASSUME TypeOK, BlockOrderKept, TxProcStep
  PROVE  BlockOrderKept'
  <1>1. /\ UNCHANGED <<fetcherVars, bpc, blockBatch, candidate, vpc, blocksTable,
                       blockParentTable, blocksQueue, shutdown, blockCheckpoint>>
        /\ ReportsSettled
        /\ StoredBlocks' = StoredBlocks
    BY DEF TxProcStep, TxProcFrame, blockProcVars, vcpVars, checkpointVars, BlockOrderKept,
           StoredBlocks, BlockStored
  <1>2. CASE PushTxCheckpoint
    <2>1. Head(txBatch) \in Block /\ PushCheckpoint("Transactions", Head(txBatch))
      BY <1>2, Popped DEF PushTxCheckpoint, TypeOK, TxProcTypeOK
    <2>2. ReportsSettled'
      BY <1>1, <2>1, NewReportSettled DEF Origin, Offers, TypeOK
    <2> QED
      BY <1>1, <2>2, BlockOrderFrame
  <1>3. CASE UNCHANGED cpQueue
    BY <1>1, <1>3, ReportsFrame, BlockOrderFrame
  <1> QED
    BY <1>2, <1>3 DEF TxProcStep, TxProcNext, TxProcWork, PopTxs, InsertTransactions,
                      InsertBlockTxs, TxProcExit, EvictTx

\* The virtual chain processor does nothing.
LEMMA VcpDisabled ==
  ASSUME ReportsSettled, VcpStep
  PROVE  FALSE
  BY DEF ReportsSettled, VcpStep, VcpNext, PollVirtualChain, CatchUp, WaitLonger,
         RemoveChainBlocks, AcceptTransactions, AddChainBlocks, PushVcpCheckpoint, VcpExit

\* A step of the checkpoint processor: only a settled block becomes a
\* candidate, and only a candidate a checkpoint.
LEMMA CheckpointKeepsBlockOrder ==
  ASSUME TypeOK, BlockOrderKept, CheckpointStep
  PROVE  BlockOrderKept'
  <1>1. /\ UNCHANGED <<fetcherVars, bpc, blockBatch, vpc, blocksTable, blockParentTable,
                       blocksQueue, shutdown>>
        /\ ReportsSettled /\ CheckpointBackedByBlocks
        /\ CheckpointTypeOK
        /\ cpQueue \in Seq(CheckpointBlock)
    BY DEF CheckpointStep, CheckpointFrame, tables, blockProcVars, vcpVars, BlockOrderKept,
           TypeOK, StoreTypeOK
  <1>2. StoredBlocks' = StoredBlocks
    BY <1>1 DEF StoredBlocks, BlockStored
  <1>3. ASSUME ReportsSettled', UNCHANGED blockCheckpoint
        PROVE  BlockOrderKept'
    BY <1>1, <1>3, BlockOrderFrame
  <1>4. ASSUME NEW cand, NEW okBlocks, NEW okTxs, NEW blocks, NEW txs,
               Evaluate(cand, okBlocks, okTxs, blocks, txs)
        PROVE  candidate' = cand
    BY <1>4 DEF Evaluate
  <1>5. CASE PopCheckpoint
    <2> DEFINE m == Head(cpQueue)
    <2>1. cpQueue # <<>> /\ cpQueue' = Tail(cpQueue) /\ UNCHANGED blockCheckpoint
      BY <1>5 DEF PopCheckpoint
    <2>2. /\ m = cpQueue[1] /\ 1 \in 1..Len(cpQueue)
          /\ \A i \in 1..Len(cpQueue') : i + 1 \in 1..Len(cpQueue) /\ cpQueue'[i] = cpQueue[i + 1]
      BY <1>1, <2>1, Taken
    <2>3. candidate' = candidate \/ (Offers(m.origin) /\ candidate' = m.hash)
      BY <1>4, <1>5 DEF PopCheckpoint
    <2>4. candidate' # NoBlock => BlockSettled(candidate')
      BY <1>1, <2>2, <2>3 DEF ReportsSettled
    <2>5. ReportsSettled'
      BY <1>1, <1>2, <2>2, <2>4 DEF ReportsSettled, BlockSettled
    <2> QED
      BY <1>3, <2>1, <2>5
  <1>6. CASE SaveCheckpoint
    <2>1. /\ candidate # NoBlock /\ candidate' = NoBlock
          /\ UNCHANGED cpQueue
          /\ blockCheckpoint' \in {candidate, blockCheckpoint}
      BY <1>1, <1>6 DEF SaveCheckpoint, StoreCheckpoint, CheckpointTypeOK
    <2>2. CheckpointBackedByBlocks'
      BY <1>1, <1>2, <2>1 DEF CheckpointBackedByBlocks, ReportsSettled, BlockSettled
    <2>3. ReportsSettled'
      BY <1>1, <1>2, <2>1 DEF ReportsSettled, BlockSettled
    <2>4. BlocksHandedOver' = BlocksHandedOver
      BY <1>1, <1>2 DEF BlocksHandedOver
    <2>5. BlocksFetchedInOrder'
      BY <1>1, <2>4, FetchedOrderFrame DEF BlockOrderKept
    <2>6. BlockQueueInOrder' /\ BlockBatchInOrder' /\ BlockBatchCommitted'
      BY <1>1, <1>2 DEF BlockOrderKept, BlockQueueInOrder, BlockBatchInOrder,
                        BlockBatchCommitted
    <2> QED
      BY <2>2, <2>3, <2>5, <2>6 DEF BlockOrderKept
  \* The other steps keep the candidate.
  <1>7. CASE AwaitConfirmation \/ Sleep \/ CheckpointExit \/ Tick
             \/ QueryCreated \/ ApplyDeltas \/ FailUpdate
    <2>1. UNCHANGED <<candidate, cpQueue, blockCheckpoint>>
      BY <1>4, <1>7 DEF AwaitConfirmation, Sleep, CheckpointExit, Tick, QueryCreated,
                        ApplyDeltas, FailUpdate
    <2> QED
      BY <1>1, <1>2, <1>3, <2>1, ReportsFrame
  <1> QED
    BY <1>5, <1>6, <1>7 DEF CheckpointStep, CheckpointNext, CheckpointWork

\* A restart forgets everything that was not stored, and begins where
\* everything before is.
LEMMA RestartKeepsBlockOrder ==
  ASSUME DisableVirtualChainProcessing, BlockOrderKept, Restart
  PROVE  BlockOrderKept'
  <1>1. /\ blocksQueue' = <<>> /\ cpQueue' = <<>> /\ pending' = <<>> /\ blockBatch' = <<>>
        /\ blockCache' = {} /\ lowHash' = blockCheckpoint /\ candidate' = NoBlock
        /\ bpc' = "pop" /\ fpc' = "fetch" /\ vpc' = "disabled"
        /\ UNCHANGED <<blocksTable, blockParentTable, blockCheckpoint>>
    BY DEF Restart, SharedReset, FetcherReset, BlockProcReset, VcpReset, CheckpointReset,
           durable, tables
  <1>2. Range(<<>>) = {} /\ Len(<<>>) = 0
    BY Emptied, EmptyRange
  <1>3. StoredBlocks' = StoredBlocks
    BY <1>1 DEF StoredBlocks, BlockStored
  <1>4. CheckpointBackedByBlocks'
    BY <1>1, <1>3 DEF BlockOrderKept, CheckpointBackedByBlocks
  <1>5. BlocksFetchedInOrder'
    BY <1>1, <1>2, <1>3 DEF BlockOrderKept, CheckpointBackedByBlocks, BlocksFetchedInOrder,
                            BlocksHandedOver
  <1>6. BlockQueueInOrder' /\ BlockBatchInOrder' /\ BlockBatchCommitted'
    BY <1>1, <1>2 DEF BlockQueueInOrder, BlockBatchInOrder, BlockBatchCommitted
  <1>7. ReportsSettled'
    BY <1>1, <1>2 DEF ReportsSettled
  <1> QED
    BY <1>4, <1>5, <1>6, <1>7 DEF BlockOrderKept

\* Every step of the system keeps the invariant.
LEMMA NextBlockDurable == TypeOK /\ BlockDurable /\ [Next]_vars => BlockDurable'
  <1> SUFFICES ASSUME TypeOK, BlockOrderKept, DisableVirtualChainProcessing, [Next]_vars
               PROVE  BlockOrderKept'
    BY DEF BlockDurable
  <1>1. ASSUME UNCHANGED <<durable, blocksQueue, cpQueue, fetcherVars, blockProcVars, vcpVars,
                           checkpointVars, shutdown>>
        PROVE  BlockOrderKept'
    <2>1. UNCHANGED <<blocksTable, blockParentTable, blockCheckpoint, bpc, blockBatch, vpc,
                      candidate>>
      BY <1>1 DEF durable, tables, blockProcVars, vcpVars, checkpointVars
    <2>2. ReportsSettled'
      BY <1>1, <2>1, ReportsFrame DEF BlockOrderKept, StoredBlocks, BlockStored
    <2> QED
      BY <1>1, <2>1, <2>2, BlockOrderFrame
  <1>2. CASE NodeStep \/ UNCHANGED vars
    BY <1>1, <1>2 DEF NodeStep, vars, shared
  \* After a signal nothing is asked of the fetcher any more.
  <1>3. CASE Signal
    <2>1. /\ shutdown'
          /\ UNCHANGED <<blocksTable, blockParentTable, blockCheckpoint, blocksQueue, cpQueue,
                         bpc, blockBatch, vpc, candidate>>
      BY <1>3 DEF Signal, durable, tables, blockProcVars, vcpVars, checkpointVars
    <2>2. StoredBlocks' = StoredBlocks
      BY <2>1 DEF StoredBlocks, BlockStored
    <2>3. BlocksFetchedInOrder'
      BY <2>1 DEF BlocksFetchedInOrder
    <2>4. BlockQueueInOrder' /\ BlockBatchInOrder' /\ BlockBatchCommitted'
          /\ CheckpointBackedByBlocks'
      BY <2>1, <2>2 DEF BlockOrderKept, BlockQueueInOrder, BlockBatchInOrder,
                        BlockBatchCommitted, CheckpointBackedByBlocks, Before
    <2>5. ReportsSettled'
      BY <2>1, <2>2, ReportsFrame DEF BlockOrderKept
    <2> QED
      BY <2>3, <2>4, <2>5 DEF BlockOrderKept
  <1>4. CASE VcpStep
    BY <1>4, VcpDisabled DEF BlockOrderKept
  <1> QED
    BY <1>2, <1>3, <1>4, FetcherKeepsBlockOrder, BlockProcKeepsBlockOrder,
       TxProcKeepsBlockOrder, CheckpointKeepsBlockOrder, RestartKeepsBlockOrder
       DEF Next, Terminated

\* The order of blocks is kept from the node to the checkpoint, and every
\* block the checkpoint processor is offered was stored with its past: the
\* inductive invariant, for every value of the constants.
THEOREM BlockDurabilityInvariant == Spec => []BlockDurable
  <1>1. Init => BlockDurable
    BY InitBlockOrder DEF BlockDurable
  <1> QED
    BY <1>1, NextBlockDurable, TypeCorrect, PTL DEF Spec

\* Without the virtual chain processor a restart from the saved checkpoint
\* misses no block: whatever the interleaving of the tasks, the evictions and
\* the restarts, the rows of every block in the past of the checkpoint and of
\* its parents are in the database.
THEOREM CheckpointBackedByBlockRows ==
  ASSUME DisableVirtualChainProcessing
  PROVE  Spec => []BlocksBacked
  <1>1. BlockDurable => BlocksBacked
    BY DEF BlockDurable, BlocksBacked, BlockOrderKept, CheckpointBackedByBlocks, StoredBlocks
  <1> QED
    BY <1>1, BlockDurabilityInvariant, PTL
-----------------------------------------------------------------------------
\* Every step of the system archives more blocks, moves the checkpoint to a
\* block whose past is archived, or is a stutter.
LEMMA NextRefinesBlockArchive ==
  ASSUME TypeOK, TypeOK', BlockDurable, DisableVirtualChainProcessing, [Next]_vars
  PROVE  BlockArchive!Next \/ UNCHANGED BlockArchive!vars
  <1>1. CASE CheckpointStep
    <2>1. StoredBlocks' = StoredBlocks /\ blockCheckpoint' \in Block
      BY <1>1 DEF CheckpointStep, CheckpointFrame, tables, StoredBlocks, BlockStored, TypeOK,
                  StoreTypeOK
    <2>2. CASE UNCHANGED blockCheckpoint
      BY <2>1, <2>2 DEF BlockArchive!vars
    <2>3. CASE SaveCheckpoint /\ ~UNCHANGED blockCheckpoint
      <3>1. candidate # NoBlock /\ blockCheckpoint' = candidate
        BY <2>3 DEF SaveCheckpoint, StoreCheckpoint, TypeOK, CheckpointTypeOK
      <3>2. Past[candidate] \subseteq StoredBlocks
        BY <3>1 DEF BlockDurable, BlockOrderKept, ReportsSettled, BlockSettled
      <3> QED
        BY <2>1, <3>1, <3>2 DEF BlockArchive!Next, BlockArchive!MoveCheckpoint
    <2> QED
      BY <1>1, <2>2, <2>3
         DEF CheckpointStep, CheckpointNext, CheckpointWork, PopCheckpoint, Sleep,
             AwaitConfirmation, QueryCreated, ApplyDeltas, CheckpointExit, FailUpdate, Tick
  <1>2. CASE BlockProcStep
    <2>1. UNCHANGED blockCheckpoint
      BY <1>2 DEF BlockProcStep, BlockProcFrame
    <2>2. blocksTable \subseteq blocksTable' /\ blockParentTable \subseteq blockParentTable'
      BY <1>2 DEF BlockProcStep, BlockProcNext, PopBlock, InsertBlocks, InsertBlockRows,
                  InsertBlockParents, InsertBlockParentRows, ClearAcceptances, FinishCommit,
                  PushBlockCheckpoint, BlockProcExit
    <2>3. StoredBlocks \subseteq StoredBlocks' /\ StoredBlocks' \subseteq Block
      BY <2>2 DEF StoredBlocks, BlockStored
    <2> QED
      BY <2>1, <2>3 DEF BlockArchive!Next, BlockArchive!Archive
  <1>3. CASE ~CheckpointStep /\ ~BlockProcStep
    <2>1. UNCHANGED <<blocksTable, blockParentTable, blockCheckpoint>>
      BY <1>3 DEF Next, NodeStep, FetcherStep, FetcherFrame, TxProcStep, TxProcFrame, VcpStep,
                  VcpFrame, Signal, Restart, Terminated, vars, durable, tables
    <2> QED
      BY <2>1 DEF BlockArchive!vars, StoredBlocks, BlockStored
  <1> QED
    BY <1>1, <1>2, <1>3

\* Without the virtual chain processor, the indexer implements an archive of
\* block rows that can be continued from its checkpoint, and never gives that
\* promise up.
THEOREM BlockArchiveImplemented ==
  ASSUME DisableVirtualChainProcessing
  PROVE  Spec => ImplementsBlockArchive
  <1>1. Init => BlockArchive!Init
    BY DEF Init, StoreInit, BlockArchive!Init, StoredBlocks
  <1>2. TypeOK /\ TypeOK' /\ BlockDurable /\ [Next]_vars
          => [BlockArchive!Next]_(BlockArchive!vars)
    BY NextRefinesBlockArchive
  <1> QED
    BY <1>1, <1>2, TypeCorrect, BlockDurabilityInvariant, PTL
       DEF Spec, ImplementsBlockArchive, BlockArchive!Spec
-----------------------------------------------------------------------------
\* More blocks have more behind them.
LEMMA PastGrows ==
  ASSUME NEW X, NEW Y, X \subseteq Y
  PROVE  PastOf(X) \subseteq PastOf(Y)
  BY DEF PastOf

\* No block is in its own past.
LEMMA NotItsOwnPast == \A b \in Block : b \notin Past[b]
  BY ChainAssumption

\* What a push to checkpoint_queue does to the offers in it, ...
LEMMA OfferPushed ==
  ASSUME NEW s \in Seq(CheckpointBlock), NEW r \in CheckpointBlock
  PROVE  /\ OfferedBy(Range(Append(s, r))) = OfferedBy(Range(s)) \cup OfferedBy({r})
         /\ \A i \in 1..Len(Append(s, r)) :
              \/ /\ i \in 1..Len(s)
                 /\ Append(s, r)[i] = s[i]
                 /\ Before(Append(s, r), i) = Before(s, i)
              \/ /\ Append(s, r)[i] = r
                 /\ Before(Append(s, r), i) = Range(s)
  <1>1. /\ Range(Append(s, r)) = Range(s) \cup {r}
        /\ Len(Append(s, r)) = Len(s) + 1
        /\ \A i \in 1..Len(s) : /\ Append(s, r)[i] = s[i]
                                /\ Before(Append(s, r), i) = Before(s, i)
        /\ Append(s, r)[Len(s) + 1] = r
        /\ Before(Append(s, r), Len(s) + 1) = Range(s)
    BY Pushed
  <1>2. \A i \in 1..(Len(s) + 1) : i \in 1..Len(s) \/ i = Len(s) + 1
    <2>1. Len(s) \in Nat
      BY LenProperties
    <2> QED
      BY <2>1
  <1>3. OfferedBy(Range(Append(s, r))) = OfferedBy(Range(s)) \cup OfferedBy({r})
    BY <1>1 DEF OfferedBy
  <1>4. ASSUME NEW i \in 1..Len(Append(s, r))
        PROVE  \/ /\ i \in 1..Len(s)
                  /\ Append(s, r)[i] = s[i]
                  /\ Before(Append(s, r), i) = Before(s, i)
               \/ /\ Append(s, r)[i] = r
                  /\ Before(Append(s, r), i) = Range(s)
    <2>1. i \in 1..Len(s) \/ i = Len(s) + 1
      BY <1>1, <1>2
    <2> QED
      BY <1>1, <2>1
  <1> QED
    BY <1>3, <1>4

\* ... and what a pop does.
LEMMA OfferTaken ==
  ASSUME NEW s \in Seq(CheckpointBlock), s # <<>>
  PROVE  /\ OfferedBy(Range(s)) = OfferedBy({Head(s)}) \cup OfferedBy(Range(Tail(s)))
         /\ Head(s) = s[1] /\ 1 \in 1..Len(s)
         /\ \A i \in 1..Len(Tail(s)) :
              /\ i + 1 \in 1..Len(s)
              /\ Tail(s)[i] = s[i + 1]
              /\ OfferedBy(Before(s, i + 1)) = OfferedBy({Head(s)}) \cup OfferedBy(Before(Tail(s), i))
  <1>1. /\ Head(s) = s[1] /\ 1 \in 1..Len(s)
        /\ Range(s) = {Head(s)} \cup Range(Tail(s))
        /\ \A i \in 1..Len(Tail(s)) :
             /\ i + 1 \in 1..Len(s)
             /\ Tail(s)[i] = s[i + 1]
             /\ Before(s, i + 1) = {Head(s)} \cup Before(Tail(s), i)
    BY Taken
  <1>2. \A X : OfferedBy({Head(s)} \cup X) = OfferedBy({Head(s)}) \cup OfferedBy(X)
    BY DEF OfferedBy
  <1> QED
    BY <1>1, <1>2

\* Nothing was handed over yet.
LEMMA InitNoneBehind == Init => NoneFallsBehind
  <1> SUFFICES ASSUME Init PROVE NoneFallsBehind
    OBVIOUS
  <1>1. /\ blocksQueue = <<>> /\ cpQueue = <<>> /\ pending = <<>> /\ blockBatch = <<>>
        /\ blockCache = {} /\ lowHash = Start /\ blockCheckpoint = Start
        /\ candidate = NoBlock /\ fpc = "fetch"
    BY DEF Init, SharedInit, StoreInit, FetcherInit, BlockProcInit, CheckpointInit
  <1>2. Past[Start] = {} /\ Range(<<>>) = {} /\ Len(<<>>) = 0
    BY Emptied, EmptyRange, ConsensusAssumption
  <1>3. HandedOverBlocks = {Start}
    BY <1>1, <1>2 DEF HandedOverBlocks, ReportedBlocks, TakenBlocks, OfferedBy, HashesOf
  <1>4. CacheComplete
    BY <1>1, <1>2, <1>3 DEF CacheComplete, PastOf
  <1>5. QueueAfterBatch /\ BatchAfterReports /\ ReportsAfterCandidate /\ CandidateAfterCheckpoint
    BY <1>1, <1>2 DEF QueueAfterBatch, BatchAfterReports, ReportsAfterCandidate,
                      CandidateAfterCheckpoint
  <1> QED
    BY <1>4, <1>5 DEF NoneFallsBehind

\* A step that reports nothing new and leaves the fetcher, the queue and the
\* batch alone keeps their order.
LEMMA BehindFrame ==
  ASSUME NoneFallsBehind, ReportedBlocks' \subseteq ReportedBlocks,
         UNCHANGED <<fetcherVars, blockBatch, blocksQueue>>
  PROVE  CacheComplete' /\ QueueAfterBatch' /\ BatchAfterReports'
  <1>1. HandedOverBlocks' \subseteq HandedOverBlocks
    BY DEF HandedOverBlocks
  <1>2. CacheComplete'
    <2>1. UNCHANGED <<fpc, pending, lowHash, blockCache>> /\ CacheComplete
      BY DEF fetcherVars, NoneFallsBehind
    <2> QED
      BY <1>1, <2>1 DEF CacheComplete
  <1>3. QueueAfterBatch'
    BY DEF NoneFallsBehind, QueueAfterBatch, PastOf
  <1>4. BatchAfterReports'
    BY DEF NoneFallsBehind, BatchAfterReports, PastOf
  <1> QED
    BY <1>2, <1>3, <1>4

\* A step of the fetcher: the block it pushes is not in the cache, and so in
\* the past of no block that was handed over.
LEMMA FetcherKeepsOnce ==
  ASSUME TypeOK, NoneFallsBehind, ~EvictCaches, FetcherStep
  PROVE  NoneFallsBehind'
  <1>1. /\ UNCHANGED <<blockBatch, cpQueue, candidate, blockCheckpoint>>
        /\ pending \in Seq(Block)
        /\ blocksQueue \in Seq(QueueEntry)
        /\ CacheComplete /\ QueueAfterBatch
    BY DEF QueueEntry, FetcherStep, FetcherFrame, durable, blockProcVars, checkpointVars,
           TypeOK, FetcherTypeOK, StoreTypeOK, NoneFallsBehind
  <1>2. /\ ReportedBlocks' = ReportedBlocks
        /\ BatchAfterReports' /\ ReportsAfterCandidate' /\ CandidateAfterCheckpoint'
    BY <1>1 DEF NoneFallsBehind, ReportedBlocks, TakenBlocks, BatchAfterReports,
                ReportsAfterCandidate, CandidateAfterCheckpoint
  <1>3. ASSUME UNCHANGED blocksQueue
        PROVE  QueueAfterBatch' /\ HandedOverBlocks' = HandedOverBlocks
    BY <1>1, <1>2, <1>3 DEF QueueAfterBatch, HandedOverBlocks
  <1>4. ASSUME CacheComplete', QueueAfterBatch'
        PROVE  NoneFallsBehind'
    BY <1>2, <1>4 DEF NoneFallsBehind
  <1>5. ASSUME pending # <<>>
        PROVE  /\ \A i \in 1..Len(Tail(pending)) :
                    /\ i + 1 \in 1..Len(pending)
                    /\ Tail(pending)[i] = pending[i + 1]
                    /\ Before(pending, i + 1) = {Head(pending)} \cup Before(Tail(pending), i)
               /\ Past[Head(pending)] \subseteq blockCache
    <2>1. Before(pending, 1) = {}
      BY DEF Before
    <2>2. Head(pending) = pending[1] /\ 1 \in 1..Len(pending)
      BY <1>1, <1>5, Taken
    <2>3. Past[Head(pending)] \subseteq blockCache
      BY <1>1, <2>1, <2>2 DEF CacheComplete
    <2> QED
      BY <1>1, <1>5, <2>3, Taken
  \* The loop body is left with the block at the head in the cache.
  <1>6. ASSUME NextBlock, pending # <<>>, UNCHANGED blocksQueue,
               blockCache' = blockCache \cup {Head(pending)},
               HandedOverBlocks \subseteq blockCache \cup {Start, Head(pending)}
        PROVE  CacheComplete'
    <2>1. /\ pending' = Tail(pending) /\ lowHash' \in {lowHash, Head(pending)}
          /\ fpc' # "push_txs"
      BY <1>6 DEF NextBlock
    <2>2. Past[lowHash'] \subseteq blockCache'
      BY <1>1, <1>5, <1>6, <2>1 DEF CacheComplete
    <2>3. PastOf(blockCache') \subseteq blockCache'
      BY <1>1, <1>5, <1>6 DEF CacheComplete, PastOf
    <2>4. ASSUME NEW i \in 1..Len(Tail(pending))
          PROVE  Past[Tail(pending)[i]] \subseteq blockCache' \cup Before(Tail(pending), i)
      BY <1>1, <1>5, <1>6, <2>4 DEF CacheComplete
    <2>5. HandedOverBlocks' \subseteq blockCache' \cup {Start}
      BY <1>3, <1>6
    <2> QED
      BY <2>1, <2>2, <2>3, <2>4, <2>5 DEF CacheComplete, Before
  \* A response, or nothing, is to be handled next.
  <1>7. ASSUME UNCHANGED <<blocksQueue, lowHash, blockCache>>, fpc # "push_txs", fpc' # "push_txs",
               NEW blocks, pending' \in {blocks, <<>>},
               \A i \in 1..Len(blocks) : Past[blocks[i]] \subseteq blockCache \cup Before(blocks, i)
        PROVE  CacheComplete' /\ QueueAfterBatch'
    BY <1>1, <1>3, <1>7, Emptied DEF CacheComplete, Before
  <1>8. CASE FetchBlocks
    <2>1. PICK blocks \in GetBlocks(lowHash) : pending' \in {blocks, <<>>}
      BY <1>8 DEF FetchBlocks, Handle
    <2>2. blocks \in Seq(Block) /\ DOMAIN blocks = 1..Len(blocks)
      BY ResponseType, LenProperties
    <2>3. \A i \in 1..Len(blocks) :
            Past[blocks[i]] \subseteq Past[lowHash] \cup Before(blocks, i)
      BY <2>2 DEF GetBlocks
    <2>4. Past[lowHash] \subseteq blockCache
      BY <1>1 DEF CacheComplete
    <2>5. fpc # "push_txs" /\ fpc' # "push_txs" /\ UNCHANGED <<blocksQueue, lowHash, blockCache>>
      BY <1>8 DEF FetchBlocks, Handle
    <2> QED
      BY <1>4, <1>7, <2>1, <2>3, <2>4, <2>5
  <1>9. CASE RefreshTips
    <2>1. /\ pending' \in {pending, <<>>}
          /\ fpc # "push_txs" /\ fpc' # "push_txs" /\ UNCHANGED <<blocksQueue, lowHash, blockCache>>
      BY <1>9 DEF RefreshTips, Handle
    <2> QED
      BY <1>1, <1>4, <1>7, <2>1 DEF CacheComplete
  \* A block that was skipped is in the cache, ...
  <1>10. CASE IgnoreKnownBlock
    <2>1. /\ pending # <<>> /\ fpc # "push_txs" /\ NextBlock
          /\ Head(pending) \in blockCache /\ UNCHANGED <<blockCache, blocksQueue>>
      BY <1>10 DEF IgnoreKnownBlock, TypeOK, FetcherTypeOK
    <2>2. /\ blockCache' = blockCache \cup {Head(pending)}
          /\ HandedOverBlocks \subseteq blockCache \cup {Start, Head(pending)}
      BY <1>1, <2>1 DEF CacheComplete
    <2> QED
      BY <1>3, <1>4, <1>6, <2>1, <2>2
  \* ... and one that was pushed, or given up, enters it.
  <1>11. CASE PushTxs \/ AbandonBlock
    <2>1. /\ pending # <<>> /\ NextBlock /\ UNCHANGED blocksQueue
          /\ blockCache' = blockCache \cup {Head(pending)}
      BY <1>11 DEF PushTxs, AbandonBlock, TypeOK, FetcherTypeOK
    <2>2. HandedOverBlocks \subseteq blockCache \cup {Start, Head(pending)}
      BY <1>1 DEF CacheComplete
    <2> QED
      BY <1>3, <1>4, <1>6, <2>1, <2>2
  <1>12. CASE PushBlock
    <2> DEFINE e == [hash |-> Head(pending), synced |-> synced']
    <2>1. /\ fpc = "handle" /\ fpc' = "push_txs" /\ Head(pending) \notin blockCache
          /\ pending # <<>>
          /\ blocksQueue' = Append(blocksQueue, e)
          /\ UNCHANGED <<pending, lowHash, blockCache>>
      BY <1>12 DEF PushBlock, TypeOK, FetcherTypeOK
    <2>2. synced' \in BOOLEAN
      BY <1>12 DEF PushBlock, FindTip
    <2>3. e \in QueueEntry /\ e.hash = Head(pending)
      BY <1>1, <2>1, <2>2, Popped DEF QueueEntry
    <2> HIDE DEF e
    <2>4. HashesOf(Range(blocksQueue')) = HashesOf(Range(blocksQueue)) \cup {Head(pending)}
      BY <1>1, <2>1, <2>3, BlockPushed
    <2>5. HandedOverBlocks' = HandedOverBlocks \cup {Head(pending)}
      BY <1>1, <1>2, <2>4 DEF HandedOverBlocks
    <2>6. HandedOverBlocks \subseteq blockCache \cup {Start}
      BY <1>1, <2>1 DEF CacheComplete
    <2>7. CacheComplete'
      BY <1>1, <2>1, <2>5, <2>6 DEF CacheComplete, Before
    <2>8. Head(pending) \notin PastOf(HandedOverBlocks)
      BY <1>1, <2>1, <2>6, ConsensusAssumption DEF CacheComplete, PastOf
    <2>9. QueueAfterBatch'
      <3> SUFFICES ASSUME NEW i \in 1..Len(blocksQueue')
                   PROVE  blocksQueue'[i].hash \notin
                            PastOf(ReportedBlocks \cup Range(blockBatch) \cup
                                   HashesOf(Before(blocksQueue', i)))
        BY <1>1, <1>2 DEF QueueAfterBatch
      <3>1. \/ /\ i \in 1..Len(blocksQueue)
               /\ blocksQueue'[i] = blocksQueue[i]
               /\ Before(blocksQueue', i) = Before(blocksQueue, i)
            \/ /\ blocksQueue'[i] = e
               /\ Before(blocksQueue', i) = Range(blocksQueue)
        BY <1>1, <2>1, <2>3, BlockPushed
      <3> QED
        BY <1>1, <2>3, <2>8, <3>1 DEF QueueAfterBatch, HandedOverBlocks
    <2> QED
      BY <1>4, <2>7, <2>9
  <1>13. CASE FetcherExit
    BY <1>1, <1>3, <1>4, <1>13 DEF FetcherExit, CacheComplete, Before
  <1> QED
    BY <1>8, <1>9, <1>10, <1>11, <1>12, <1>13
       DEF FetcherStep, FetcherNext, FetcherWork, EvictBlock

\* A step of the block processor: the block it pops comes after the batch,
\* the block it reports after all reports.
LEMMA BlockProcKeepsOnce ==
  ASSUME TypeOK, NoneFallsBehind, DisableVirtualChainProcessing, BlockProcStep
  PROVE  NoneFallsBehind'
  <1>1. /\ UNCHANGED <<fetcherVars, candidate, blockCheckpoint>>
        /\ blockBatch \in Seq(Block) /\ blocksQueue \in Seq(QueueEntry)
        /\ cpQueue \in Seq(CheckpointBlock)
        /\ CacheComplete /\ QueueAfterBatch /\ BatchAfterReports /\ ReportsAfterCandidate
        /\ CandidateAfterCheckpoint
    BY DEF BlockProcStep, BlockProcFrame, checkpointVars, TypeOK, BlockProcTypeOK, StoreTypeOK,
           QueueEntry, NoneFallsBehind
  <1>2. TakenBlocks' = TakenBlocks /\ CandidateAfterCheckpoint'
    BY <1>1 DEF TakenBlocks, CandidateAfterCheckpoint
  <1>3. ASSUME HandedOverBlocks' = HandedOverBlocks
        PROVE  CacheComplete'
    BY <1>1, <1>3 DEF CacheComplete, fetcherVars
  <1>4. CASE PopBlock
    <2> DEFINE h == Head(blocksQueue).hash
    <2>1. /\ blocksQueue # <<>>
          /\ blocksQueue' = Tail(blocksQueue)
          /\ blockBatch' = Append(blockBatch, h)
          /\ UNCHANGED cpQueue
      BY <1>4 DEF PopBlock
    <2>2. h \in Block
      <3>1. Head(blocksQueue) \in QueueEntry
        BY <1>1, <2>1, Popped
      <3> QED
        BY <3>1 DEF QueueEntry
    <2>3. ReportedBlocks' = ReportedBlocks /\ ReportsAfterCandidate'
      BY <1>1, <1>2, <2>1 DEF ReportedBlocks, ReportsAfterCandidate
    <2>4. /\ Range(blockBatch') = Range(blockBatch) \cup {h}
          /\ HashesOf(Range(blocksQueue)) = {h} \cup HashesOf(Range(blocksQueue'))
      BY <1>1, <2>1, <2>2, Pushed, BlockTaken
    <2>5. HandedOverBlocks' = HandedOverBlocks
      BY <2>3, <2>4 DEF HandedOverBlocks
    <2>6. QueueAfterBatch'
      <3>1. SUFFICES ASSUME NEW i \in 1..Len(Tail(blocksQueue))
                     PROVE  Tail(blocksQueue)[i].hash \notin
                              PastOf(ReportedBlocks \cup Range(blockBatch') \cup
                                     HashesOf(Before(Tail(blocksQueue), i)))
        BY <2>1, <2>3 DEF QueueAfterBatch
      <3>2. /\ i + 1 \in 1..Len(blocksQueue)
            /\ Tail(blocksQueue)[i] = blocksQueue[i + 1]
            /\ HashesOf(Before(blocksQueue, i + 1)) =
                 {h} \cup HashesOf(Before(Tail(blocksQueue), i))
        BY <1>1, <2>1, BlockTaken
      <3>3. blocksQueue[i + 1].hash \notin
              PastOf(ReportedBlocks \cup Range(blockBatch) \cup HashesOf(Before(blocksQueue, i + 1)))
        BY <1>1, <3>2 DEF QueueAfterBatch
      <3>4. ReportedBlocks \cup Range(blockBatch) \cup HashesOf(Before(blocksQueue, i + 1)) =
              ReportedBlocks \cup Range(blockBatch') \cup HashesOf(Before(Tail(blocksQueue), i))
        BY <2>4, <3>2
      <3> QED
        BY <3>2, <3>3, <3>4
    <2>7. BatchAfterReports'
      <3>1. /\ Head(blocksQueue) = blocksQueue[1] /\ 1 \in 1..Len(blocksQueue)
            /\ HashesOf(Before(blocksQueue, 1)) = {}
        BY <1>1, <2>1, BlockTaken
      <3>2. h \notin PastOf(ReportedBlocks \cup Range(blockBatch))
        <4>1. h \notin PastOf(ReportedBlocks \cup Range(blockBatch) \cup {})
          BY <1>1, <3>1 DEF QueueAfterBatch
        <4> QED
          BY <4>1
      <3> DEFINE n == Len(blockBatch)
      <3>3. /\ n \in Nat
            /\ Len(blockBatch') = n + 1
            /\ \A i \in 1..n : /\ blockBatch'[i] = blockBatch[i]
                               /\ Before(blockBatch', i) = Before(blockBatch, i)
            /\ blockBatch'[n + 1] = h
            /\ Before(blockBatch', n + 1) = Range(blockBatch)
        BY <1>1, <2>1, <2>2, Pushed, LenProperties
      <3>4. \A i \in 1..(n + 1) : i \in 1..n \/ i = n + 1
        BY <3>3
      <3> HIDE DEF h
      <3>5. \A i \in 1..n : blockBatch[i] \notin PastOf(ReportedBlocks \cup Before(blockBatch, i))
        BY <1>1 DEF BatchAfterReports
      <3>6. \A i \in 1..(n + 1) :
              blockBatch'[i] \notin PastOf(ReportedBlocks \cup Before(blockBatch', i))
        BY <3>2, <3>3, <3>4, <3>5
      <3> QED
        BY <2>3, <3>3, <3>6 DEF BatchAfterReports
    <2> QED
      BY <1>2, <1>3, <2>3, <2>5, <2>6, <2>7 DEF NoneFallsBehind
  <1>5. CASE PushBlockCheckpoint
    <2> DEFINE h == Head(blockBatch)
               r == [origin |-> "Blocks", hash |-> h]
    <2>1. /\ blockBatch # <<>>
          /\ h \in Block
          /\ blockBatch' = Tail(blockBatch)
          /\ cpQueue' = Append(cpQueue, r)
          /\ UNCHANGED blocksQueue
      BY <1>1, <1>5, Popped DEF PushBlockCheckpoint, PushCheckpoint, TypeOK, BlockProcTypeOK
    <2>2. r \in CheckpointBlock /\ OfferedBy({r}) = {h} /\ r.hash = h
      BY <2>1 DEF CheckpointBlock, Origin, OfferedBy, Offers
    <2> HIDE DEF r
    <2>3. Range(blockBatch) = {h} \cup Range(blockBatch')
      BY <1>1, <2>1, Taken
    <2>4. OfferedBy(Range(cpQueue')) = OfferedBy(Range(cpQueue)) \cup {h}
      BY <1>1, <2>1, <2>2, OfferPushed
    <2>5. ReportedBlocks' = ReportedBlocks \cup {h}
      BY <1>2, <2>4 DEF ReportedBlocks
    <2>6. HandedOverBlocks' = HandedOverBlocks
      BY <2>1, <2>3, <2>5 DEF HandedOverBlocks
    <2>7. QueueAfterBatch'
      <3>1. ReportedBlocks' \cup Range(blockBatch') = ReportedBlocks \cup Range(blockBatch)
        BY <2>3, <2>5
      <3> QED
        BY <1>1, <2>1, <3>1 DEF QueueAfterBatch
    <2>8. BatchAfterReports'
      <3>1. SUFFICES ASSUME NEW i \in 1..Len(Tail(blockBatch))
                     PROVE  Tail(blockBatch)[i] \notin
                              PastOf(ReportedBlocks' \cup Before(Tail(blockBatch), i))
        BY <2>1 DEF BatchAfterReports
      <3>2. /\ i + 1 \in 1..Len(blockBatch)
            /\ Tail(blockBatch)[i] = blockBatch[i + 1]
            /\ Before(blockBatch, i + 1) = {h} \cup Before(Tail(blockBatch), i)
        BY <1>1, <2>1, Taken
      <3>3. blockBatch[i + 1] \notin PastOf(ReportedBlocks \cup Before(blockBatch, i + 1))
        BY <1>1, <3>2 DEF BatchAfterReports
      <3>4. ReportedBlocks \cup Before(blockBatch, i + 1) =
              ReportedBlocks' \cup Before(Tail(blockBatch), i)
        BY <2>5, <3>2
      <3> QED
        BY <3>2, <3>3, <3>4
    <2>9. h \notin PastOf(ReportedBlocks)
      <3>1. h = blockBatch[1] /\ 1 \in 1..Len(blockBatch)
        BY <1>1, <2>1, Taken
      <3>2. h \notin PastOf(ReportedBlocks \cup Before(blockBatch, 1))
        BY <1>1, <3>1 DEF BatchAfterReports
      <3>3. ReportedBlocks \cup Before(blockBatch, 1) = ReportedBlocks
        BY DEF Before
      <3> QED
        BY <3>2, <3>3
    <2>10. ReportsAfterCandidate'
      <3> SUFFICES ASSUME NEW i \in 1..Len(cpQueue'), Offers(cpQueue'[i].origin)
                   PROVE  cpQueue'[i].hash \notin
                            PastOf(TakenBlocks \cup OfferedBy(Before(cpQueue', i)))
        BY <1>2 DEF ReportsAfterCandidate
      <3>1. \/ /\ i \in 1..Len(cpQueue)
               /\ cpQueue'[i] = cpQueue[i]
               /\ Before(cpQueue', i) = Before(cpQueue, i)
            \/ /\ cpQueue'[i] = r
               /\ Before(cpQueue', i) = Range(cpQueue)
        BY <1>1, <2>1, <2>2, OfferPushed
      <3> QED
        BY <1>1, <2>2, <2>9, <3>1 DEF ReportsAfterCandidate, ReportedBlocks
    <2> QED
      BY <1>2, <1>3, <2>6, <2>7, <2>8, <2>10 DEF NoneFallsBehind
  <1>6. CASE UNCHANGED <<blockBatch, blocksQueue, cpQueue>>
    <2>1. ReportedBlocks' = ReportedBlocks /\ ReportsAfterCandidate'
      BY <1>1, <1>2, <1>6 DEF ReportedBlocks, ReportsAfterCandidate
    <2> QED
      BY <1>1, <1>2, <1>6, <2>1, BehindFrame DEF NoneFallsBehind
  <1> QED
    BY <1>4, <1>5, <1>6 DEF BlockProcStep, BlockProcNext, InsertBlocks, InsertBlockParents,
                            ClearAcceptances, FinishCommit, BlockProcExit

\* A step of the transaction processor, whose reports are no offers.
LEMMA TxProcKeepsOnce ==
  ASSUME TypeOK, NoneFallsBehind, TxProcStep
  PROVE  NoneFallsBehind'
  <1>1. /\ UNCHANGED <<fetcherVars, blockBatch, candidate, blocksQueue, blockCheckpoint>>
        /\ cpQueue \in Seq(CheckpointBlock)
        /\ ReportsAfterCandidate
    BY DEF TxProcStep, TxProcFrame, blockProcVars, checkpointVars, TypeOK, StoreTypeOK,
           NoneFallsBehind
  <1>2. TakenBlocks' = TakenBlocks /\ CandidateAfterCheckpoint'
    BY <1>1 DEF NoneFallsBehind, TakenBlocks, CandidateAfterCheckpoint
  <1>3. ASSUME OfferedBy(Range(cpQueue')) = OfferedBy(Range(cpQueue)), ReportsAfterCandidate'
        PROVE  NoneFallsBehind'
    <2>1. ReportedBlocks' = ReportedBlocks
      BY <1>2, <1>3 DEF ReportedBlocks
    <2> QED
      BY <1>1, <1>2, <1>3, <2>1, BehindFrame DEF NoneFallsBehind
  <1>4. CASE PushTxCheckpoint
    <2> DEFINE r == [origin |-> "Transactions", hash |-> Head(txBatch)]
    <2>1. Head(txBatch) \in Block /\ cpQueue' = Append(cpQueue, r)
      BY <1>4, Popped DEF PushTxCheckpoint, PushCheckpoint, TypeOK, TxProcTypeOK
    <2>2. r \in CheckpointBlock /\ OfferedBy({r}) = {} /\ ~Offers(r.origin)
      BY <2>1 DEF CheckpointBlock, Origin, OfferedBy, Offers
    <2> HIDE DEF r
    <2>3. OfferedBy(Range(cpQueue')) = OfferedBy(Range(cpQueue))
      <3>1. OfferedBy(Range(cpQueue')) = OfferedBy(Range(cpQueue)) \cup OfferedBy({r})
        BY <1>1, <2>1, <2>2, OfferPushed
      <3> QED
        BY <2>2, <3>1
    <2>4. ReportsAfterCandidate'
      <3> SUFFICES ASSUME NEW i \in 1..Len(cpQueue'), Offers(cpQueue'[i].origin)
                   PROVE  cpQueue'[i].hash \notin
                            PastOf(TakenBlocks \cup OfferedBy(Before(cpQueue', i)))
        BY <1>2 DEF ReportsAfterCandidate
      <3>1. \/ /\ i \in 1..Len(cpQueue)
               /\ cpQueue'[i] = cpQueue[i]
               /\ Before(cpQueue', i) = Before(cpQueue, i)
            \/ cpQueue'[i] = r
        BY <1>1, <2>1, <2>2, OfferPushed
      <3> QED
        BY <1>1, <2>2, <3>1 DEF ReportsAfterCandidate
    <2> QED
      BY <1>3, <2>3, <2>4
  <1>5. CASE UNCHANGED cpQueue
    BY <1>1, <1>2, <1>3, <1>5 DEF ReportsAfterCandidate
  <1> QED
    BY <1>4, <1>5 DEF TxProcStep, TxProcNext, TxProcWork, PopTxs, InsertTransactions,
                      InsertBlockTxs, TxProcExit, EvictTx

\* A step of the checkpoint processor: an offer becomes the candidate, the
\* candidate the checkpoint.
LEMMA CheckpointKeepsOnce ==
  ASSUME TypeOK, NoneFallsBehind, CheckpointStep
  PROVE  /\ NoneFallsBehind'
         /\ blockCheckpoint' \notin Past[blockCheckpoint]
  <1>1. /\ UNCHANGED <<fetcherVars, blockBatch, blocksQueue>>
        /\ cpQueue \in Seq(CheckpointBlock)
        /\ ReportsAfterCandidate /\ CandidateAfterCheckpoint
        /\ CheckpointTypeOK /\ blockCheckpoint \in Block
    BY DEF CheckpointStep, CheckpointFrame, tables, blockProcVars, TypeOK, StoreTypeOK,
           NoneFallsBehind
  <1>2. blockCheckpoint \notin Past[blockCheckpoint]
    BY <1>1, NotItsOwnPast
  <1>3. ASSUME ReportedBlocks' \subseteq ReportedBlocks, ReportsAfterCandidate',
               CandidateAfterCheckpoint'
        PROVE  NoneFallsBehind'
    BY <1>1, <1>3, BehindFrame DEF NoneFallsBehind
  <1>4. ASSUME NEW cand, NEW okBlocks, NEW okTxs, NEW blocks, NEW txs,
               Evaluate(cand, okBlocks, okTxs, blocks, txs)
        PROVE  candidate' = cand
    BY <1>4 DEF Evaluate
  <1>5. CASE PopCheckpoint
    <2> DEFINE m == Head(cpQueue)
    <2>1. cpQueue # <<>> /\ cpQueue' = Tail(cpQueue) /\ UNCHANGED blockCheckpoint
      BY <1>5 DEF PopCheckpoint
    <2>2. /\ OfferedBy(Range(cpQueue)) = OfferedBy({m}) \cup OfferedBy(Range(cpQueue'))
          /\ m = cpQueue[1] /\ 1 \in 1..Len(cpQueue)
          /\ \A i \in 1..Len(cpQueue') :
               /\ i + 1 \in 1..Len(cpQueue)
               /\ cpQueue'[i] = cpQueue[i + 1]
               /\ OfferedBy(Before(cpQueue, i + 1)) =
                    OfferedBy({m}) \cup OfferedBy(Before(cpQueue', i))
      BY <1>1, <2>1, OfferTaken
    <2>3. candidate' = candidate \/ (Offers(m.origin) /\ candidate' = m.hash)
      BY <1>4, <1>5 DEF PopCheckpoint
    <2>4. Offers(m.origin) => OfferedBy({m}) = {m.hash}
      BY DEF OfferedBy
    <2>5. TakenBlocks' \subseteq TakenBlocks \cup OfferedBy({m})
      BY <2>1, <2>3, <2>4 DEF TakenBlocks
    <2>6. ReportedBlocks' \subseteq ReportedBlocks
      BY <2>2, <2>5 DEF ReportedBlocks
    <2>7. Offers(m.origin) => m.hash \notin Past[blockCheckpoint]
      <3>1. Offers(m.origin) => m.hash \notin PastOf(TakenBlocks \cup OfferedBy(Before(cpQueue, 1)))
        BY <1>1, <2>2 DEF ReportsAfterCandidate
      <3> QED
        BY <3>1 DEF PastOf, TakenBlocks
    <2>8. CandidateAfterCheckpoint'
      BY <1>1, <2>1, <2>3, <2>7 DEF CandidateAfterCheckpoint
    <2>9. ReportsAfterCandidate'
      <3> SUFFICES ASSUME NEW i \in 1..Len(cpQueue'), Offers(cpQueue'[i].origin)
                   PROVE  cpQueue'[i].hash \notin
                            PastOf(TakenBlocks' \cup OfferedBy(Before(cpQueue', i)))
        BY DEF ReportsAfterCandidate
      <3>1. cpQueue[i + 1].hash \notin PastOf(TakenBlocks \cup OfferedBy(Before(cpQueue, i + 1)))
        BY <1>1, <2>2 DEF ReportsAfterCandidate
      <3>2. TakenBlocks' \cup OfferedBy(Before(cpQueue', i)) \subseteq
              TakenBlocks \cup OfferedBy(Before(cpQueue, i + 1))
        BY <2>2, <2>5
      <3> QED
        BY <2>2, <3>1, <3>2, PastGrows
    <2> QED
      BY <1>2, <1>3, <2>1, <2>6, <2>8, <2>9
  <1>6. CASE SaveCheckpoint
    <2>1. /\ candidate # NoBlock /\ candidate' = NoBlock
          /\ UNCHANGED cpQueue
          /\ blockCheckpoint' \in {candidate, blockCheckpoint}
          /\ candidate \in Block
      BY <1>1, <1>6 DEF SaveCheckpoint, StoreCheckpoint, CheckpointTypeOK
    <2>2. TakenBlocks' \subseteq TakenBlocks
      BY <2>1 DEF TakenBlocks
    <2>3. ReportedBlocks' \subseteq ReportedBlocks
      BY <2>1, <2>2 DEF ReportedBlocks
    <2>4. CandidateAfterCheckpoint'
      BY <1>1, <2>1, ConsensusAssumption DEF CandidateAfterCheckpoint
    <2>5. ReportsAfterCandidate'
      BY <1>1, <2>1, <2>2 DEF ReportsAfterCandidate, PastOf
    <2>6. blockCheckpoint' \notin Past[blockCheckpoint]
      BY <1>1, <1>2, <2>1 DEF CandidateAfterCheckpoint
    <2> QED
      BY <1>3, <2>3, <2>4, <2>5, <2>6
  \* The other steps keep the candidate.
  <1>7. CASE AwaitConfirmation \/ Sleep \/ CheckpointExit \/ Tick
             \/ QueryCreated \/ ApplyDeltas \/ FailUpdate
    <2>1. UNCHANGED <<candidate, cpQueue, blockCheckpoint>>
      BY <1>4, <1>7 DEF AwaitConfirmation, Sleep, CheckpointExit, Tick, QueryCreated,
                        ApplyDeltas, FailUpdate
    <2>2. TakenBlocks' = TakenBlocks /\ ReportedBlocks' = ReportedBlocks
      BY <2>1 DEF TakenBlocks, ReportedBlocks
    <2> QED
      BY <1>1, <1>2, <1>3, <2>1, <2>2 DEF ReportsAfterCandidate, CandidateAfterCheckpoint
  <1> QED
    BY <1>5, <1>6, <1>7 DEF CheckpointStep, CheckpointNext, CheckpointWork

\* Every step of the system keeps the order, and none takes the checkpoint
\* back.
LEMMA NextInOrder ==
  ASSUME TypeOK, BlockDurable, DisableVirtualChainProcessing, ~EvictCaches, FirstRunInOrder,
         [Next]_vars
  PROVE  /\ FirstRunInOrder'
         /\ restarts = 0 => blockCheckpoint' \notin Past[blockCheckpoint]
  <1>1. blockCheckpoint \notin Past[blockCheckpoint]
    BY NotItsOwnPast DEF TypeOK, StoreTypeOK
  <1>2. CASE Restart
    <2>1. restarts' # 0 /\ UNCHANGED blockCheckpoint
      BY <1>2 DEF Restart, durable, TypeOK
    <2> QED
      BY <1>1, <2>1 DEF FirstRunInOrder
  <1>3. CASE ~Restart
    <2>1. UNCHANGED restarts
      BY <1>3 DEF Next, NodeStep, FetcherStep, FetcherFrame, BlockProcStep, BlockProcFrame,
                  TxProcStep, TxProcFrame, VcpStep, VcpFrame, CheckpointStep, CheckpointFrame,
                  Signal, Terminated, vars
    <2> SUFFICES ASSUME NoneFallsBehind
                 PROVE  /\ NoneFallsBehind'
                        /\ blockCheckpoint' \notin Past[blockCheckpoint]
      BY <2>1 DEF FirstRunInOrder
    <2>2. CASE CheckpointStep
      BY <2>2, CheckpointKeepsOnce
    <2>3. CASE ~CheckpointStep
      <3>1. UNCHANGED blockCheckpoint
        BY <1>3, <2>3 DEF Next, NodeStep, FetcherStep, FetcherFrame, BlockProcStep,
               BlockProcFrame, TxProcStep, TxProcFrame, VcpStep, VcpFrame, Signal, Terminated,
               vars, durable
      <3>2. CASE NodeStep \/ Signal \/ UNCHANGED vars
        <4>1. UNCHANGED <<fetcherVars, blockBatch, blocksQueue, cpQueue, candidate>>
          BY <3>2 DEF NodeStep, Signal, vars, shared, blockProcVars, checkpointVars
        <4>2. TakenBlocks' = TakenBlocks /\ ReportedBlocks' = ReportedBlocks
          BY <3>1, <4>1 DEF TakenBlocks, ReportedBlocks
        <4>3. ReportsAfterCandidate' /\ CandidateAfterCheckpoint'
          BY <3>1, <4>1, <4>2 DEF NoneFallsBehind, ReportsAfterCandidate,
                                  CandidateAfterCheckpoint
        <4>4. NoneFallsBehind'
          BY <4>1, <4>2, <4>3, BehindFrame DEF NoneFallsBehind
        <4> QED
          BY <1>1, <3>1, <4>4
      <3>3. CASE VcpStep
        BY <3>3, VcpDisabled DEF BlockDurable, BlockOrderKept
      <3> QED
        BY <1>1, <1>3, <2>3, <3>1, <3>2, <3>3, FetcherKeepsOnce, BlockProcKeepsOnce,
           TxProcKeepsOnce DEF Next, Terminated
    <2> QED
      BY <2>2, <2>3
  <1> QED
    BY <1>2, <1>3

\* Without the virtual chain processor, as long as no cache entry expires and
\* until the process is first killed: blocks are handed over once, and stay in
\* order on their way to the checkpoint.  The inductive invariant.
THEOREM FirstRunOrderInvariant == Spec => []FirstRunInOrder
  <1>1. CASE DisableVirtualChainProcessing /\ ~EvictCaches
    <2>1. Init => FirstRunInOrder
      BY InitNoneBehind DEF FirstRunInOrder
    <2>2. TypeOK /\ BlockDurable /\ FirstRunInOrder /\ [Next]_vars => FirstRunInOrder'
      BY <1>1, NextInOrder
    <2> QED
      BY <2>1, <2>2, TypeCorrect, BlockDurabilityInvariant, PTL DEF Spec
  <1>2. CASE ~(DisableVirtualChainProcessing /\ ~EvictCaches)
    <2>1. FirstRunInOrder
      BY <1>2 DEF FirstRunInOrder
    <2> QED
      BY <2>1, PTL
  <1> QED
    BY <1>1, <1>2

\* ... and in such a run no step takes the checkpoint back to a block in its
\* own past, whatever the order in which the node sends parallel blocks, with
\* failing and with forced saves.
THEOREM FirstRunDoesNotRegress ==
  ASSUME DisableVirtualChainProcessing, ~EvictCaches
  PROVE  Spec => [][restarts = 0 => blockCheckpoint' \notin Past[blockCheckpoint]]_vars
  <1>1. TypeOK /\ BlockDurable /\ FirstRunInOrder /\ [Next]_vars
          => [restarts = 0 => blockCheckpoint' \notin Past[blockCheckpoint]]_vars
    BY NextInOrder
  <1> QED
    BY <1>1, TypeCorrect, BlockDurabilityInvariant, FirstRunOrderInvariant, PTL DEF Spec
=============================================================================
