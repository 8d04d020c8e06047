------------------------- MODULE TxDurabilityProofs -------------------------
(***************************************************************************)
(* A saved checkpoint is backed by the transactions of its past, for every *)
(* block DAG, every order of the responses, every size of the queues and   *)
(* batches, every eviction from the caches, and any number of restarts.    *)
(***************************************************************************)
EXTENDS TxDurability, TypeProofs

\* Rows are never deleted from these tables, so what is stored stays stored.
LEMMA StoredGrows ==
  ASSUME txsTable \subseteq txsTable', blockTxTable \subseteq blockTxTable'
  PROVE  StoredTxs \subseteq StoredTxs'
  BY DEF StoredTxs, TxsStored

\* Nothing was fetched yet.
LEMMA InitOrder == Init => OrderKept
  <1> SUFFICES ASSUME Init PROVE OrderKept
    OBVIOUS
  <1>1. /\ txsQueue = <<>> /\ cpQueue = <<>> /\ pending = <<>> /\ txBatch = <<>>
        /\ txCache = {} /\ txRows = {} /\ blockCache = {} /\ txsProcessed = {}
        /\ lowHash = Start /\ blockCheckpoint = Start /\ candidate = NoBlock
        /\ cpc = "pop" /\ tpc \notin {"relations", "push"}
    BY DEF Init, SharedInit, StoreInit, FetcherInit, TxProcInit, CheckpointInit
  <1>2. Past[Start] = {} /\ Range(<<>>) = {} /\ Len(<<>>) = 0
    <2>1. <<>> \in Seq(Block) /\ Len(<<>>) = 0
      BY Emptied
    <2>2. Range(<<>>) = {<<>>[i] : i \in 1..0}
      BY <2>1, RangeEquality
    <2> QED
      BY <2>1, <2>2, ConsensusAssumption
  <1>3. FetcherInOrder
    BY <1>1, <1>2 DEF FetcherInOrder
  <1>4. QueueInOrder /\ BatchInOrder
    BY <1>1, <1>2 DEF QueueInOrder, BatchInOrder
  <1>5. BatchComplete
    BY <1>1, <1>2 DEF BatchComplete
  <1>6. ConfirmationsSettled /\ CheckpointBacked
    BY <1>1, <1>2 DEF ConfirmationsSettled, CheckpointBacked
  <1> QED
    BY <1>3, <1>4, <1>5, <1>6 DEF OrderKept

\* A step of the fetcher.
LEMMA FetcherKeepsOrder ==
  ASSUME TypeOK, OrderKept, FetcherStep
  PROVE  OrderKept'
  <1>1. /\ FetcherFrame
        /\ BatchInOrder' /\ BatchComplete' /\ ConfirmationsSettled' /\ CheckpointBacked'
        /\ StoredTxs' = StoredTxs
    BY DEF FetcherStep, FetcherFrame, durable, tables, balances, txProcVars, checkpointVars,
           OrderKept, BatchInOrder, BatchComplete, ConfirmationsSettled, CheckpointBacked,
           Settled, StoredTxs, TxsStored
  <1>2. /\ UNCHANGED <<txBatch, shutdown>>
        /\ FetcherInOrder /\ QueueInOrder
        /\ pending \in Seq(Block) /\ txsQueue \in Seq(Block)
    BY <1>1 DEF FetcherFrame, txProcVars, OrderKept, TypeOK, FetcherTypeOK, StoreTypeOK
  <1>3. ASSUME UNCHANGED txsQueue
        PROVE  QueueInOrder' /\ HandedOver' = HandedOver
    BY <1>1, <1>2, <1>3 DEF QueueInOrder, HandedOver
  <1>4. ASSUME FetcherInOrder', QueueInOrder'
        PROVE  OrderKept'
    BY <1>1, <1>4 DEF OrderKept
  <1>5. ASSUME pending # <<>>
        PROVE  /\ \A i \in 1..Len(Tail(pending)) :
                    /\ i + 1 \in 1..Len(pending)
                    /\ Tail(pending)[i] = pending[i + 1]
                    /\ Before(pending, i + 1) = {Head(pending)} \cup Before(Tail(pending), i)
               /\ ~shutdown => Past[Head(pending)] \subseteq HandedOver
    <2>1. Before(pending, 1) = {}
      BY DEF Before
    <2> QED
      BY <1>2, <1>5, <2>1, Taken DEF FetcherInOrder
  \* The loop body is left with the block at the head handed over.
  <1>6. ASSUME NextBlock, pending # <<>>,
               HandedOver \cup {Head(pending)} \subseteq HandedOver',
               blockCache' \subseteq blockCache \cup {Head(pending)}
        PROVE  FetcherInOrder'
    <2> SUFFICES ASSUME ~shutdown
                 PROVE  /\ Past[lowHash'] \subseteq HandedOver'
                        /\ blockCache' \subseteq HandedOver'
                        /\ \A i \in 1..Len(pending') :
                             Past[pending'[i]] \subseteq HandedOver' \cup Before(pending', i)
      BY <1>2 DEF FetcherInOrder, Before
    <2>1. /\ Past[lowHash] \subseteq HandedOver
          /\ blockCache \subseteq HandedOver
          /\ \A i \in 1..Len(pending) :
               Past[pending[i]] \subseteq HandedOver \cup Before(pending, i)
      BY <1>2 DEF FetcherInOrder
    <2>2. pending' = Tail(pending) /\ lowHash' \in {lowHash, Head(pending)}
      BY <1>6 DEF NextBlock
    <2>3. Past[lowHash'] \subseteq HandedOver'
      BY <1>5, <1>6, <2>1, <2>2
    <2>4. ASSUME NEW i \in 1..Len(Tail(pending))
          PROVE  Past[Tail(pending)[i]] \subseteq HandedOver' \cup Before(Tail(pending), i)
      BY <1>5, <1>6, <2>1, <2>4
    <2> QED
      BY <1>6, <2>1, <2>2, <2>3, <2>4
  \* A response, or nothing, is to be handled next.
  <1>7. ASSUME UNCHANGED <<txsQueue, lowHash, blockCache>>,
               NEW blocks, pending' \in {blocks, <<>>},
               ~shutdown => \A i \in 1..Len(blocks) :
                              Past[blocks[i]] \subseteq HandedOver \cup Before(blocks, i)
        PROVE  FetcherInOrder' /\ QueueInOrder'
    BY <1>2, <1>3, <1>7, Emptied DEF FetcherInOrder, Before
  <1>8. CASE FetchBlocks
    <2>1. PICK blocks \in GetBlocks(lowHash) : pending' \in {blocks, <<>>}
      BY <1>8 DEF FetchBlocks, Handle
    <2>2. blocks \in Seq(Block) /\ DOMAIN blocks = 1..Len(blocks)
      BY ResponseType, LenProperties
    <2>3. \A i \in 1..Len(blocks) :
            Past[blocks[i]] \subseteq Past[lowHash] \cup Before(blocks, i)
      BY <2>2 DEF GetBlocks
    <2>4. ~shutdown => Past[lowHash] \subseteq HandedOver
      BY <1>2 DEF FetcherInOrder
    <2> QED
      BY <1>4, <1>7, <1>8, <2>1, <2>3, <2>4 DEF FetchBlocks
  <1>9. CASE RefreshTips
    <2>1. pending' \in {pending, <<>>}
      BY <1>9 DEF RefreshTips, Handle
    <2> QED
      BY <1>2, <1>4, <1>7, <1>9, <2>1 DEF RefreshTips, FetcherInOrder
  <1>10. CASE IgnoreKnownBlock
    <2>1. pending # <<>>
      BY <1>10 DEF IgnoreKnownBlock, TypeOK, FetcherTypeOK
    <2>2. CASE shutdown
      BY <1>2, <1>3, <1>4, <1>10, <2>2 DEF IgnoreKnownBlock, FetcherInOrder
    <2>3. CASE ~shutdown
      <3>1. Head(pending) \in HandedOver
        BY <1>2, <1>10, <2>3 DEF IgnoreKnownBlock, FetcherInOrder
      <3> QED
        BY <1>3, <1>4, <1>6, <1>10, <2>1, <3>1 DEF IgnoreKnownBlock
    <2> QED
      BY <2>2, <2>3
  <1>11. CASE PushBlock
    BY <1>2, <1>3, <1>4, <1>11 DEF PushBlock, FetcherInOrder, Before
  <1>12. CASE PushTxs
    <2>1. pending # <<>> /\ ~shutdown /\ Head(pending) \in Block
      BY <1>2, <1>12, Popped DEF PushTxs, TypeOK, FetcherTypeOK
    <2>2. txsQueue' = Append(txsQueue, Head(pending))
      BY <1>12 DEF PushTxs
    <2>3. HandedOver' = HandedOver \cup {Head(pending)}
      BY <1>1, <1>2, <2>1, <2>2, Pushed DEF HandedOver
    <2>4. QueueInOrder'
      <3> DEFINE n == Len(txsQueue)
                 stored == StoredTxs \cup Range(txBatch)
      <3>1. SUFFICES ASSUME NEW i \in 1..Len(txsQueue')
                     PROVE  Past[txsQueue'[i]] \subseteq stored \cup Before(txsQueue', i)
        BY <1>1, <1>2 DEF QueueInOrder, Before
      <3>2. n \in Nat /\ Len(txsQueue') = n + 1
        BY <1>2, <2>1, <2>2, Pushed, LenProperties
      <3>3. CASE i \in 1..n
        BY <1>2, <2>1, <2>2, <3>3, Pushed DEF QueueInOrder
      <3>4. CASE i = n + 1
        <4>1. txsQueue'[i] = Head(pending) /\ Before(txsQueue', i) = Range(txsQueue)
          BY <1>2, <2>1, <2>2, <3>4, Pushed
        <4> QED
          BY <1>5, <2>1, <4>1 DEF HandedOver
      <3> QED
        BY <3>2, <3>3, <3>4
    <2> QED
      BY <1>4, <1>6, <1>12, <2>1, <2>3, <2>4 DEF PushTxs
  <1>13. CASE AbandonBlock
    BY <1>2, <1>3, <1>4, <1>13 DEF AbandonBlock, FetcherInOrder
  <1>14. CASE EvictBlock
    BY <1>2, <1>3, <1>4, <1>14 DEF EvictBlock, FetcherInOrder, Before
  <1>15. CASE FetcherExit
    BY <1>2, <1>3, <1>4, <1>15 DEF FetcherExit, FetcherInOrder, Before
  <1> QED
    BY <1>8, <1>9, <1>10, <1>11, <1>12, <1>13, <1>14, <1>15
       DEF FetcherStep, FetcherNext, FetcherWork

\* A step that leaves the fetcher alone keeps its order when whatever was
\* handed over still is.
LEMMA FetcherOrderFrame ==
  ASSUME FetcherInOrder, HandedOver \subseteq HandedOver',
         UNCHANGED <<fetcherVars, shutdown>>
  PROVE  FetcherInOrder'
  BY DEF FetcherInOrder, fetcherVars, Before

\* Confirmations outlast every step that stores more and reports nothing.
LEMMA ConfirmationsFrame ==
  ASSUME ConfirmationsSettled, StoredTxs \subseteq StoredTxs',
         UNCHANGED <<cpQueue, checkpointVars>>
  PROVE  ConfirmationsSettled'
  BY DEF ConfirmationsSettled, Settled, checkpointVars

\* A new report in the queue, of a settled block if it comes from the
\* transaction processor.
LEMMA ConfirmationsReport ==
  ASSUME ConfirmationsSettled, StoreTypeOK, NEW o \in Origin, NEW b \in Block,
         PushCheckpoint(o, b), o = "Transactions" => Settled(b),
         UNCHANGED <<checkpointVars, txsTable, blockTxTable>>
  PROVE  ConfirmationsSettled'
  <1> DEFINE r == [origin |-> o, hash |-> b]
             n == Len(cpQueue)
  <1>1. r \in CheckpointBlock /\ cpQueue \in Seq(CheckpointBlock) /\ cpQueue' = Append(cpQueue, r)
    BY DEF CheckpointBlock, PushCheckpoint, StoreTypeOK
  <1>2. /\ n \in Nat
        /\ Len(cpQueue') = n + 1
        /\ \A i \in 1..n : cpQueue'[i] = cpQueue[i]
        /\ cpQueue'[n + 1] = r
    BY <1>1, AppendProperties, LenProperties
  <1>3. StoredTxs' = StoredTxs
    BY DEF StoredTxs, TxsStored
  <1>4. \A i \in 1..(n + 1) : i \in 1..n \/ i = n + 1
    BY <1>2
  <1>5. \A i \in 1..Len(cpQueue') :
          cpQueue'[i].origin = "Transactions" => Settled(cpQueue'[i].hash)
    BY <1>2, <1>4 DEF ConfirmationsSettled
  <1> QED
    BY <1>3, <1>5 DEF ConfirmationsSettled, Settled, checkpointVars

\* A step of the transaction processor.
LEMMA TxProcKeepsOrder ==
  ASSUME TypeOK, OrderKept, TxProcStep
  PROVE  OrderKept'
  <1>1. /\ UNCHANGED <<fetcherVars, checkpointVars, shutdown, blockCheckpoint>>
        /\ txBatch \in Seq(Block) /\ txsQueue \in Seq(Block)
        /\ FetcherInOrder /\ QueueInOrder /\ BatchInOrder /\ BatchComplete
        /\ ConfirmationsSettled /\ CheckpointBacked
    BY DEF TxProcStep, TxProcFrame, OrderKept, TypeOK, TxProcTypeOK, StoreTypeOK
  <1>2. CASE PopTxs
    <2> DEFINE h == Head(txsQueue)
    <2>1. /\ h \in Block
          /\ UNCHANGED <<txsTable, blockTxTable, cpQueue>>
          /\ txsQueue # <<>>
          /\ txsQueue' = Tail(txsQueue)
          /\ txBatch' = Append(txBatch, h)
          /\ txRows' = txRows \cup (TxsOf[h] \ txCache)
          /\ txCache' = txCache \cup TxsOf[h]
          /\ tpc' \in {"pop", "txs"}
      BY <1>1, <1>2, Popped DEF PopTxs
    <2>2. StoredTxs' = StoredTxs
      BY <2>1 DEF StoredTxs, TxsStored
    <2>3. /\ Range(txBatch') = Range(txBatch) \cup {h}
          /\ Range(txsQueue) = Range(txsQueue') \cup {h}
      BY <1>1, <2>1, Pushed, Taken
    <2>4. HandedOver' = HandedOver
      BY <2>2, <2>3 DEF HandedOver
    <2>5. QueueInOrder'
      <3>1. SUFFICES ASSUME NEW i \in 1..Len(Tail(txsQueue))
                     PROVE  Past[Tail(txsQueue)[i]] \subseteq
                              StoredTxs \cup Range(txBatch') \cup Before(Tail(txsQueue), i)
        BY <2>1, <2>2 DEF QueueInOrder
      <3>2. /\ i + 1 \in 1..Len(txsQueue)
            /\ Tail(txsQueue)[i] = txsQueue[i + 1]
            /\ Before(txsQueue, i + 1) = {h} \cup Before(Tail(txsQueue), i)
        BY <1>1, <2>1, Taken
      <3>3. Past[txsQueue[i + 1]] \subseteq
              StoredTxs \cup Range(txBatch) \cup Before(txsQueue, i + 1)
        BY <1>1, <3>2 DEF QueueInOrder
      <3> QED
        BY <2>3, <3>2, <3>3
    <2>6. BatchInOrder'
      <3>1. h = txsQueue[1] /\ 1 \in 1..Len(txsQueue) /\ Before(txsQueue, 1) = {}
        BY <1>1, <2>1, Taken DEF Before
      <3>2. Past[h] \subseteq StoredTxs \cup Range(txBatch)
        BY <1>1, <3>1 DEF QueueInOrder
      <3> QED
        BY <1>1, <2>2, <2>3, <3>2 DEF BatchInOrder
    <2>7. BatchComplete'
      BY <1>1, <2>1, <2>3 DEF BatchComplete
    <2> QED
      BY <1>1, <2>1, <2>2, <2>4, <2>5, <2>6, <2>7, FetcherOrderFrame, ConfirmationsFrame
         DEF OrderKept, CheckpointBacked
  \* Rows are inserted: more is stored, the queue and the batch stay.
  <1>3. ASSUME UNCHANGED <<txBatch, txsQueue, cpQueue>>,
               txsTable \subseteq txsTable', blockTxTable \subseteq blockTxTable',
               BatchComplete'
        PROVE  OrderKept'
    <2>1. StoredTxs \subseteq StoredTxs'
      BY <1>3, StoredGrows
    <2>2. HandedOver \subseteq HandedOver'
      BY <1>3, <2>1 DEF HandedOver
    <2>3. QueueInOrder' /\ BatchInOrder' /\ CheckpointBacked'
      BY <1>1, <1>3, <2>1 DEF QueueInOrder, BatchInOrder, CheckpointBacked
    <2> QED
      BY <1>1, <1>3, <2>1, <2>2, <2>3, FetcherOrderFrame, ConfirmationsFrame DEF OrderKept
  <1>4. CASE InsertTransactions
    <2>1. /\ UNCHANGED <<txBatch, txRows, txCache, txsQueue, cpQueue, blockTxTable>>
          /\ txsTable \subseteq txsTable'
          /\ tpc' # "push" /\ (tpc' = "relations" => txRows \subseteq txsTable')
      BY <1>4 DEF InsertTransactions, InsertTransactionRows, Chunk
    <2>2. BatchComplete'
      BY <1>1, <2>1 DEF BatchComplete
    <2> QED
      BY <1>3, <2>1, <2>2
  <1>5. CASE InsertBlockTxs
    <2>1. /\ UNCHANGED <<txBatch, txRows, txCache, txsQueue, cpQueue, txsTable>>
          /\ blockTxTable \subseteq blockTxTable'
          /\ tpc = "relations"
          /\ tpc' = "push" => Relations(txBatch) \subseteq blockTxTable'
      BY <1>5 DEF InsertBlockTxs, InsertBlockTransactionRows, Chunk
    <2>2. BatchComplete'
      BY <1>1, <2>1 DEF BatchComplete, Relations, BlockTxRows
    <2> QED
      BY <1>3, <2>1, <2>2
  <1>6. CASE PushTxCheckpoint
    <2> DEFINE h == Head(txBatch)
    <2>1. /\ tpc = "push"
          /\ txBatch # <<>>
          /\ h \in Block
          /\ txBatch' = Tail(txBatch)
          /\ PushCheckpoint("Transactions", h)
          /\ UNCHANGED <<txCache, txsQueue, txsTable, blockTxTable>>
      BY <1>1, <1>6, Popped DEF PushTxCheckpoint, TypeOK, TxProcTypeOK
    <2>2. Range(txBatch) = {h} \cup Range(txBatch') /\ Range(txBatch) \subseteq Block
      BY <1>1, <2>1, Taken, RangeOfSeq
    \* The rows of the whole batch are in the tables.
    <2>3. Range(txBatch) \subseteq StoredTxs
      <3>1. ASSUME NEW b \in Range(txBatch) PROVE TxsStored(b)
        BY <1>1, <2>1 DEF BatchComplete, TxsStored, Relations
      <3> QED
        BY <2>2, <3>1 DEF StoredTxs
    <2>4. Settled(h)
      BY <1>1, <2>2, <2>3 DEF Settled, BatchInOrder
    <2>5. StoredTxs' = StoredTxs
      BY <2>1 DEF StoredTxs, TxsStored
    <2>6. HandedOver' = HandedOver
      BY <2>1, <2>2, <2>3, <2>5 DEF HandedOver
    <2>7. QueueInOrder' /\ BatchInOrder' /\ CheckpointBacked'
      BY <1>1, <2>1, <2>2, <2>3, <2>5 DEF QueueInOrder, BatchInOrder, CheckpointBacked, Before
    <2>8. BatchComplete'
      <3>1. txRows \subseteq txsTable /\ txRows' \subseteq txRows
        BY <1>1, <1>6, <2>1 DEF BatchComplete, PushTxCheckpoint
      <3>2. Relations(txBatch)' \subseteq Relations(txBatch)
        BY <2>2 DEF Relations, BlockTxRows
      <3> QED
        BY <1>1, <2>1, <2>2, <3>1, <3>2 DEF BatchComplete
    <2>9. ConfirmationsSettled'
      BY <1>1, <2>1, <2>4, ConfirmationsReport DEF Origin, TypeOK
    <2> QED
      BY <1>1, <2>6, <2>7, <2>8, <2>9, FetcherOrderFrame DEF OrderKept
  <1>7. CASE TxProcExit
    <2>1. BatchComplete'
      BY <1>1, <1>7 DEF TxProcExit, BatchComplete
    <2> QED
      BY <1>3, <1>7, <2>1 DEF TxProcExit
  <1>8. CASE EvictTx
    <2>1. BatchComplete'
      BY <1>1, <1>8 DEF EvictTx, BatchComplete, Relations, BlockTxRows
    <2> QED
      BY <1>3, <1>8, <2>1 DEF EvictTx
  <1> QED
    BY <1>2, <1>4, <1>5, <1>6, <1>7, <1>8 DEF TxProcStep, TxProcNext, TxProcWork

\* A step that neither touches the fetcher, the transaction processor and
\* their tables nor moves the checkpoint concerns the confirmations only.
LEMMA OrderFrame ==
  ASSUME OrderKept, ConfirmationsSettled',
         UNCHANGED <<fetcherVars, txProcVars, txsTable, blockTxTable, txsQueue, shutdown,
                     blockCheckpoint>>
  PROVE  OrderKept'
  <1>1. StoredTxs' = StoredTxs
    BY DEF StoredTxs, TxsStored
  <1>2. HandedOver' = HandedOver
    BY <1>1 DEF HandedOver, txProcVars
  <1>3. FetcherInOrder'
    BY <1>2, FetcherOrderFrame DEF OrderKept
  <1>4. QueueInOrder' /\ BatchInOrder'
    BY <1>1 DEF OrderKept, QueueInOrder, BatchInOrder, Before, txProcVars
  <1>5. BatchComplete' /\ CheckpointBacked'
    BY <1>1 DEF OrderKept, BatchComplete, CheckpointBacked, Relations, BlockTxRows, txProcVars
  <1> QED
    BY <1>3, <1>4, <1>5 DEF OrderKept

\* A step of the block processor.
LEMMA BlockProcKeepsOrder ==
  ASSUME TypeOK, OrderKept, BlockProcStep
  PROVE  OrderKept'
  <1>1. /\ UNCHANGED <<fetcherVars, txProcVars, checkpointVars, txsTable, blockTxTable,
                       txsQueue, shutdown, blockCheckpoint>>
        /\ ConfirmationsSettled
    BY DEF BlockProcStep, BlockProcFrame, OrderKept
  <1>2. CASE PushBlockCheckpoint
    <2>1. Head(blockBatch) \in Block
      BY <1>2, Popped DEF PushBlockCheckpoint, TypeOK, BlockProcTypeOK
    <2>2. PushCheckpoint("Blocks", Head(blockBatch))
      BY <1>2 DEF PushBlockCheckpoint
    <2>3. ConfirmationsSettled'
      BY <1>1, <2>1, <2>2, ConfirmationsReport DEF Origin, TypeOK
    <2> QED
      BY <1>1, <2>3, OrderFrame
  <1>3. CASE UNCHANGED cpQueue
    <2>1. StoredTxs' = StoredTxs
      BY <1>1 DEF StoredTxs, TxsStored
    <2>2. ConfirmationsSettled'
      BY <1>1, <1>3, <2>1, ConfirmationsFrame
    <2> QED
      BY <1>1, <2>2, OrderFrame
  <1> QED
    BY <1>2, <1>3 DEF BlockProcStep, BlockProcNext, PopBlock, InsertBlocks, InsertBlockParents,
                      ClearAcceptances, FinishCommit, BlockProcExit

\* A step of the virtual chain processor.
LEMMA VcpKeepsOrder ==
  ASSUME TypeOK, OrderKept, VcpStep
  PROVE  OrderKept'
  <1>1. /\ UNCHANGED <<fetcherVars, txProcVars, checkpointVars, txsTable, blockTxTable,
                       txsQueue, shutdown, blockCheckpoint>>
        /\ ConfirmationsSettled
    BY DEF VcpStep, VcpFrame, OrderKept
  <1>2. CASE PushVcpCheckpoint
    <2>1. LastAccepting \in Block
      BY <1>2, AcceptedType DEF PushVcpCheckpoint, TypeOK
    <2>2. PushCheckpoint("Vcp", LastAccepting)
      BY <1>2 DEF PushVcpCheckpoint
    <2>3. ConfirmationsSettled'
      BY <1>1, <2>1, <2>2, ConfirmationsReport DEF Origin, TypeOK
    <2> QED
      BY <1>1, <2>3, OrderFrame
  <1>3. CASE UNCHANGED cpQueue
    <2>1. StoredTxs' = StoredTxs
      BY <1>1 DEF StoredTxs, TxsStored
    <2>2. ConfirmationsSettled'
      BY <1>1, <1>3, <2>1, ConfirmationsFrame
    <2> QED
      BY <1>1, <2>2, OrderFrame
  <1> QED
    BY <1>2, <1>3 DEF VcpStep, VcpNext, PollVirtualChain, CatchUp, WaitLonger,
                      RemoveChainBlocks, AcceptTransactions, AddChainBlocks, VcpExit

\* The evaluation acts on settled blocks only, unless it forces the save.
LEMMA EvaluateSettled ==
  ASSUME CheckpointTypeOK, cpc \in {"pop", "sleep"},
         NEW cand \in Block \cup {NoBlock}, NEW okBlocks \in BOOLEAN, NEW okTxs \in BOOLEAN,
         NEW blocks \in SUBSET Block, NEW txs \in SUBSET Block,
         ~DisableTransactionProcessing, ~forced',
         \A b \in txs : Settled(b),
         cand # NoBlock /\ okTxs => Settled(cand),
         Evaluate(cand, okBlocks, okTxs, blocks, txs)
  PROVE  /\ \A b \in txsProcessed' : Settled(b)
         /\ cpc' \in {"created", "spent", "save"} => cpOkTxs'
         /\ candidate' # NoBlock /\ cpOkTxs' => Settled(candidate')
  <1>1. CASE cand = NoBlock
    BY <1>1 DEF Evaluate
  <1>2. CASE cand # NoBlock
    <2> DEFINE blocksOk == okBlocks \/ cand \in blocks
               txsOk == okTxs \/ DisableTransactionProcessing \/ cand \in txs
    <2>1. /\ candidate' = cand
          /\ cpOkTxs' = (txsOk \/ ForceSave)
          /\ txsProcessed' = {}
          /\ forced' = (forced \/ (ForceSave /\ ~(blocksOk /\ txsOk)))
          /\ cpc' = IF (blocksOk /\ txsOk) \/ ForceSave THEN "created" ELSE "pop"
      BY <1>2 DEF Evaluate
    <2>2. ForceSave => txsOk
      BY <2>1
    <2>3. txsOk => Settled(cand)
      BY <1>2
    <2>4. cpOkTxs' <=> txsOk
      BY <2>1, <2>2
    <2>5. cpc' \in {"created", "spent", "save"} => txsOk
      BY <2>1, <2>2
    <2> QED
      BY <2>1, <2>3, <2>4, <2>5
  <1> QED
    BY <1>1, <1>2

\* A step of the checkpoint processor.
LEMMA CheckpointKeepsOrder ==
  ASSUME TypeOK, OrderKept, ~DisableTransactionProcessing, ~forced', CheckpointStep
  PROVE  OrderKept'
  <1>1. /\ UNCHANGED <<fetcherVars, txProcVars, txsTable, blockTxTable, txsQueue, shutdown>>
        /\ ConfirmationsSettled /\ CheckpointBacked
        /\ CheckpointTypeOK
        /\ cpQueue \in Seq(CheckpointBlock)
    BY DEF CheckpointStep, CheckpointFrame, tables, OrderKept, TypeOK, StoreTypeOK
  <1>2. StoredTxs' = StoredTxs
    BY <1>1 DEF StoredTxs, TxsStored
  <1>3. ASSUME ConfirmationsSettled', UNCHANGED blockCheckpoint
        PROVE  OrderKept'
    BY <1>1, <1>3, OrderFrame
  <1>4. CASE PopCheckpoint
    <2> DEFINE m == Head(cpQueue)
               takes == Offers(m.origin) /\ candidate = NoBlock /\ sinceSave > 0
               cand == IF takes THEN m.hash ELSE candidate
               okBlocks == takes \/ cpOkBlocks
               okTxs == StillOkTxs(takes)
               blocks == IF m.origin = "Blocks" /\ ~DisableVirtualChainProcessing
                           THEN blocksProcessed \cup {m.hash} ELSE blocksProcessed
               txs == IF m.origin = "Transactions"
                        THEN txsProcessed \cup {m.hash} ELSE txsProcessed
    <2>1. m \in CheckpointBlock /\ cpQueue # <<>> /\ cpQueue' = Tail(cpQueue)
      BY <1>1, <1>4, Popped DEF PopCheckpoint
    <2>2. m.hash \in Block
      BY <2>1 DEF CheckpointBlock
    <2>3. m = cpQueue[1] /\ 1 \in 1..Len(cpQueue)
          /\ \A i \in 1..Len(cpQueue') : i + 1 \in 1..Len(cpQueue) /\ cpQueue'[i] = cpQueue[i + 1]
      BY <1>1, <2>1, Taken
    <2>4. m.origin = "Transactions" => Settled(m.hash)
      BY <1>1, <2>3 DEF ConfirmationsSettled
    <2>5. \A b \in txs : Settled(b)
      BY <1>1, <2>4 DEF ConfirmationsSettled
    <2>6. cand # NoBlock /\ okTxs => Settled(cand)
      BY <1>1 DEF ConfirmationsSettled, StillOkTxs
    <2>7. okBlocks \in BOOLEAN /\ okTxs \in BOOLEAN
      BY Zenon DEF StillOkTxs
    <2>8. /\ cand \in Block \cup {NoBlock}
          /\ blocks \in SUBSET Block /\ txs \in SUBSET Block
      BY <1>1, <2>2 DEF CheckpointTypeOK
    <2>9. Evaluate(cand, okBlocks, okTxs, blocks, txs) /\ cpc = "pop" /\ UNCHANGED blockCheckpoint
      BY <1>4 DEF PopCheckpoint
    <2> HIDE DEF cand, okBlocks, okTxs, blocks, txs
    <2>10. /\ \A b \in txsProcessed' : Settled(b)
           /\ cpc' \in {"created", "spent", "save"} => cpOkTxs'
           /\ candidate' # NoBlock /\ cpOkTxs' => Settled(candidate')
      BY <1>1, <2>5, <2>6, <2>7, <2>8, <2>9, EvaluateSettled
    <2>11. ConfirmationsSettled'
      BY <1>1, <1>2, <2>3, <2>10 DEF ConfirmationsSettled, Settled
    <2> QED
      BY <1>3, <2>9, <2>11
  <1>5. CASE AwaitConfirmation
    <2>1. /\ Evaluate(candidate, cpOkBlocks, cpOkTxs, blocksProcessed, txsProcessed)
          /\ cpc = "sleep"
          /\ UNCHANGED <<cpQueue, blockCheckpoint>>
      BY <1>5 DEF AwaitConfirmation
    <2>2. /\ candidate \in Block \cup {NoBlock}
          /\ cpOkBlocks \in BOOLEAN /\ cpOkTxs \in BOOLEAN
          /\ blocksProcessed \in SUBSET Block /\ txsProcessed \in SUBSET Block
          /\ \A b \in txsProcessed : Settled(b)
          /\ candidate # NoBlock /\ cpOkTxs => Settled(candidate)
      BY <1>1 DEF CheckpointTypeOK, ConfirmationsSettled
    <2>3. /\ \A b \in txsProcessed' : Settled(b)
          /\ cpc' \in {"created", "spent", "save"} => cpOkTxs'
          /\ candidate' # NoBlock /\ cpOkTxs' => Settled(candidate')
      BY <1>1, <2>1, <2>2, EvaluateSettled
    <2>4. ConfirmationsSettled'
      BY <1>1, <1>2, <2>1, <2>3 DEF ConfirmationsSettled, Settled
    <2> QED
      BY <1>3, <2>1, <2>4
  <1>6. CASE SaveCheckpoint
    <2>1. /\ cpc = "save" /\ cpOkTxs /\ candidate # NoBlock
          /\ candidate' = NoBlock /\ cpc' = "pop"
          /\ UNCHANGED <<cpQueue, txsProcessed>>
          /\ blockCheckpoint' \in {candidate, blockCheckpoint}
      BY <1>1, <1>6 DEF SaveCheckpoint, StoreCheckpoint, ConfirmationsSettled, CheckpointTypeOK
    <2>2. CheckpointBacked'
      BY <1>1, <1>2, <2>1 DEF CheckpointBacked, ConfirmationsSettled, Settled
    <2>3. ConfirmationsSettled'
      BY <1>1, <1>2, <2>1 DEF ConfirmationsSettled, Settled
    <2>4. HandedOver' = HandedOver
      BY <1>1, <1>2 DEF HandedOver, txProcVars
    <2>5. FetcherInOrder'
      BY <1>1, <2>4, FetcherOrderFrame DEF OrderKept
    <2>6. QueueInOrder' /\ BatchInOrder' /\ BatchComplete'
      BY <1>1, <1>2 DEF OrderKept, QueueInOrder, BatchInOrder, BatchComplete, Before,
                        Relations, BlockTxRows, txProcVars
    <2> QED
      BY <2>2, <2>3, <2>5, <2>6 DEF OrderKept
  \* The steps in between decide nothing.
  <1>7. ASSUME UNCHANGED <<candidate, cpOkTxs, txsProcessed, cpQueue, blockCheckpoint>>,
               cpc' \in {"created", "spent", "save"} => cpc \in {"created", "spent", "save"}
        PROVE  OrderKept'
    <2>1. ConfirmationsSettled'
      BY <1>1, <1>2, <1>7 DEF ConfirmationsSettled, Settled
    <2> QED
      BY <1>3, <1>7, <2>1
  <1>8. CASE Sleep \/ CheckpointExit \/ Tick
    BY <1>7, <1>8 DEF Sleep, CheckpointExit, Tick
  <1>9. CASE QueryCreated \/ ApplyDeltas \/ FailUpdate
    BY <1>7, <1>9 DEF QueryCreated, ApplyDeltas, FailUpdate
  <1> QED
    BY <1>4, <1>5, <1>6, <1>8, <1>9 DEF CheckpointStep, CheckpointNext, CheckpointWork

\* A restart forgets everything that was not stored, and begins where
\* everything before is.
LEMMA RestartKeepsOrder ==
  ASSUME OrderKept, Restart
  PROVE  OrderKept'
  <1>1. /\ txsQueue' = <<>> /\ cpQueue' = <<>> /\ pending' = <<>> /\ txBatch' = <<>>
        /\ txCache' = {} /\ txRows' = {} /\ blockCache' = {} /\ txsProcessed' = {}
        /\ lowHash' = blockCheckpoint /\ candidate' = NoBlock /\ cpc' = "pop"
        /\ tpc' \notin {"relations", "push"}
        /\ UNCHANGED <<txsTable, blockTxTable, blockCheckpoint>>
    BY DEF Restart, SharedReset, FetcherReset, TxProcReset, CheckpointReset, durable, tables
  <1>2. Range(<<>>) = {} /\ Len(<<>>) = 0
    <2>1. <<>> \in Seq(Block) /\ Len(<<>>) = 0
      BY Emptied
    <2>2. Range(<<>>) = {<<>>[i] : i \in 1..0}
      BY <2>1, RangeEquality
    <2> QED
      BY <2>1, <2>2
  <1>3. StoredTxs' = StoredTxs
    BY <1>1 DEF StoredTxs, TxsStored
  <1>4. CheckpointBacked'
    BY <1>1, <1>3 DEF OrderKept, CheckpointBacked
  <1>5. FetcherInOrder'
    BY <1>1, <1>2, <1>3 DEF OrderKept, CheckpointBacked, FetcherInOrder, HandedOver
  <1>6. QueueInOrder' /\ BatchInOrder' /\ BatchComplete'
    BY <1>1, <1>2 DEF QueueInOrder, BatchInOrder, BatchComplete
  <1>7. ConfirmationsSettled'
    BY <1>1, <1>2 DEF ConfirmationsSettled
  <1> QED
    BY <1>4, <1>5, <1>6, <1>7 DEF OrderKept

\* Every step of the system keeps the invariant.
LEMMA NextDurable == TypeOK /\ TxDurable /\ [Next]_vars => TxDurable'
  <1> SUFFICES ASSUME TypeOK, TxDurable, [Next]_vars,
                      ~DisableTransactionProcessing, ~forced'
               PROVE  OrderKept'
    BY DEF TxDurable
  \* A forced save is remembered across restarts.
  <1>1. ~forced
    <2>1. ASSUME NEW cand, NEW okBlocks, NEW okTxs, NEW blocks, NEW txs,
                 Evaluate(cand, okBlocks, okTxs, blocks, txs)
          PROVE  ~forced
      BY <2>1 DEF Evaluate
    <2>2. CASE CheckpointStep
      BY <2>1, <2>2 DEF CheckpointStep, CheckpointNext, CheckpointWork, PopCheckpoint, Sleep,
                        AwaitConfirmation, QueryCreated, ApplyDeltas, SaveCheckpoint,
                        CheckpointExit, FailUpdate, Tick
    <2>3. CASE ~CheckpointStep
      BY <2>3 DEF Next, NodeStep, FetcherStep, FetcherFrame, BlockProcStep, BlockProcFrame,
                  TxProcStep, TxProcFrame, VcpStep, VcpFrame, Signal, Restart, Terminated, vars
    <2> QED
      BY <2>2, <2>3
  <1>2. OrderKept
    BY <1>1 DEF TxDurable
  <1>3. ASSUME UNCHANGED <<durable, txsQueue, cpQueue, fetcherVars, txProcVars,
                           checkpointVars, shutdown>>
        PROVE  OrderKept'
    <2>1. UNCHANGED <<txsTable, blockTxTable, blockCheckpoint>>
      BY <1>3 DEF durable, tables
    <2>2. StoredTxs' = StoredTxs
      BY <2>1 DEF StoredTxs, TxsStored
    <2>3. ConfirmationsSettled'
      BY <1>2, <1>3, <2>2, ConfirmationsFrame DEF OrderKept
    <2> QED
      BY <1>2, <1>3, <2>1, <2>3, OrderFrame
  <1>4. CASE NodeStep \/ UNCHANGED vars
    BY <1>3, <1>4 DEF NodeStep, vars, shared
  <1>5. CASE Signal
    <2>1. /\ shutdown'
          /\ UNCHANGED <<txsTable, blockTxTable, blockCheckpoint, txsQueue, cpQueue,
                         txProcVars, checkpointVars>>
      BY <1>5 DEF Signal, durable, tables
    <2>2. StoredTxs' = StoredTxs
      BY <2>1 DEF StoredTxs, TxsStored
    <2>3. FetcherInOrder'
      BY <2>1 DEF FetcherInOrder
    <2>4. QueueInOrder' /\ BatchInOrder' /\ BatchComplete' /\ CheckpointBacked'
      BY <1>2, <2>1, <2>2 DEF OrderKept, QueueInOrder, BatchInOrder, BatchComplete,
                              CheckpointBacked, Before, Relations, BlockTxRows, txProcVars
    <2>5. ConfirmationsSettled'
      BY <1>2, <2>1, <2>2, ConfirmationsFrame DEF OrderKept
    <2> QED
      BY <2>3, <2>4, <2>5 DEF OrderKept
  <1> QED
    BY <1>2, <1>4, <1>5, FetcherKeepsOrder, BlockProcKeepsOrder, TxProcKeepsOrder,
       VcpKeepsOrder, CheckpointKeepsOrder, RestartKeepsOrder DEF Next, Terminated

\* The order of blocks is kept from the node to the checkpoint, and every
\* confirmation the checkpoint processor acts on is of a block stored with
\* its past: the inductive invariant, for every value of the constants.
THEOREM DurabilityInvariant == Spec => []TxDurable
  <1>1. Init => TxDurable
    BY InitOrder DEF TxDurable
  <1> QED
    BY <1>1, NextDurable, TypeCorrect, PTL DEF Spec

\* A restart from the saved checkpoint misses no transaction: whatever the
\* interleaving of the tasks, the evictions and the restarts, all rows of the
\* transactions in the past of the checkpoint are in the database, unless a
\* save was forced without confirmation.
THEOREM CheckpointBackedByTransactions == Spec => []TxsBacked
  <1>1. TypeOK /\ TxDurable => TxsBacked
    BY DEF TxDurable, TxsBacked, OrderKept, CheckpointBacked, StoredTxs
  <1> QED
    BY <1>1, DurabilityInvariant, TypeCorrect, PTL
-----------------------------------------------------------------------------
\* Rows of transactions are only ever inserted.
LEMMA ArchiveGrows ==
  ASSUME txsTable \subseteq txsTable', blockTxTable \subseteq blockTxTable'
  PROVE  StoredTxs \subseteq StoredTxs'
  BY DEF StoredTxs, TxsStored

\* The evaluation of a candidate forces the save or leaves the promise alone.
LEMMA EvaluateForced ==
  ASSUME CheckpointTypeOK,
         NEW cand, NEW okBlocks, NEW okTxs, NEW blocks, NEW txs,
         Evaluate(cand, okBlocks, okTxs, blocks, txs)
  PROVE  forced' = TRUE \/ UNCHANGED forced
  BY DEF Evaluate, CheckpointTypeOK

\* A step of the checkpoint processor is a stutter of the archive, gives its
\* promise up or moves its checkpoint.
LEMMA CheckpointRefines ==
  ASSUME TypeOK, TxDurable, TypeOK', ~DisableTransactionProcessing, CheckpointStep
  PROVE  Archive!GiveUp \/ Archive!MoveCheckpoint \/ UNCHANGED Archive!vars
  <1>1. UNCHANGED <<txsTable, blockTxTable>> /\ CheckpointTypeOK /\ blockCheckpoint' \in Block
    BY DEF CheckpointStep, CheckpointFrame, tables, TypeOK, StoreTypeOK
  <1>2. StoredTxs' = StoredTxs
    BY <1>1 DEF StoredTxs, TxsStored
  <1>3. CASE PopCheckpoint \/ AwaitConfirmation
    <2>1. UNCHANGED blockCheckpoint
      BY <1>3 DEF PopCheckpoint, AwaitConfirmation
    <2>2. forced' = TRUE \/ UNCHANGED forced
      BY <1>1, <1>3, EvaluateForced DEF PopCheckpoint, AwaitConfirmation
    <2> QED
      BY <1>2, <2>1, <2>2 DEF Archive!GiveUp, Archive!vars
  <1>4. CASE SaveCheckpoint
    <2>1. cpc = "save" /\ candidate # NoBlock /\ UNCHANGED forced
      BY <1>1, <1>4 DEF SaveCheckpoint, CheckpointTypeOK
    <2>2. CASE UNCHANGED blockCheckpoint
      BY <1>2, <2>1, <2>2 DEF Archive!vars
    <2>3. CASE blockCheckpoint' = candidate
      <3>1. ~forced => Past[candidate] \subseteq StoredTxs
        BY <2>1 DEF TxDurable, OrderKept, ConfirmationsSettled, Settled
      <3> QED
        BY <1>1, <1>2, <2>1, <2>3, <3>1 DEF Archive!MoveCheckpoint
    <2> QED
      BY <1>4, <2>2, <2>3 DEF SaveCheckpoint, StoreCheckpoint
  <1>5. CASE Sleep \/ QueryCreated \/ ApplyDeltas \/ CheckpointExit \/ FailUpdate \/ Tick
    BY <1>2, <1>5 DEF Sleep, QueryCreated, ApplyDeltas, CheckpointExit, FailUpdate, Tick,
                      Archive!vars
  <1> QED
    BY <1>3, <1>4, <1>5 DEF CheckpointStep, CheckpointNext, CheckpointWork

\* A step of the transaction processor archives, or is a stutter.
LEMMA TxProcRefines ==
  ASSUME TxProcStep
  PROVE  Archive!Archive
  <1>1. UNCHANGED <<blockCheckpoint, forced>>
    BY DEF TxProcStep, TxProcFrame
  <1>2. txsTable \subseteq txsTable' /\ blockTxTable \subseteq blockTxTable'
    BY DEF TxProcStep, TxProcNext, TxProcWork, PopTxs, InsertTransactions, InsertBlockTxs,
           InsertTransactionRows, InsertBlockTransactionRows, PushTxCheckpoint, TxProcExit, EvictTx
  <1> QED
    BY <1>1, <1>2, ArchiveGrows DEF Archive!Archive, StoredTxs

\* Every other step is a stutter of the archive.
LEMMA OtherStepsStutter ==
  ASSUME \/ NodeStep \/ FetcherStep \/ BlockProcStep \/ VcpStep \/ Signal \/ Restart
         \/ Terminated \/ UNCHANGED vars
  PROVE  UNCHANGED Archive!vars
  <1>1. UNCHANGED <<txsTable, blockTxTable, blockCheckpoint, forced>>
    BY DEF NodeStep, FetcherStep, FetcherFrame, BlockProcStep, BlockProcFrame, VcpStep,
           VcpFrame, Signal, Restart, Terminated, vars, durable, tables
  <1> QED
    BY <1>1 DEF Archive!vars, StoredTxs, TxsStored

\* The indexer, with all its tasks, caches, evictions, kills and restarts,
\* implements an archive that can be continued from its checkpoint.
THEOREM ArchiveImplemented ==
  ASSUME ~DisableTransactionProcessing
  PROVE  Spec => ImplementsArchive
  <1>1. Init => Archive!Init
    BY DEF Init, StoreInit, Archive!Init, StoredTxs
  <1>2. TypeOK /\ TypeOK' /\ TxDurable /\ [Next]_vars => [Archive!Next]_(Archive!vars)
    <2> SUFFICES ASSUME TypeOK, TypeOK', TxDurable, [Next]_vars
                 PROVE  Archive!Next \/ UNCHANGED Archive!vars
      OBVIOUS
    <2>1. CASE CheckpointStep
      BY <2>1, CheckpointRefines DEF Archive!Next
    <2>2. CASE TxProcStep
      BY <2>2, TxProcRefines DEF Archive!Next
    <2>3. CASE ~CheckpointStep /\ ~TxProcStep
      BY <2>3, OtherStepsStutter DEF Next
    <2> QED
      BY <2>1, <2>2, <2>3
  <1> QED
    BY <1>1, <1>2, TypeCorrect, DurabilityInvariant, PTL DEF Spec, ImplementsArchive, Archive!Spec
=============================================================================
