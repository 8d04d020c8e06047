----------------------------- MODULE TypeProofs -----------------------------
(***************************************************************************)
(* Type correctness of the composed system, for every value of the         *)
(* constants: the state components keep their types, and the program       *)
(* counters of the tasks agree with the vectors the code relies on when it *)
(* takes a first or a last element.                                        *)
(***************************************************************************)
EXTENDS Indexer, SequenceTheorems, FiniteSetTheorems, TLAPS

\* Popping from a queue or a vector.
LEMMA Popped ==
  ASSUME NEW S, NEW s \in Seq(S), s # <<>>
  PROVE  /\ Head(s) \in S
         /\ Tail(s) \in Seq(S)
         /\ Len(s) \in Nat \ {0}
         /\ Len(s) = 1 <=> Tail(s) = <<>>
  <1>1. Head(s) \in S /\ Tail(s) \in Seq(S) /\ Len(Tail(s)) = Len(s) - 1
    BY HeadTailProperties
  <1>2. Len(s) \in Nat \ {0} /\ Len(<<>>) = 0
    BY EmptySeq
  <1>3. Tail(s) # <<>> => Len(Tail(s)) \in Nat \ {0}
    BY <1>1, EmptySeq
  <1> QED
    BY <1>1, <1>2, <1>3

\* The empty queue, vector and history.
LEMMA Emptied ==
  /\ \A S : <<>> \in Seq(S)
  /\ Len(<<>>) = 0
  BY EmptySeq

\* What a push does to the contents and to the order of a queue.
LEMMA Pushed ==
  ASSUME NEW S, NEW s \in Seq(S), NEW e \in S
  PROVE  /\ Append(s, e) \in Seq(S)
         /\ Range(Append(s, e)) = Range(s) \cup {e}
         /\ Len(Append(s, e)) = Len(s) + 1
         /\ \A i \in 1..Len(s) : /\ Append(s, e)[i] = s[i]
                                 /\ Before(Append(s, e), i) = Before(s, i)
         /\ Append(s, e)[Len(s) + 1] = e
         /\ Before(Append(s, e), Len(s) + 1) = Range(s)
  <1>1. /\ Append(s, e) \in Seq(S)
        /\ Len(Append(s, e)) = Len(s) + 1
        /\ \A i \in 1..Len(s) : Append(s, e)[i] = s[i]
        /\ Append(s, e)[Len(s) + 1] = e
        /\ Len(s) \in Nat
    BY AppendProperties, LenProperties
  <1> DEFINE a == Append(s, e)
             n == Len(s)
  <1>2. Range(s) = {s[i] : i \in 1..n} /\ Range(a) = {a[i] : i \in 1..(n + 1)}
    BY <1>1, RangeEquality
  <1> HIDE DEF a, n
  <1>3. n \in Nat /\ a[n + 1] = e /\ \A i \in 1..n : a[i] = s[i]
    BY <1>1 DEF a, n
  <1>4. Range(a) = Range(s) \cup {e}
    BY <1>2, <1>3
  <1>5. Before(a, n + 1) = Range(s)
    BY <1>2, <1>3 DEF Before
  <1>6. \A i \in 1..n : Before(a, i) = Before(s, i)
    BY <1>3 DEF Before
  <1> QED
    BY <1>1, <1>4, <1>5, <1>6 DEF a, n

\* What a pop does to them.
LEMMA Taken ==
  ASSUME NEW S, NEW s \in Seq(S), s # <<>>
  PROVE  /\ Head(s) = s[1]
         /\ 1 \in 1..Len(s)
         /\ Range(s) = {Head(s)} \cup Range(Tail(s))
         /\ \A i \in 1..Len(Tail(s)) :
              /\ i + 1 \in 1..Len(s)
              /\ Tail(s)[i] = s[i + 1]
              /\ Before(s, i + 1) = {Head(s)} \cup Before(Tail(s), i)
  <1> DEFINE t == Tail(s)
             n == Len(t)
  <1>1. /\ t \in Seq(S)
        /\ Len(t) = Len(s) - 1
        /\ \A i \in 1..Len(t) : t[i] = s[i + 1]
        /\ Len(s) \in Nat \ {0}
        /\ Len(t) \in Nat
    BY HeadTailProperties, EmptySeq, LenProperties
  <1>2. Head(s) = s[1]
    OBVIOUS
  <1>3. Range(s) = {s[i] : i \in 1..(n + 1)} /\ Range(t) = {t[i] : i \in 1..n}
    <2>1. Range(s) = {s[i] : i \in 1..Len(s)} /\ Range(t) = {t[i] : i \in 1..n}
      BY <1>1, RangeEquality
    <2>2. Len(s) = n + 1
      BY <1>1
    <2> QED
      BY <2>1, <2>2
  <1>4. n \in Nat /\ Len(s) = n + 1 /\ \A i \in 1..n : t[i] = s[i + 1]
    BY <1>1
  <1> HIDE DEF t, n
  <1>5. Range(s) = {s[1]} \cup Range(t)
    <2>1. \A i \in 1..(n + 1) : i = 1 \/ (i - 1 \in 1..n /\ s[i] = t[i - 1])
      BY <1>4
    <2>2. \A j \in 1..n : j + 1 \in 1..(n + 1) /\ t[j] = s[j + 1]
      BY <1>4
    <2>3. 1 \in 1..(n + 1)
      BY <1>4
    <2> QED
      BY <1>3, <2>1, <2>2, <2>3
  <1>6. ASSUME NEW i \in 1..n
        PROVE  Before(s, i + 1) = {s[1]} \cup Before(t, i)
    <2>1. \A j \in 1..i : j = 1 \/ (j - 1 \in 1..(i - 1) /\ s[j] = t[j - 1])
      BY <1>4
    <2>2. \A j \in 1..(i - 1) : j + 1 \in 1..i /\ t[j] = s[j + 1]
      BY <1>4
    <2> QED
      BY <1>4, <2>1, <2>2 DEF Before
  <1> QED
    BY <1>2, <1>4, <1>5, <1>6 DEF t, n

\* Nothing is in an empty queue.
LEMMA EmptyRange == Range(<<>>) = {}
  <1>1. <<>> \in Seq({}) /\ Len(<<>>) = 0
    BY Emptied
  <1>2. Range(<<>>) = {<<>>[i] : i \in 1..0}
    BY <1>1, RangeEquality
  <1> QED
    BY <1>2

\* The responses of the node are sequences of blocks.
LEMMA ResponseType ==
  /\ TopologicalSeqs \subseteq Seq(Block)
  /\ \A low : GetBlocks(low) \subseteq Seq(Block)
  /\ \A from : AddedChainBlocks(from) \subseteq Seq(Block)
  <1>1. Cardinality(Block) \in Nat
    BY ConsensusAssumption, FS_CardinalityType
  <1>2. TopologicalSeqs \subseteq Seq(Block)
    BY <1>1 DEF TopologicalSeqs
  <1> QED
    BY <1>2 DEF GetBlocks, AddedChainBlocks

\* What a report to the checkpoint processor does to its queue.
LEMMA PushCheckpointType ==
  ASSUME StoreTypeOK, NEW o \in Origin, NEW b \in Block, PushCheckpoint(o, b)
  PROVE  cpQueue' \in Seq(CheckpointBlock)
  <1>1. [origin |-> o, hash |-> b] \in CheckpointBlock
    BY DEF CheckpointBlock
  <1> QED
    BY <1>1, AppendProperties DEF PushCheckpoint, StoreTypeOK

\* The initial states are well-typed.
LEMMA InitType == Init => TypeOK
  <1> SUFFICES ASSUME Init PROVE TypeOK
    OBVIOUS
  <1> USE ConsensusAssumption
  <1>1. StoreTypeOK
    BY Emptied DEF Init, ConsensusInit, StoreInit, SharedInit, StoreTypeOK
  <1>2. FetcherTypeOK
    BY Emptied DEF Init, FetcherInit, FetcherTypeOK
  <1>3. BlockProcTypeOK
    BY Emptied DEF Init, BlockProcInit, BlockProcTypeOK
  <1>4. TxProcTypeOK
    <2>1. tpc \in {"pop", "disabled"}
      BY DEF Init, TxProcInit
    <2> QED
      BY <2>1, Emptied DEF Init, TxProcInit, TxProcTypeOK
  <1>5. VcpTypeOK
    <2>1. vpc \in {"poll", "disabled"}
      BY DEF Init, VcpInit
    <2>2. tipDistance \in Nat /\ 0 <= TipWindow
      BY VirtualChainProcessorAssumption DEF Init, VcpInit
    <2> QED
      BY <2>1, <2>2, Emptied DEF Init, VcpInit, VcpTypeOK
  <1>6. CheckpointTypeOK
    <2>1. cpOkBlocks \in BOOLEAN /\ cpOkTxs \in BOOLEAN /\ forced \in BOOLEAN
      BY DEF Init, CheckpointInit
    <2> QED
      BY <2>1 DEF Init, CheckpointInit, CheckpointTypeOK
  <1> QED
    BY <1>1, <1>2, <1>3, <1>4, <1>5, <1>6 DEF Init, TypeOK

\* A step of the fetcher.
LEMMA FetcherType ==
  ASSUME TypeOK, FetcherStep
  PROVE  TypeOK'
  <1> USE DEF TypeOK
  <1>1. /\ FetcherFrame
        /\ BlockProcTypeOK' /\ TxProcTypeOK' /\ VcpTypeOK' /\ CheckpointTypeOK'
        /\ restarts' \in Nat
    BY DEF FetcherStep, FetcherFrame, blockProcVars, txProcVars, vcpVars, checkpointVars,
           BlockProcTypeOK, TxProcTypeOK, VcpTypeOK, CheckpointTypeOK
  <1>2. ASSUME blocksQueue' \in Seq([hash : Block, synced : BOOLEAN]),
               txsQueue' \in Seq(Block)
        PROVE  StoreTypeOK'
    BY <1>1, <1>2 DEF FetcherFrame, durable, tables, balances, StoreTypeOK
  <1>3. pending # <<>> => /\ Head(pending) \in Block
                          /\ Tail(pending) \in Seq(Block)
                          /\ Len(pending) = 1 <=> Tail(pending) = <<>>
    BY Popped DEF FetcherTypeOK
  <1>4. FindTip => synced' \in BOOLEAN
    BY DEF FindTip
  <1>5. ASSUME NextBlock, pending # <<>>
        PROVE  /\ fpc' \in {"fetch", "handle"}
               /\ pending' \in Seq(Block)
               /\ fpc' = "handle" <=> pending' # <<>>
               /\ lowHash' \in Block
    BY <1>3, <1>5 DEF NextBlock, FetcherTypeOK
  <1>6. ASSUME NEW blocks \in Seq(Block), Handle(blocks)
        PROVE  /\ fpc' \in {"fetch", "handle"}
               /\ pending' \in Seq(Block)
               /\ fpc' = "handle" <=> pending' # <<>>
    <2>1. CASE Len(blocks) > 1
      <3>1. blocks # <<>>
        BY <2>1, Emptied
      <3> QED
        BY <1>6, <2>1, <3>1 DEF Handle
    <2>2. CASE ~(Len(blocks) > 1)
      BY <1>6, <2>2, Emptied DEF Handle
    <2> QED
      BY <2>1, <2>2
  <1>7. CASE FetchBlocks
    <2>1. PICK blocks \in GetBlocks(lowHash) :
            \/ ~synced /\ fpc' = "tips" /\ pending' = blocks
            \/ Handle(blocks)
      BY <1>7 DEF FetchBlocks
    <2>2. blocks \in Seq(Block) /\ blocks # <<>>
      BY ResponseType, EmptySeq DEF GetBlocks
    <2> QED
      BY <1>1, <1>2, <1>6, <1>7, <2>1, <2>2 DEF FetchBlocks, FetcherTypeOK, StoreTypeOK
  <1>8. CASE RefreshTips
    <2>1. Tips \subseteq Block
      BY DEF Tips, StoreTypeOK
    <2> QED
      BY <1>1, <1>2, <1>6, <1>8, <2>1 DEF RefreshTips, FetcherTypeOK, StoreTypeOK
  <1>9. CASE IgnoreKnownBlock
    BY <1>1, <1>2, <1>4, <1>5, <1>9 DEF IgnoreKnownBlock, FetcherTypeOK, StoreTypeOK
  <1>10. CASE PushBlock
    <2>1. synced' \in BOOLEAN /\ pending # <<>>
      BY <1>4, <1>10 DEF PushBlock, FetcherTypeOK
    <2>2. [hash |-> Head(pending), synced |-> synced'] \in [hash : Block, synced : BOOLEAN]
      BY <1>3, <2>1
    <2>3. blocksQueue' \in Seq([hash : Block, synced : BOOLEAN])
      BY <1>10, <2>2, AppendProperties DEF PushBlock, StoreTypeOK
    <2> QED
      BY <1>1, <1>2, <1>10, <2>1, <2>3 DEF PushBlock, FetcherTypeOK, StoreTypeOK
  <1>11. CASE PushTxs
    <2>1. pending # <<>> /\ Head(pending) \in Block
      BY <1>3, <1>11 DEF PushTxs, FetcherTypeOK
    <2>2. txsQueue' \in Seq(Block)
      BY <1>11, <2>1, AppendProperties DEF PushTxs, StoreTypeOK
    <2> QED
      BY <1>1, <1>2, <1>5, <1>11, <2>1, <2>2 DEF PushTxs, FetcherTypeOK, StoreTypeOK
  <1>12. CASE AbandonBlock
    <2>1. pending # <<>> /\ Head(pending) \in Block
      BY <1>3, <1>12 DEF AbandonBlock, FetcherTypeOK
    <2>2. synced' \in BOOLEAN
      BY <1>4, <1>12 DEF AbandonBlock, FetcherTypeOK
    <2> QED
      BY <1>1, <1>2, <1>5, <1>12, <2>1, <2>2 DEF AbandonBlock, FetcherTypeOK, StoreTypeOK
  <1>13. CASE EvictBlock
    BY <1>1, <1>2, <1>13 DEF EvictBlock, FetcherTypeOK, StoreTypeOK
  <1>14. CASE FetcherExit
    BY <1>1, <1>2, <1>14 DEF FetcherExit, FetcherTypeOK, StoreTypeOK
  <1> QED
    BY <1>7, <1>8, <1>9, <1>10, <1>11, <1>12, <1>13, <1>14
       DEF FetcherStep, FetcherNext, FetcherWork

\* A step of the block processor.
LEMMA BlockProcType ==
  ASSUME TypeOK, BlockProcStep
  PROVE  TypeOK'
  <1> USE DEF TypeOK
  <1>1. /\ BlockProcFrame
        /\ FetcherTypeOK' /\ TxProcTypeOK' /\ VcpTypeOK' /\ CheckpointTypeOK'
        /\ restarts' \in Nat
    BY DEF BlockProcStep, BlockProcFrame, fetcherVars, txProcVars, vcpVars, checkpointVars,
           FetcherTypeOK, TxProcTypeOK, VcpTypeOK, CheckpointTypeOK
  <1>2. ASSUME blocksTable' \subseteq Block, blockParentTable' \subseteq Block,
               acceptances' \subseteq Tx \X Block, chainRows' \in [Block -> Nat],
               blocksQueue' \in Seq([hash : Block, synced : BOOLEAN]),
               cpQueue' \in Seq(CheckpointBlock),
               startVcp' \in BOOLEAN, lastBlock' \in Block \cup {NoBlock}
        PROVE  StoreTypeOK'
    BY <1>1, <1>2 DEF BlockProcFrame, balances, StoreTypeOK
  <1>3. Range(blockBatch) \subseteq Block
    BY RangeOfSeq DEF BlockProcTypeOK
  <1>4. CASE PopBlock
    <2>1. /\ Head(blocksQueue) \in [hash : Block, synced : BOOLEAN]
          /\ blocksQueue' \in Seq([hash : Block, synced : BOOLEAN])
      BY <1>4, Popped DEF PopBlock, StoreTypeOK
    <2>2. blockBatch' \in Seq(Block) /\ blockBatch' # <<>>
      BY <1>4, <2>1, AppendProperties DEF PopBlock, BlockProcTypeOK
    <2>3. poppedSynced' \in BOOLEAN
      BY <1>4 DEF PopBlock
    <2> QED
      BY <1>1, <1>2, <1>4, <2>1, <2>2, <2>3 DEF PopBlock, BlockProcTypeOK, StoreTypeOK
  <1>5. CASE InsertBlocks
    <2>1. blocksTable' \subseteq Block /\ bpc' \in {"parents", "blocks"}
      BY <1>3, <1>5 DEF InsertBlocks, InsertBlockRows, StoreTypeOK
    <2> QED
      BY <1>1, <1>2, <1>5, <2>1 DEF InsertBlocks, InsertBlockRows, BlockProcTypeOK, StoreTypeOK
  <1>6. CASE InsertBlockParents
    <2>1. blockParentTable' \subseteq Block /\ bpc' \in {"clear", "parents"}
      BY <1>3, <1>6 DEF InsertBlockParents, InsertBlockParentRows, StoreTypeOK
    <2> QED
      BY <1>1, <1>2, <1>6, <2>1 DEF InsertBlockParents, InsertBlockParentRows, BlockProcTypeOK, StoreTypeOK
  <1>7. CASE ClearAcceptances
    <2>1. acceptances' \subseteq Tx \X Block /\ chainRows' \in [Block -> Nat]
      BY <1>7 DEF ClearAcceptances, DeleteAcceptances, StoreTypeOK
    <2> QED
      BY <1>1, <1>2, <1>7, <2>1 DEF ClearAcceptances, BlockProcTypeOK, StoreTypeOK
  <1>8. CASE FinishCommit
    <2>1. firstBlock' \in BOOLEAN /\ startVcp' \in BOOLEAN
      <3>1. CASE Clearing
        <4>1. firstBlock' = FALSE /\ startVcp' = (CountNoop >= NoopThreshold)
          BY <1>8, <3>1 DEF FinishCommit
        <4>2. firstBlock' \in BOOLEAN
          BY <4>1
        <4>3. startVcp' \in BOOLEAN
          BY <4>1
        <4> QED
          BY <4>2, <4>3
      <3>2. CASE ~Clearing
        BY <1>8, <3>2 DEF FinishCommit, BlockProcTypeOK, StoreTypeOK
      <3> QED
        BY <3>1, <3>2
    <2>2. noopDeleteCount' \in Nat
      BY <1>8 DEF FinishCommit, CountNoop, BlockProcTypeOK
    <2>3. blockBatch # <<>>
      BY <1>8 DEF FinishCommit, BlockProcTypeOK
    <2>4. Len(blockBatch) \in 1..Len(blockBatch)
      BY <2>3, Popped DEF BlockProcTypeOK
    <2>5. lastBlock' \in Block \cup {NoBlock}
      BY <1>8, <2>4, ElementOfSeq DEF FinishCommit, UpdateLastBlock, BlockProcTypeOK, StoreTypeOK
    <2> QED
      BY <1>1, <1>2, <1>8, <2>1, <2>2, <2>3, <2>5 DEF FinishCommit, BlockProcTypeOK, StoreTypeOK
  <1>9. CASE PushBlockCheckpoint
    <2>1. blockBatch # <<>>
      BY <1>9 DEF PushBlockCheckpoint, BlockProcTypeOK
    <2>2. /\ Head(blockBatch) \in Block
          /\ Tail(blockBatch) \in Seq(Block)
          /\ Len(blockBatch) = 1 <=> Tail(blockBatch) = <<>>
      BY <2>1, Popped DEF BlockProcTypeOK
    <2>3. cpQueue' \in Seq(CheckpointBlock)
      BY <1>9, <2>2, PushCheckpointType DEF PushBlockCheckpoint, Origin
    <2> QED
      BY <1>1, <1>2, <1>9, <2>2, <2>3 DEF PushBlockCheckpoint, BlockProcTypeOK, StoreTypeOK
  <1>10. CASE BlockProcExit
    BY <1>1, <1>2, <1>10 DEF BlockProcExit, BlockProcTypeOK, StoreTypeOK
  <1> QED
    BY <1>4, <1>5, <1>6, <1>7, <1>8, <1>9, <1>10 DEF BlockProcStep, BlockProcNext

\* The relations of a batch are rows of blocks_transactions.
LEMMA RelationsType ==
  ASSUME NEW batch \in Seq(Block)
  PROVE  Relations(batch) \subseteq Block \X Tx
  BY RangeOfSeq, ConsensusAssumption DEF Relations, BlockTxRows

\* A step of the transaction processor.
LEMMA TxProcType ==
  ASSUME TypeOK, TxProcStep
  PROVE  TypeOK'
  <1> USE DEF TypeOK
  <1>1. /\ TxProcFrame
        /\ FetcherTypeOK' /\ BlockProcTypeOK' /\ VcpTypeOK' /\ CheckpointTypeOK'
        /\ restarts' \in Nat
    BY DEF TxProcStep, TxProcFrame, fetcherVars, blockProcVars, vcpVars, checkpointVars,
           FetcherTypeOK, BlockProcTypeOK, VcpTypeOK, CheckpointTypeOK
  <1>2. ASSUME txsTable' \subseteq Tx, blockTxTable' \subseteq Block \X Tx,
               txsQueue' \in Seq(Block), cpQueue' \in Seq(CheckpointBlock)
        PROVE  StoreTypeOK'
    BY <1>1, <1>2 DEF TxProcFrame, balances, StoreTypeOK
  <1>3. CASE PopTxs
    <2>1. Head(txsQueue) \in Block /\ txsQueue' \in Seq(Block)
      BY <1>3, Popped DEF PopTxs, StoreTypeOK
    <2>2. txBatch' \in Seq(Block) /\ txBatch' # <<>>
      <3>1. txBatch \in Seq(Block) /\ txBatch' = Append(txBatch, Head(txsQueue))
        BY <1>3 DEF PopTxs, TxProcTypeOK
      <3> QED
        BY <2>1, <3>1, AppendProperties
    <2>3. TxsOf[Head(txsQueue)] \subseteq Tx
      BY <2>1, ConsensusAssumption
    <2>4. txRows' \subseteq Tx /\ txCache' \subseteq Tx
      BY <1>3, <2>3 DEF PopTxs, TxProcTypeOK
    <2>5. tpc' \in {"pop", "txs"}
      BY <1>3 DEF PopTxs
    <2>6. TxProcTypeOK'
      BY <2>2, <2>4, <2>5 DEF TxProcTypeOK
    <2> QED
      BY <1>1, <1>2, <1>3, <2>1, <2>6 DEF PopTxs, StoreTypeOK
  <1>4. CASE InsertTransactions
    <2>1. txsTable' \subseteq Tx /\ tpc' \in {"relations", "txs"}
      BY <1>4 DEF InsertTransactions, InsertTransactionRows, Chunk, TxProcTypeOK, StoreTypeOK
    <2> QED
      BY <1>1, <1>2, <1>4, <2>1 DEF InsertTransactions, InsertTransactionRows, Chunk, TxProcTypeOK, StoreTypeOK
  <1>5. CASE InsertBlockTxs
    <2>1. blockTxTable' \subseteq Block \X Tx /\ tpc' \in {"push", "relations"}
      BY <1>5, RelationsType DEF InsertBlockTxs, InsertBlockTransactionRows, Chunk, TxProcTypeOK, StoreTypeOK
    <2> QED
      BY <1>1, <1>2, <1>5, <2>1 DEF InsertBlockTxs, InsertBlockTransactionRows, Chunk, TxProcTypeOK, StoreTypeOK
  <1>6. CASE PushTxCheckpoint
    <2>1. txBatch # <<>>
      BY <1>6 DEF PushTxCheckpoint, TxProcTypeOK
    <2>2. /\ Head(txBatch) \in Block
          /\ Tail(txBatch) \in Seq(Block)
          /\ Len(txBatch) = 1 <=> Tail(txBatch) = <<>>
      BY <2>1, Popped DEF TxProcTypeOK
    <2>3. cpQueue' \in Seq(CheckpointBlock)
      BY <1>6, <2>2, PushCheckpointType DEF PushTxCheckpoint, Origin
    <2> QED
      BY <1>1, <1>2, <1>6, <2>2, <2>3 DEF PushTxCheckpoint, TxProcTypeOK, StoreTypeOK
  <1>7. CASE TxProcExit
    BY <1>1, <1>2, <1>7 DEF TxProcExit, TxProcTypeOK, StoreTypeOK
  <1>8. CASE EvictTx
    BY <1>1, <1>2, <1>8 DEF EvictTx, TxProcTypeOK, StoreTypeOK
  <1> QED
    BY <1>3, <1>4, <1>5, <1>6, <1>7, <1>8 DEF TxProcStep, TxProcNext, TxProcWork

\* The part of the response that is processed, and its last block.
LEMMA AcceptedType ==
  ASSUME VcpTypeOK, vpc \in {"wait", "behind", "remove", "accept", "push"}
  PROVE  /\ Len(vcpAdded) - tipDistance \in 1..Len(vcpAdded)
         /\ LastAccepting \in Block
         /\ Accepted \in Seq(Block)
  <1>1. Len(vcpAdded) - tipDistance \in 1..Len(vcpAdded)
    BY LenProperties DEF VcpTypeOK
  <1>2. LastAccepting \in Block
    BY <1>1, ElementOfSeq DEF LastAccepting, VcpTypeOK
  <1>3. \A i \in 1..(Len(vcpAdded) - tipDistance) : vcpAdded[i] \in Block
    BY <1>1, ElementOfSeq DEF VcpTypeOK
  <1>4. Accepted \in Seq(Block)
    BY <1>1, <1>3, SubSeqProperties DEF Accepted
  <1> QED
    BY <1>1, <1>2, <1>4

\* The history of the dynamic tip distance stays within its window.
LEMMA TipHistoryType ==
  ASSUME VcpTypeOK
  PROVE  /\ TipHistory \in Seq(BOOLEAN)
         /\ Len(TipHistory) \in 1..TipWindow
  <1> DEFINE n == IF Len(tipHistory) = TipWindow THEN TipWindow - 1 ELSE Len(tipHistory)
             kept == SubSeq(tipHistory, 1, n)
  <1>1. /\ TipWindow \in Nat \ {0}
        /\ Len(tipHistory) \in Nat
        /\ Len(tipHistory) <= TipWindow
        /\ tipHistory \in Seq(BOOLEAN)
        /\ rowsRemoved \in BOOLEAN
    BY VirtualChainProcessorAssumption, LenProperties DEF VcpTypeOK
  <1>2. n \in 0..(TipWindow - 1) /\ n <= Len(tipHistory)
    BY <1>1
  <1>3. \A i \in 1..n : tipHistory[i] \in BOOLEAN
    BY <1>1, <1>2, ElementOfSeq
  <1> HIDE DEF n
  <1>4. kept \in Seq(BOOLEAN) /\ Len(kept) = n
    BY <1>2, <1>3, SubSeqProperties
  <1>5. <<rowsRemoved>> \in Seq(BOOLEAN) /\ Len(<<rowsRemoved>>) = 1
    BY <1>1
  <1>6. TipHistory = <<rowsRemoved>> \o kept
    BY DEF TipHistory, n
  <1> HIDE DEF kept
  <1>7. TipHistory \in Seq(BOOLEAN) /\ Len(TipHistory) = 1 + n
    BY <1>4, <1>5, <1>6, ConcatProperties
  <1> QED
    BY <1>1, <1>2, <1>7

\* A step of the virtual chain processor.
LEMMA VcpType ==
  ASSUME TypeOK, VcpStep
  PROVE  TypeOK'
  <1> USE DEF TypeOK
  <1>1. /\ VcpFrame
        /\ FetcherTypeOK' /\ BlockProcTypeOK' /\ TxProcTypeOK' /\ CheckpointTypeOK'
        /\ restarts' \in Nat
    BY DEF VcpStep, VcpFrame, fetcherVars, blockProcVars, txProcVars, checkpointVars,
           FetcherTypeOK, BlockProcTypeOK, TxProcTypeOK, CheckpointTypeOK
  <1>2. ASSUME acceptances' \subseteq Tx \X Block, chainRows' \in [Block -> Nat],
               cpQueue' \in Seq(CheckpointBlock)
        PROVE  StoreTypeOK'
    BY <1>1, <1>2 DEF VcpFrame, balances, StoreTypeOK
  <1>3. CASE PollVirtualChain
    <2>1. PICK added \in AddedChainBlocks(startHash) :
            IF Len(added) > tipDistance
            THEN /\ vcpRemoved' = RemovedChainBlocks(startHash)
                 /\ vcpAdded' = added
                 /\ vpc' = "wait"
                 /\ UNCHANGED vcpSynced
            ELSE /\ vcpSynced' = (vcpSynced \/ Len(added) < VcpSyncedBelow)
                 /\ UNCHANGED <<vpc, vcpRemoved, vcpAdded>>
      BY <1>3 DEF PollVirtualChain
    <2>2. added \in Seq(Block)
      BY ResponseType
    <2>3. RemovedChainBlocks(startHash) \subseteq Block
      BY ChainAssumption DEF RemovedChainBlocks, VcpTypeOK
    <2>4. StoreTypeOK'
      BY <1>2, <1>3 DEF PollVirtualChain, StoreTypeOK
    <2>5. CASE Len(added) > tipDistance
      BY <1>1, <1>3, <2>1, <2>2, <2>3, <2>4, <2>5 DEF PollVirtualChain, VcpTypeOK
    <2>6. CASE ~(Len(added) > tipDistance)
      <3>1. vcpSynced' \in BOOLEAN
        BY <2>1, <2>6, Zenon
      <3> QED
        BY <1>1, <1>3, <2>1, <2>4, <2>6, <3>1 DEF PollVirtualChain, VcpTypeOK
    <2> QED
      BY <2>5, <2>6
  <1>4. CASE CatchUp
    <2>1. vpc' \in {"remove", "behind"}
      BY <1>4 DEF CatchUp
    <2> QED
      BY <1>1, <1>2, <1>4, <2>1 DEF CatchUp, VcpTypeOK, StoreTypeOK
  <1>5. CASE WaitLonger
    BY <1>1, <1>2, <1>5 DEF WaitLonger, VcpTypeOK, StoreTypeOK
  <1>6. CASE RemoveChainBlocks
    <2>1. acceptances' \subseteq Tx \X Block /\ chainRows' \in [Block -> Nat]
      BY <1>6 DEF RemoveChainBlocks, DeleteAcceptances, StoreTypeOK
    <2>2. rowsRemoved' \in BOOLEAN
      BY <1>6 DEF RemoveChainBlocks, VcpTypeOK
    <2>3. vpc' \in {"remove", "accept"} /\ vpc = "remove"
      BY <1>6 DEF RemoveChainBlocks
    <2> QED
      BY <1>1, <1>2, <1>6, <2>1, <2>2, <2>3 DEF RemoveChainBlocks, VcpTypeOK, StoreTypeOK
  <1>7. CASE AcceptTransactions
    <2>1. Accepted \in Seq(Block)
      BY <1>7, AcceptedType DEF AcceptTransactions
    <2>2. NewAcceptances \subseteq Tx \X Block
      BY <2>1, RangeOfSeq, ChainAssumption DEF NewAcceptances, Unmarked
    <2>3. acceptances' \subseteq Tx \X Block
      BY <1>7, <2>2 DEF AcceptTransactions, StoreTypeOK
    <2>4. vpc' \in {"push", "accept"}
      BY <1>7 DEF AcceptTransactions
    <2> QED
      BY <1>1, <1>2, <1>7, <2>3, <2>4 DEF AcceptTransactions, VcpTypeOK, StoreTypeOK
  <1>8. CASE AddChainBlocks
    <2>1. chainRows' \in [Block -> Nat]
      BY <1>8 DEF AddChainBlocks, StoreTypeOK
    <2> QED
      BY <1>1, <1>2, <1>8, <2>1 DEF AddChainBlocks, VcpTypeOK, StoreTypeOK
  <1>9. CASE PushVcpCheckpoint
    <2>1. LastAccepting \in Block
      BY <1>9, AcceptedType DEF PushVcpCheckpoint
    <2>2. cpQueue' \in Seq(CheckpointBlock)
      BY <1>9, <2>1, PushCheckpointType DEF PushVcpCheckpoint, Origin
    <2>3. vcpSynced' \in BOOLEAN
      BY <1>9, Zenon DEF PushVcpCheckpoint
    <2>4. /\ TipHistory \in Seq(BOOLEAN)
          /\ Len(TipHistory) \in 1..TipWindow
      BY TipHistoryType
    <2>5. ASSUME NEW e \in BOOLEAN, NEW h, h = [TipHistory EXCEPT ![1] = e]
          PROVE  h \in Seq(BOOLEAN) /\ Len(h) \in 1..TipWindow
      BY <2>4, <2>5, ExceptSeq
    <2>6. /\ tipDistance' \in Nat
          /\ tipHistory' \in Seq(BOOLEAN)
          /\ Len(tipHistory') <= TipWindow
      <3>1. AdjustTipDistance
        BY <1>9 DEF PushVcpCheckpoint
      <3>2. TipWindow \in Nat
        BY VirtualChainProcessorAssumption
      <3>3. CASE ~DynamicTipDistance
        BY <3>1, <3>3 DEF AdjustTipDistance, VcpTypeOK
      <3>4. CASE DynamicTipDistance /\ BackOff
        <4>1. tipDistance' = tipDistance + 1
          BY <3>1, <3>4 DEF AdjustTipDistance, Advance
        <4>2. tipHistory' = [TipHistory EXCEPT ![1] = FALSE]
          BY <3>1, <3>4 DEF AdjustTipDistance, Advance
        <4>3. tipHistory' \in Seq(BOOLEAN) /\ Len(tipHistory') \in 1..TipWindow
          BY <2>5, <4>2
        <4> QED
          BY <3>2, <4>1, <4>3 DEF VcpTypeOK
      <3>5. CASE DynamicTipDistance /\ Advance
        <4>1. tipDistance' = tipDistance - 1 /\ tipDistance > 0
          BY <3>1, <3>5 DEF AdjustTipDistance, Advance
        <4>2. tipHistory' = TipHistory \/ tipHistory' = [TipHistory EXCEPT ![1] = TRUE]
          BY <3>1, <3>5 DEF AdjustTipDistance, Advance
        <4>3. tipHistory' \in Seq(BOOLEAN) /\ Len(tipHistory') \in 1..TipWindow
          BY <2>4, <2>5, <4>2
        <4> QED
          BY <3>2, <4>1, <4>3 DEF VcpTypeOK
      <3>6. CASE DynamicTipDistance /\ ~BackOff /\ ~Advance
        BY <2>4, <3>1, <3>2, <3>6 DEF AdjustTipDistance, VcpTypeOK
      <3> QED
        BY <3>3, <3>4, <3>5, <3>6
    <2> QED
      BY <1>1, <1>2, <1>9, <2>1, <2>2, <2>3, <2>6, Emptied
         DEF PushVcpCheckpoint, VcpTypeOK, StoreTypeOK
  <1>10. CASE VcpExit
    BY <1>1, <1>2, <1>10 DEF VcpExit, VcpTypeOK, StoreTypeOK
  <1> QED
    BY <1>3, <1>4, <1>5, <1>6, <1>7, <1>8, <1>9, <1>10 DEF VcpStep, VcpNext

\* The evaluation of the candidate, whatever the values it is given.
LEMMA EvaluateType ==
  ASSUME CheckpointTypeOK, cpc \in {"pop", "sleep"},
         NEW cand \in Block \cup {NoBlock}, NEW okBlocks \in BOOLEAN, NEW okTxs \in BOOLEAN,
         NEW blocks \in SUBSET Block, NEW txs \in SUBSET Block,
         cpc = "sleep" => cand # NoBlock,
         Evaluate(cand, okBlocks, okTxs, blocks, txs)
  PROVE  /\ candidate' \in Block \cup {NoBlock}
         /\ cpc' \in {"pop", "created"}
         /\ cpc' = "created" => candidate' # NoBlock
         /\ cpOkBlocks' \in BOOLEAN /\ cpOkTxs' \in BOOLEAN /\ forced' \in BOOLEAN
         /\ blocksProcessed' \subseteq Block /\ txsProcessed' \subseteq Block
  <1>1. CASE cand = NoBlock
    BY <1>1 DEF Evaluate, CheckpointTypeOK
  <1>2. CASE cand # NoBlock
    <2>1. cpOkBlocks' \in BOOLEAN /\ cpOkTxs' \in BOOLEAN /\ forced' \in BOOLEAN
      BY <1>2, Zenon DEF Evaluate
    <2>2. cpc' \in {"pop", "created"}
      BY <1>2 DEF Evaluate
    <2> QED
      BY <1>2, <2>1, <2>2 DEF Evaluate
  <1> QED
    BY <1>1, <1>2

\* A step of the checkpoint processor.
LEMMA CheckpointType ==
  ASSUME TypeOK, CheckpointStep
  PROVE  TypeOK'
  <1> USE DEF TypeOK
  <1>1. /\ CheckpointFrame
        /\ FetcherTypeOK' /\ BlockProcTypeOK' /\ TxProcTypeOK' /\ VcpTypeOK'
        /\ restarts' \in Nat
    BY DEF CheckpointStep, CheckpointFrame, fetcherVars, blockProcVars, txProcVars, vcpVars,
           FetcherTypeOK, BlockProcTypeOK, TxProcTypeOK, VcpTypeOK
  <1>2. ASSUME outputsCredited' \in [Tx -> Nat], inputsDebited' \in [Tx -> Nat],
               blockCheckpoint' \in Block, cpQueue' \in Seq(CheckpointBlock)
        PROVE  StoreTypeOK'
    BY <1>1, <1>2 DEF CheckpointFrame, tables, StoreTypeOK
  <1>3. CASE PopCheckpoint
    <2> DEFINE m == Head(cpQueue)
               takes == Offers(m.origin) /\ candidate = NoBlock /\ sinceSave > 0
               cand == IF takes THEN m.hash ELSE candidate
               okBlocks == takes \/ cpOkBlocks
               okTxs == StillOkTxs(takes)
               blocks == IF m.origin = "Blocks" /\ ~DisableVirtualChainProcessing
                           THEN blocksProcessed \cup {m.hash} ELSE blocksProcessed
               txs == IF m.origin = "Transactions"
                        THEN txsProcessed \cup {m.hash} ELSE txsProcessed
    <2>1. m \in CheckpointBlock /\ cpQueue' \in Seq(CheckpointBlock)
      BY <1>3, Popped DEF PopCheckpoint, StoreTypeOK
    <2>2. m.hash \in Block
      BY <2>1 DEF CheckpointBlock
    <2>3. Evaluate(cand, okBlocks, okTxs, blocks, txs) /\ cpc = "pop"
      BY <1>3 DEF PopCheckpoint
    <2>4. okBlocks \in BOOLEAN /\ okTxs \in BOOLEAN
      BY Zenon DEF StillOkTxs
    <2>5. /\ cand \in Block \cup {NoBlock}
          /\ blocks \in SUBSET Block /\ txs \in SUBSET Block
      BY <2>2 DEF CheckpointTypeOK
    <2> HIDE DEF cand, okBlocks, okTxs, blocks, txs
    <2>6. CheckpointTypeOK'
      <3>1. UNCHANGED <<sinceSave, previousCheckpoint, createdDelta, metricsCheckpoint>>
        BY <1>3 DEF PopCheckpoint
      <3> QED
        BY <2>3, <2>4, <2>5, <3>1, EvaluateType DEF CheckpointTypeOK
    <2> QED
      BY <1>1, <1>2, <1>3, <2>1, <2>6 DEF PopCheckpoint, balances, StoreTypeOK
  <1>4. CASE Sleep
    BY <1>1, <1>2, <1>4 DEF Sleep, CheckpointTypeOK, balances, StoreTypeOK
  <1>5. CASE AwaitConfirmation
    <2>1. UNCHANGED <<sinceSave, previousCheckpoint, createdDelta, metricsCheckpoint>>
      BY <1>5 DEF AwaitConfirmation
    <2>2. /\ cpc = "sleep" /\ candidate # NoBlock
          /\ candidate \in Block \cup {NoBlock}
          /\ cpOkBlocks \in BOOLEAN /\ cpOkTxs \in BOOLEAN
          /\ blocksProcessed \in SUBSET Block /\ txsProcessed \in SUBSET Block
      BY <1>5 DEF AwaitConfirmation, CheckpointTypeOK
    <2>3. Evaluate(candidate, cpOkBlocks, cpOkTxs, blocksProcessed, txsProcessed)
      BY <1>5 DEF AwaitConfirmation
    <2>4. CheckpointTypeOK'
      BY <2>1, <2>2, <2>3, EvaluateType DEF CheckpointTypeOK
    <2> QED
      BY <1>1, <1>2, <1>5, <2>4 DEF AwaitConfirmation, balances, StoreTypeOK
  <1>6. CASE QueryCreated
    <2>1. DeltaTxs(previousCheckpoint, candidate) \subseteq Tx
      BY DEF DeltaTxs, StoreTypeOK
    <2> QED
      BY <1>1, <1>2, <1>6, <2>1 DEF QueryCreated, CheckpointTypeOK, balances, StoreTypeOK
  <1>7. CASE ApplyDeltas
    <2>1. outputsCredited' \in [Tx -> Nat] /\ inputsDebited' \in [Tx -> Nat]
      BY <1>7 DEF ApplyDeltas, UpdateBalancesIncremental, StoreTypeOK
    <2> QED
      BY <1>1, <1>2, <1>7, <2>1 DEF ApplyDeltas, UpdateBalancesIncremental, CheckpointTypeOK, StoreTypeOK
  <1>8. CASE SaveCheckpoint
    <2>1. candidate \in Block
      BY <1>8 DEF SaveCheckpoint, CheckpointTypeOK
    <2>2. blockCheckpoint' \in Block /\ previousCheckpoint' \in Block
      BY <1>8, <2>1 DEF SaveCheckpoint, StoreCheckpoint, CheckpointTypeOK, StoreTypeOK
    <2>3. StoreTypeOK'
      BY <1>2, <1>8, <2>2 DEF SaveCheckpoint, balances, StoreTypeOK
    <2>4. CheckpointTypeOK'
      BY <1>8, <2>1, <2>2 DEF SaveCheckpoint, CheckpointTypeOK
    <2> QED
      BY <1>1, <2>3, <2>4
  <1>9. CASE CheckpointExit
    BY <1>1, <1>2, <1>9 DEF CheckpointExit, CheckpointTypeOK, balances, StoreTypeOK
  <1>10. CASE FailUpdate
    BY <1>1, <1>2, <1>10 DEF FailUpdate, CheckpointTypeOK, balances, StoreTypeOK
  <1>11. CASE Tick
    <2>1. sinceSave' \in 0..2
      BY <1>11 DEF Tick, CheckpointTypeOK
    <2>2. StoreTypeOK'
      BY <1>2, <1>11 DEF Tick, balances, StoreTypeOK
    <2>3. CheckpointTypeOK'
      BY <1>11, <2>1 DEF Tick, CheckpointTypeOK
    <2> QED
      BY <1>1, <2>2, <2>3
  <1> QED
    BY <1>3, <1>4, <1>5, <1>6, <1>7, <1>8, <1>9, <1>10, <1>11
       DEF CheckpointStep, CheckpointNext, CheckpointWork

\* The process is started again.
LEMMA RestartType ==
  ASSUME TypeOK, Restart
  PROVE  TypeOK'
  <1> USE DEF TypeOK
  <1>1. blockCheckpoint \in Block
    BY DEF StoreTypeOK
  <1>2. StoreTypeOK'
    BY Emptied DEF Restart, SharedReset, durable, tables, balances, StoreTypeOK
  <1>3. FetcherTypeOK'
    BY <1>1, Emptied DEF Restart, FetcherReset, FetcherTypeOK
  <1>4. BlockProcTypeOK'
    BY Emptied DEF Restart, BlockProcReset, BlockProcTypeOK
  <1>5. TxProcTypeOK'
    <2>1. tpc' \in {"pop", "disabled"}
      BY DEF Restart, TxProcReset
    <2> QED
      BY <2>1, Emptied DEF Restart, TxProcReset, TxProcTypeOK
  <1>6. VcpTypeOK'
    <2>1. vpc' \in {"poll", "disabled"}
      BY DEF Restart, VcpReset
    <2>2. tipDistance' \in Nat /\ 0 <= TipWindow
      BY VirtualChainProcessorAssumption DEF Restart, VcpReset
    <2> QED
      BY <1>1, <2>1, <2>2, Emptied DEF Restart, VcpReset, VcpTypeOK
  <1>7. CheckpointTypeOK'
    <2>1. cpOkBlocks' \in BOOLEAN /\ cpOkTxs' \in BOOLEAN /\ forced' \in BOOLEAN
      BY DEF Restart, CheckpointReset, CheckpointTypeOK
    <2> QED
      BY <1>1, <2>1 DEF Restart, CheckpointReset, CheckpointTypeOK
  <1>8. restarts' \in Nat
    BY DEF Restart
  <1> QED
    BY <1>2, <1>3, <1>4, <1>5, <1>6, <1>7, <1>8

\* Every step of the system keeps the types.
LEMMA NextType == TypeOK /\ [Next]_vars => TypeOK'
  <1> SUFFICES ASSUME TypeOK, [Next]_vars PROVE TypeOK'
    OBVIOUS
  <1>1. ASSUME UNCHANGED <<fetcherVars, blockProcVars, txProcVars, vcpVars,
                           checkpointVars, forced, restarts>>,
               StoreTypeOK'
        PROVE  TypeOK'
    <2>1. FetcherTypeOK' /\ BlockProcTypeOK' /\ TxProcTypeOK'
      BY <1>1 DEF fetcherVars, blockProcVars, txProcVars, TypeOK, FetcherTypeOK,
                  BlockProcTypeOK, TxProcTypeOK
    <2>2. VcpTypeOK' /\ CheckpointTypeOK'
      BY <1>1 DEF vcpVars, checkpointVars, TypeOK, VcpTypeOK, CheckpointTypeOK
    <2> QED
      BY <1>1, <2>1, <2>2 DEF TypeOK
  <1>2. CASE NodeStep
    <2>1. known' \subseteq Block
      BY <1>2 DEF NodeStep, AddBlock, TypeOK, StoreTypeOK
    <2>2. StoreTypeOK'
      BY <1>2, <2>1 DEF NodeStep, durable, tables, balances, shared, TypeOK, StoreTypeOK
    <2> QED
      BY <1>1, <1>2, <2>2 DEF NodeStep
  <1>3. CASE Signal
    <2>1. StoreTypeOK'
      BY <1>3 DEF Signal, durable, tables, balances, TypeOK, StoreTypeOK
    <2> QED
      BY <1>1, <1>3, <2>1 DEF Signal
  <1>4. CASE UNCHANGED vars
    <2>1. StoreTypeOK'
      BY <1>4 DEF vars, durable, tables, balances, shared, TypeOK, StoreTypeOK
    <2> QED
      BY <1>1, <1>4, <2>1 DEF vars
  <1> QED
    BY <1>2, <1>3, <1>4, FetcherType, BlockProcType, TxProcType, VcpType,
       CheckpointType, RestartType DEF Next, Terminated

\* Type correctness: whatever the five tasks, the node, signals and restarts
\* do, every queue, vector, flag, table and counter keeps its type; a task
\* that takes the first or last element of a vector finds one there, and
\* tip_distance stays below the length of the response being processed.
THEOREM TypeCorrect == Spec => []TypeOK
  <1> QED
    BY InitType, NextType, PTL DEF Spec
=============================================================================
