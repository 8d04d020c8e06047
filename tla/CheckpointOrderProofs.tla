------------------------ MODULE CheckpointOrderProofs ------------------------
(***************************************************************************)
(* When no reorg is deeper than the confirmations the virtual chain        *)
(* processor asks for, the saved checkpoint only moves forward along the   *)
(* selected chain, and until the process is first killed no transaction    *)
(* moves a balance twice.                                                  *)
(***************************************************************************)
EXTENDS CheckpointOrder, ChainFollowingProofs

\* Selected chains are ordered.
LEMMA ChainFacts ==
  /\ \A b \in Block : /\ b \in SelChain[b] /\ Start \in SelChain[b]
                      /\ SelChain[b] \in SUBSET Block
                      /\ SelChain[b] \subseteq Past[b] \cup {b}
                      /\ \A c \in SelChain[b] : /\ SelChain[c] \subseteq SelChain[b]
                                                /\ BlueScore[c] <= BlueScore[b]
                      /\ BlueScore[b] \in Nat
  /\ SelChain[Start] = {Start}
  /\ Start \in Block
  /\ MinConfirmations \in Nat
  BY ConsensusAssumption, ChainAssumption

\* What is on the chain of another block is on the chains that one is on.
LEMMA ChainTransitive ==
  ASSUME NEW b, NEW c, NEW d \in Block, b \in SelChain[c], c \in SelChain[d]
  PROVE  b \in SelChain[d]
  BY ChainFacts

\* A block with confirmations is on the selected chain, with all before it.
LEMMA AnchoredOnChain ==
  ASSUME StoreTypeOK, Start \in known, NEW b \in Block, Anchored(b)
  PROVE  b \in SelChain[Sink]
  BY SinkKnown, ChainFacts DEF Anchored, Confirmed, StoreTypeOK

LEMMA AnchoredBelow ==
  ASSUME StoreTypeOK, Start \in known, NEW b \in Block, NEW c \in SelChain[b], Anchored(b)
  PROVE  Anchored(c)
  <1>1. CASE b = Start
    BY <1>1, ChainFacts DEF Anchored
  <1>2. CASE Confirmed(b)
    <2>1. Sink \in Block /\ b \in SelChain[Sink] /\ BlueScore[Sink] - BlueScore[b] >= MinConfirmations
      BY <1>2, SinkKnown DEF Confirmed, StoreTypeOK
    <2>2. c \in SelChain[Sink] /\ c \in Block /\ BlueScore[c] <= BlueScore[b]
      BY <2>1, ChainFacts
    <2> QED
      BY <2>1, <2>2, ChainFacts DEF Anchored, Confirmed
  <1> QED
    BY <1>1, <1>2 DEF Anchored

\* It stays there when no reorg reaches it.
LEMMA AnchoredStays ==
  ASSUME [ShallowReorg]_vars, NEW b \in Block, Anchored(b)
  PROVE  Anchored(b)'
  <1>1. CASE ShallowReorg
    BY <1>1 DEF ShallowReorg, Anchored
  <1>2. CASE UNCHANGED vars
    BY <1>2 DEF vars, Anchored, Confirmed, Sink
  <1> QED
    BY <1>1, <1>2

\* A step that works on the same response, or on none.
LEMMA RoundsFrame ==
  ASSUME TypeOK, RoundsForward, [ShallowReorg]_vars,
         UNCHANGED <<startHash, vcpRemoved, vcpAdded, tipDistance>>,
         vpc' \in Round => vpc \in Round
  PROVE  RoundsForward'
  <1>1. startHash \in Block /\ Anchored(startHash) /\ UNCHANGED startHash
    BY DEF RoundsForward, TypeOK, VcpTypeOK
  <1>2. Anchored(startHash)'
    BY <1>1, AnchoredStays DEF Anchored, Confirmed
  <1>3. ASSUME vpc' \in Round
        PROVE  /\ Anchored(LastAccepting)'
               /\ (startHash \in SelChain[LastAccepting])'
               /\ vcpRemoved' = {}
    <2>1. /\ Anchored(LastAccepting) /\ startHash \in SelChain[LastAccepting]
          /\ vcpRemoved = {} /\ LastAccepting \in Block
      BY <1>3, AcceptedType DEF RoundsForward, Round, TypeOK
    <2>2. UNCHANGED LastAccepting
      BY DEF LastAccepting
    <2>3. Anchored(LastAccepting)'
      BY <2>1, <2>2, AnchoredStays DEF Anchored, Confirmed
    <2> QED
      BY <1>1, <2>1, <2>2, <2>3
  <1> QED
    BY <1>2, <1>3 DEF RoundsForward

\* The queue of the checkpoint processor, when it is left alone, ...
LEMMA OffersFrame ==
  ASSUME OffersForward, CheckpointBehind,
         UNCHANGED <<startHash, cpQueue, candidate, blockCheckpoint, previousCheckpoint>>
  PROVE  OffersForward' /\ CheckpointBehind'
  BY DEF OffersForward, CheckpointBehind, BehindOffers, Offered, Offers

\* ... when a report that is no offer is pushed, ...
LEMMA ReportPushed ==
  ASSUME TypeOK, OffersForward, CheckpointBehind,
         NEW o \in Origin, NEW b \in Block, ~Offers(o), PushCheckpoint(o, b),
         UNCHANGED <<startHash, candidate, blockCheckpoint, previousCheckpoint>>
  PROVE  OffersForward' /\ CheckpointBehind'
  <1> DEFINE e == [origin |-> o, hash |-> b]
  <1>1. e \in CheckpointBlock /\ cpQueue \in Seq(CheckpointBlock) /\ e.origin = o
    BY DEF CheckpointBlock, TypeOK, StoreTypeOK
  <1>2. cpQueue' = Append(cpQueue, e)
    BY DEF PushCheckpoint
  <1> HIDE DEF e
  <1>3. /\ Len(cpQueue) \in Nat /\ Len(cpQueue') = Len(cpQueue) + 1
        /\ \A i \in 1..Len(cpQueue) : cpQueue'[i] = cpQueue[i]
        /\ cpQueue'[Len(cpQueue) + 1] = e
    BY <1>1, <1>2, Pushed, LenProperties
  <1>4. Offered' = Offered /\ \A i \in Offered : cpQueue'[i] = cpQueue[i]
    BY <1>1, <1>3 DEF Offered, Offers
  <1> QED
    BY <1>4 DEF OffersForward, CheckpointBehind, BehindOffers

\* ... when the virtual chain processor offers its last block, ...
LEMMA OfferPushed ==
  ASSUME TypeOK, OffersForward, CheckpointBehind,
         NEW b \in Block, PushCheckpoint("Vcp", b),
         startHash \in SelChain[b], startHash' = b,
         UNCHANGED <<candidate, blockCheckpoint, previousCheckpoint>>
  PROVE  OffersForward' /\ CheckpointBehind'
  <1> DEFINE e == [origin |-> "Vcp", hash |-> b]
             n == Len(cpQueue) + 1
  <1>1. e \in CheckpointBlock /\ cpQueue \in Seq(CheckpointBlock) /\ e.hash = b
    BY DEF CheckpointBlock, TypeOK, StoreTypeOK, Origin
  <1>2. cpQueue' = Append(cpQueue, e)
    BY DEF PushCheckpoint
  <1> HIDE DEF e
  <1>3. /\ Len(cpQueue) \in Nat /\ Len(cpQueue') = n
        /\ \A i \in 1..Len(cpQueue) : cpQueue'[i] = cpQueue[i]
        /\ cpQueue'[n] = e
    BY <1>1, <1>2, Pushed, LenProperties
  <1>4. /\ \A i \in Offered' : (i = n /\ cpQueue'[i].hash = b)
                               \/ (i \in Offered /\ cpQueue'[i] = cpQueue[i] /\ i < n)
        /\ \A i \in Offered' : i \in 1..n
    BY <1>1, <1>3 DEF Offered, Offers
  <1>5. SelChain[startHash] \subseteq SelChain[b] /\ b \in SelChain[b]
    BY ChainFacts
  <1>6. \A c \in SelChain[startHash] : BehindOffers(c) => BehindOffers(c)'
    BY <1>4, <1>5 DEF BehindOffers
  <1>7. OffersForward'
    <2>1. \A i \in Offered' : cpQueue'[i].hash \in SelChain[b]
      BY <1>4, <1>5 DEF OffersForward
    <2>2. ASSUME NEW i \in Offered', NEW j \in Offered', i < j
          PROVE  cpQueue'[i].hash \in SelChain[cpQueue'[j].hash]
      <3>1. i \in Offered /\ cpQueue'[i] = cpQueue[i]
        BY <1>3, <1>4, <2>2
      <3>2. CASE j = n
        BY <1>4, <2>1, <3>2, <1>3
      <3>3. CASE j # n
        <4>1. j \in Offered /\ cpQueue'[j] = cpQueue[j]
          BY <1>4, <3>3
        <4> QED
          BY <2>2, <3>1, <4>1 DEF OffersForward
      <3> QED
        BY <3>2, <3>3
    <2> QED
      BY <2>1, <2>2 DEF OffersForward
  <1>8. CheckpointBehind'
    <2>1. BehindOffers(blockCheckpoint)'
      BY <1>4, <1>5 DEF CheckpointBehind, BehindOffers
    <2>2. candidate' # NoBlock => BehindOffers(candidate)' /\ blockCheckpoint' \in SelChain[candidate']
      BY <1>4, <1>5 DEF CheckpointBehind, BehindOffers
    <2> QED
      BY <2>1, <2>2 DEF CheckpointBehind
  <1> QED
    BY <1>7, <1>8

\* ... and when the checkpoint processor pops, and perhaps takes, the oldest.
LEMMA ReportPopped ==
  ASSUME TypeOK, OffersForward, CheckpointBehind,
         cpQueue # <<>>, cpQueue' = Tail(cpQueue),
         candidate' = candidate
           \/ (candidate' = Head(cpQueue).hash /\ Offers(Head(cpQueue).origin)),
         UNCHANGED <<startHash, blockCheckpoint, previousCheckpoint>>
  PROVE  OffersForward' /\ CheckpointBehind'
  <1>1. cpQueue \in Seq(CheckpointBlock)
    BY DEF TypeOK, StoreTypeOK
  <1>2. /\ Head(cpQueue) = cpQueue[1] /\ 1 \in 1..Len(cpQueue)
        /\ \A i \in 1..Len(cpQueue') : i + 1 \in 1..Len(cpQueue) /\ cpQueue'[i] = cpQueue[i + 1]
    BY <1>1, Taken
  <1>3. \A i \in Offered' : /\ i + 1 \in Offered /\ cpQueue'[i] = cpQueue[i + 1]
                            /\ i \in Nat /\ i > 0
    <2>1. Len(cpQueue') \in Nat
      BY <1>1, Popped, LenProperties
    <2> QED
      BY <1>2, <2>1 DEF Offered, Offers
  <1>4. OffersForward'
    <2>1. \A i \in Offered' : cpQueue'[i].hash \in SelChain[startHash']
      BY <1>3 DEF OffersForward
    <2>2. ASSUME NEW i \in Offered', NEW j \in Offered', i < j
          PROVE  cpQueue'[i].hash \in SelChain[cpQueue'[j].hash]
      <3>1. i + 1 \in Offered /\ j + 1 \in Offered /\ i + 1 < j + 1
        BY <1>3, <2>2
      <3> QED
        BY <1>3, <3>1 DEF OffersForward
    <2> QED
      BY <2>1, <2>2 DEF OffersForward
  <1>5. BehindOffers(blockCheckpoint)'
    BY <1>3 DEF CheckpointBehind, BehindOffers
  <1>6. CASE candidate' = candidate
    <2>1. candidate # NoBlock => BehindOffers(candidate)'
      BY <1>3, <1>6 DEF CheckpointBehind, BehindOffers
    <2> QED
      BY <1>4, <1>5, <1>6, <2>1 DEF CheckpointBehind
  <1>7. CASE candidate' = Head(cpQueue).hash /\ Offers(Head(cpQueue).origin)
    <2>1. 1 \in Offered /\ candidate' = cpQueue[1].hash
      BY <1>2, <1>7 DEF Offered
    <2>2. candidate' \in SelChain[startHash] /\ blockCheckpoint \in SelChain[candidate']
      BY <2>1 DEF OffersForward, CheckpointBehind, BehindOffers
    <2>3. \A i \in Offered' : candidate' \in SelChain[cpQueue'[i].hash]
      <3> SUFFICES ASSUME NEW i \in Offered'
                   PROVE  candidate' \in SelChain[cpQueue'[i].hash]
        OBVIOUS
      <3> DEFINE j == i + 1
      <3>1. cpQueue'[i] = cpQueue[j]
        BY <1>3
      <3>2. j \in Offered
        BY <1>3
      <3>3. i \in Nat /\ i > 0
        BY <1>3
      <3>4. 1 < j
        BY <3>3
      <3> HIDE DEF j
      <3>5. cpQueue[1].hash \in SelChain[cpQueue[j].hash]
        BY <2>1, <3>2, <3>4 DEF OffersForward
      <3> QED
        BY <2>1, <3>1, <3>5
    <2>4. BehindOffers(candidate)'
      BY <2>2, <2>3 DEF BehindOffers
    <2> QED
      BY <1>4, <1>5, <2>2, <2>4 DEF CheckpointBehind
  <1> QED
    BY <1>6, <1>7

\* A step of the virtual chain processor.
LEMMA VcpOrder ==
  ASSUME TypeOK, Start \in known, ChainOrder, [ShallowReorg]_vars, VcpStep
  PROVE  ChainOrder'
  <1>1. UNCHANGED <<known, candidate, blockCheckpoint, previousCheckpoint>>
    BY DEF VcpStep, VcpFrame, checkpointVars
  <1>2. RoundsForward /\ OffersForward /\ CheckpointBehind
    BY DEF ChainOrder
  <1>3. CASE PollVirtualChain /\ vpc' = "wait"
    <2>1. UNCHANGED <<startHash, cpQueue, Sink>>
      BY <1>1, <1>3 DEF PollVirtualChain, Sink
    <2>2. startHash \in Block /\ Sink \in Block
      BY SinkKnown DEF TypeOK, VcpTypeOK, StoreTypeOK
    <2>3. startHash \in SelChain[Sink]
      BY <1>2, <2>2, AnchoredOnChain DEF RoundsForward, TypeOK
    <2>4. /\ vcpRemoved' = SelChain[startHash] \ SelChain[Sink]
          /\ LastAccepting' \in SelChain[Sink]
          /\ BlueScore[Sink] - BlueScore[LastAccepting'] >= MinConfirmations
          /\ SelChain[LastAccepting'] \cap SelChain[startHash]
               = SelChain[Sink] \cap SelChain[startHash]
      BY <1>3, PollResponse
    <2>5. vcpRemoved' = {} /\ startHash \in SelChain[LastAccepting']
      BY <2>2, <2>3, <2>4, ChainFacts
    <2>6. Anchored(LastAccepting)' /\ Anchored(startHash)'
      BY <1>2, <2>1, <2>4 DEF Anchored, Confirmed, RoundsForward
    <2>7. RoundsForward'
      BY <2>1, <2>5, <2>6 DEF RoundsForward
    <2> QED
      BY <1>1, <1>2, <2>1, <2>7, OffersFrame DEF ChainOrder
  <1>4. CASE PushVcpCheckpoint
    <2>1. /\ vpc = "push" /\ vpc' = "poll" /\ startHash' = LastAccepting
          /\ PushCheckpoint("Vcp", LastAccepting)
      BY <1>4 DEF PushVcpCheckpoint
    <2>2. LastAccepting \in Block /\ Anchored(LastAccepting) /\ startHash \in SelChain[LastAccepting]
      BY <1>2, <2>1, AcceptedType DEF RoundsForward, Round, TypeOK
    <2>3. RoundsForward'
      <3>1. Anchored(startHash)'
        BY <2>1, <2>2, <1>1 DEF Anchored, Confirmed, Sink
      <3> QED
        BY <2>1, <3>1 DEF RoundsForward, Round
    <2> QED
      BY <1>1, <1>2, <2>1, <2>2, <2>3, OfferPushed DEF ChainOrder
  <1>5. CASE (PollVirtualChain /\ vpc' # "wait") \/ CatchUp \/ WaitLonger \/ RemoveChainBlocks
             \/ AcceptTransactions \/ AddChainBlocks \/ VcpExit
    <2>1. /\ UNCHANGED <<startHash, vcpRemoved, vcpAdded, tipDistance, cpQueue>>
          /\ vpc' \in Round => vpc \in Round
      BY <1>5 DEF PollVirtualChain, CatchUp, WaitLonger, RemoveChainBlocks, AcceptTransactions,
                  AddChainBlocks, VcpExit, Round
    <2> QED
      BY <1>1, <1>2, <2>1, RoundsFrame, OffersFrame DEF ChainOrder
  <1> QED
    BY <1>3, <1>4, <1>5 DEF VcpStep, VcpNext

\* A step of the checkpoint processor: it alone moves the checkpoint.
LEMMA CheckpointStepOrder ==
  ASSUME TypeOK, ChainOrder, [ShallowReorg]_vars, CheckpointStep
  PROVE  ChainOrder' /\ AdvanceCheckpoint
  <1>1. UNCHANGED vcpVars
    BY DEF CheckpointStep, CheckpointFrame
  <1>2. RoundsForward /\ OffersForward /\ CheckpointBehind
    BY DEF ChainOrder
  <1>3. RoundsForward'
    BY <1>1, <1>2, RoundsFrame DEF vcpVars
  <1>4. blockCheckpoint \in SelChain[blockCheckpoint]
    BY ChainFacts DEF TypeOK, StoreTypeOK
  <1>5. CASE PopCheckpoint
    <2>1. /\ cpQueue # <<>> /\ cpQueue' = Tail(cpQueue)
          /\ candidate' = candidate
               \/ (candidate' = Head(cpQueue).hash /\ Offers(Head(cpQueue).origin))
          /\ UNCHANGED <<blockCheckpoint, previousCheckpoint>>
      <3> DEFINE m == Head(cpQueue)
                 takes == Offers(m.origin) /\ candidate = NoBlock /\ sinceSave > 0
      <3>1. candidate' = IF takes THEN m.hash ELSE candidate
        BY <1>5 DEF PopCheckpoint, Evaluate
      <3> QED
        BY <1>5, <3>1 DEF PopCheckpoint
    <2> QED
      BY <1>1, <1>2, <1>3, <1>4, <2>1, ReportPopped DEF ChainOrder, vcpVars, AdvanceCheckpoint
  <1>6. CASE SaveCheckpoint
    <2>1. /\ candidate # NoBlock /\ candidate' = NoBlock
          /\ UNCHANGED <<startHash, cpQueue>>
          /\ \/ blockCheckpoint' = candidate /\ previousCheckpoint' = candidate
             \/ UNCHANGED <<blockCheckpoint, previousCheckpoint>>
      BY <1>1, <1>6 DEF SaveCheckpoint, StoreCheckpoint, TypeOK, CheckpointTypeOK, vcpVars
    <2>2. UNCHANGED Offered
      BY <2>1 DEF Offered, Offers
    <2>3. OffersForward'
      BY <1>2, <2>1, <2>2 DEF OffersForward
    <2>4. CheckpointBehind'
      BY <1>2, <2>1, <2>2 DEF CheckpointBehind, BehindOffers
    <2>5. AdvanceCheckpoint
      BY <1>2, <1>4, <2>1 DEF CheckpointBehind, AdvanceCheckpoint
    <2> QED
      BY <1>3, <2>3, <2>4, <2>5 DEF ChainOrder
  <1>7. CASE ~PopCheckpoint /\ ~SaveCheckpoint
    <2>1. UNCHANGED <<startHash, cpQueue, candidate, blockCheckpoint, previousCheckpoint>>
      BY <1>1, <1>7 DEF CheckpointStep, CheckpointNext, CheckpointWork, Sleep, AwaitConfirmation,
                        Evaluate, QueryCreated, ApplyDeltas, CheckpointExit, FailUpdate, Tick,
                        vcpVars
    <2> QED
      BY <1>2, <1>3, <1>4, <2>1, OffersFrame DEF ChainOrder, AdvanceCheckpoint
  <1> QED
    BY <1>5, <1>6, <1>7

\* The reports of the other processors are no offers.
LEMMA ReportsOrder ==
  ASSUME ~DisableVirtualChainProcessing, TypeOK, ChainOrder, [ShallowReorg]_vars,
         BlockProcStep \/ TxProcStep
  PROVE  ChainOrder'
  <1>1. UNCHANGED <<vcpVars, checkpointVars, blockCheckpoint>>
    BY DEF BlockProcStep, BlockProcFrame, TxProcStep, TxProcFrame
  <1>2. RoundsForward /\ OffersForward /\ CheckpointBehind
    BY DEF ChainOrder
  <1>3. RoundsForward'
    BY <1>1, <1>2, RoundsFrame DEF vcpVars
  <1>4. UNCHANGED <<startHash, candidate, blockCheckpoint, previousCheckpoint>>
    BY <1>1 DEF vcpVars, checkpointVars
  <1>5. CASE UNCHANGED cpQueue
    BY <1>2, <1>3, <1>4, <1>5, OffersFrame DEF ChainOrder
  <1>6. CASE PushBlockCheckpoint
    <2>1. PushCheckpoint("Blocks", Head(blockBatch)) /\ bpc = "push"
      BY <1>6 DEF PushBlockCheckpoint
    <2>2. Head(blockBatch) \in Block
      BY <2>1, Popped DEF TypeOK, BlockProcTypeOK
    <2> QED
      BY <1>2, <1>3, <1>4, <2>1, <2>2, ReportPushed DEF ChainOrder, Offers, Origin
  <1>7. CASE PushTxCheckpoint
    <2>1. PushCheckpoint("Transactions", Head(txBatch)) /\ tpc = "push"
      BY <1>7 DEF PushTxCheckpoint
    <2>2. Head(txBatch) \in Block
      BY <2>1, Popped DEF TypeOK, TxProcTypeOK
    <2> QED
      BY <1>2, <1>3, <1>4, <2>1, <2>2, ReportPushed DEF ChainOrder, Offers, Origin
  <1>8. ~PushBlockCheckpoint /\ ~PushTxCheckpoint => UNCHANGED cpQueue
    BY DEF BlockProcStep, BlockProcNext, PopBlock, InsertBlocks, InsertBlockParents,
           ClearAcceptances, FinishCommit, BlockProcExit, TxProcStep, TxProcNext, TxProcWork,
           PopTxs, InsertTransactions, InsertBlockTxs, TxProcExit, EvictTx
  <1> QED
    BY <1>5, <1>6, <1>7, <1>8

\* A restart begins at the saved checkpoint, which lies before start_hash.
LEMMA RestartOrder ==
  ASSUME TypeOK, Start \in known, ChainOrder, Restart
  PROVE  ChainOrder'
  <1>1. /\ startHash' = blockCheckpoint /\ previousCheckpoint' = blockCheckpoint
        /\ cpQueue' = <<>> /\ candidate' = NoBlock
        /\ vpc' \in {"poll", "disabled"}
        /\ UNCHANGED <<known, blockCheckpoint>>
    BY DEF Restart, SharedReset, VcpReset, CheckpointReset, durable
  <1>2. blockCheckpoint \in SelChain[startHash] /\ Anchored(startHash) /\ startHash \in Block
    BY DEF ChainOrder, RoundsForward, CheckpointBehind, BehindOffers, TypeOK, VcpTypeOK
  <1>3. Anchored(blockCheckpoint) /\ blockCheckpoint \in SelChain[blockCheckpoint]
    BY <1>2, AnchoredBelow, ChainFacts DEF TypeOK, StoreTypeOK
  <1>4. RoundsForward'
    BY <1>1, <1>3 DEF RoundsForward, Round, Anchored, Confirmed, Sink
  <1>5. Offered' = {}
    BY <1>1, Emptied DEF Offered
  <1> QED
    BY <1>1, <1>3, <1>4, <1>5 DEF ChainOrder, OffersForward, CheckpointBehind, BehindOffers

\* Every step keeps the order, and moves the checkpoint forward or not at all.
LEMMA NextOrder ==
  ASSUME ~DisableVirtualChainProcessing, TypeOK, Start \in known, ChainOrder, [Next]_vars,
         [ShallowReorg]_vars
  PROVE  ChainOrder' /\ AdvanceCheckpoint
  <1>1. blockCheckpoint \in SelChain[blockCheckpoint]
    BY ChainFacts DEF TypeOK, StoreTypeOK
  <1>2. UNCHANGED blockCheckpoint => AdvanceCheckpoint
    BY <1>1 DEF AdvanceCheckpoint
  <1>3. CASE VcpStep
    BY <1>2, <1>3, VcpOrder DEF VcpStep, VcpFrame
  <1>4. CASE CheckpointStep
    BY <1>4, CheckpointStepOrder
  <1>5. CASE BlockProcStep \/ TxProcStep
    BY <1>2, <1>5, ReportsOrder DEF BlockProcStep, BlockProcFrame, TxProcStep, TxProcFrame
  <1>6. CASE Restart
    BY <1>2, <1>6, RestartOrder DEF Restart, durable
  <1>7. CASE NodeStep \/ FetcherStep \/ Signal \/ Terminated \/ UNCHANGED vars
    <2>1. UNCHANGED <<vcpVars, cpQueue, checkpointVars, blockCheckpoint>>
      BY <1>7 DEF NodeStep, FetcherStep, FetcherFrame, Signal, Terminated, vars, durable, shared
    <2>2. RoundsForward' /\ OffersForward' /\ CheckpointBehind'
      BY <2>1, RoundsFrame, OffersFrame DEF ChainOrder, vcpVars, checkpointVars
    <2> QED
      BY <1>2, <2>1, <2>2 DEF ChainOrder
  <1> QED
    BY <1>3, <1>4, <1>5, <1>6, <1>7 DEF Next

\* At the first start everything is at the pruning point.
LEMMA InitOrder == Init => ChainOrder
  <1> SUFFICES ASSUME Init PROVE ChainOrder
    OBVIOUS
  <1>1. /\ startHash = Start /\ blockCheckpoint = Start /\ previousCheckpoint = Start
        /\ cpQueue = <<>> /\ candidate = NoBlock /\ vpc \in {"poll", "disabled"}
    BY DEF Init, VcpInit, StoreInit, CheckpointInit, SharedInit
  <1>2. Offered = {}
    BY <1>1, Emptied DEF Offered
  <1> QED
    BY <1>1, <1>2, ChainFacts
       DEF ChainOrder, RoundsForward, OffersForward, CheckpointBehind, BehindOffers, Anchored,
           Round

\* Saved checkpoint, candidate, queued offers and start_hash stay in this
\* order on the selected chain, for every block DAG, as long as no reorg is
\* deeper than the confirmations asked for: through every interleaving,
\* failed and forced saves and any number of restarts.
THEOREM CheckpointOrderInvariant ==
  ASSUME ~DisableVirtualChainProcessing
  PROVE  Spec /\ ReorgsAreShallow => []ChainOrder
  <1>1. TypeOK /\ Start \in known /\ ChainOrder /\ [Next]_vars /\ [ShallowReorg]_vars
          => ChainOrder'
    BY NextOrder
  <1> QED
    BY <1>1, InitOrder, StartKnown, TypeCorrect, PTL DEF Spec, ReorgsAreShallow

\* So a saved checkpoint keeps every earlier one on its chain.
THEOREM CheckpointMovesForward ==
  ASSUME ~DisableVirtualChainProcessing
  PROVE  Spec /\ ReorgsAreShallow => CheckpointAdvances
  <1>1. TypeOK /\ Start \in known /\ ChainOrder /\ [Next]_vars /\ [ShallowReorg]_vars
          => [AdvanceCheckpoint]_vars
    BY NextOrder
  <1> QED
    BY <1>1, CheckpointOrderInvariant, StartKnown, TypeCorrect, PTL
       DEF Spec, ReorgsAreShallow, CheckpointAdvances

\* And it never moves to a block in the past of the one before: a restart
\* does not go back.
THEOREM CheckpointDoesNotRegress ==
  ASSUME ~DisableVirtualChainProcessing
  PROVE  Spec /\ ReorgsAreShallow => CheckpointNeverRegresses
  <1>1. TypeOK /\ TypeOK' /\ [AdvanceCheckpoint]_vars
          => [blockCheckpoint' \notin Past[blockCheckpoint]]_vars
    <2> SUFFICES ASSUME TypeOK, TypeOK', AdvanceCheckpoint,
                        blockCheckpoint' \in Past[blockCheckpoint]
                 PROVE  FALSE
      OBVIOUS
    <2>1. blockCheckpoint \in Block /\ blockCheckpoint' \in Block
      BY DEF TypeOK, StoreTypeOK
    <2>2. blockCheckpoint \in Past[blockCheckpoint'] \/ blockCheckpoint = blockCheckpoint'
      BY <2>1, ChainFacts DEF AdvanceCheckpoint
    <2>3. BlueWork[blockCheckpoint] <= BlueWork[blockCheckpoint']
      BY <2>1, <2>2, ChainAssumption
    <2>4. BlueWork[blockCheckpoint'] < BlueWork[blockCheckpoint]
      BY <2>1, ChainAssumption
    <2> QED
      BY <2>1, <2>3, <2>4, ChainAssumption
  <1> QED
    BY <1>1, CheckpointMovesForward, TypeCorrect, PTL
       DEF CheckpointAdvances, CheckpointNeverRegresses
-----------------------------------------------------------------------------
\* In every run a response leads from the chain of start_hash to the chain of
\* its last block.
LEMMA ResponseAlwaysFits == Spec => []ResponseFits
  <1>1. Init => ResponseFits
    BY DEF Init, VcpInit, ResponseFits, Round
  <1>2. TypeOK /\ Start \in known /\ ResponseFits /\ [Next]_vars => ResponseFits'
    <2> SUFFICES ASSUME TypeOK, Start \in known, ResponseFits, [Next]_vars PROVE ResponseFits'
      OBVIOUS
    <2>1. CASE PollVirtualChain
      BY <2>1, PollFits
    <2>2. CASE vpc' \notin Round
      BY <2>2 DEF ResponseFits
    <2>3. CASE ~PollVirtualChain /\ vpc' \in Round
      <3>1. vpc \in Round /\ UNCHANGED <<startHash, vcpRemoved, vcpAdded, tipDistance>>
        <4>1. CASE VcpStep
          BY <2>3, <4>1 DEF VcpStep, VcpNext, CatchUp, WaitLonger, RemoveChainBlocks,
                            AcceptTransactions, AddChainBlocks, PushVcpCheckpoint, VcpExit, Round
        <4>2. CASE Restart
          BY <2>3, <4>2 DEF Restart, VcpReset, Round
        <4>3. CASE ~VcpStep /\ ~Restart
          BY <2>3, <4>3 DEF Next, NodeStep, FetcherStep, FetcherFrame, BlockProcStep,
                 BlockProcFrame, TxProcStep, TxProcFrame, CheckpointStep, CheckpointFrame, Signal,
                 Terminated, vars, vcpVars
        <4> QED
          BY <4>1, <4>2, <4>3
      <3>2. UNCHANGED <<KeptChain, Range(Accepted), TrackedChain(LastAccepting)>>
        BY <3>1 DEF KeptChain, Accepted, TrackedChain, LastAccepting
      <3> QED
        BY <3>1, <3>2 DEF ResponseFits
    <2> QED
      BY <2>1, <2>2, <2>3
  <1> QED
    BY <1>1, <1>2, TypeCorrect, StartKnown, PTL DEF Spec

\* No other step adds an acceptance row.
LEMMA RowsOnlyAccepted ==
  ASSUME [Next]_vars, ~AcceptTransactions
  PROVE  acceptances' \subseteq acceptances
  BY DEF Next, NodeStep, FetcherStep, FetcherFrame, BlockProcStep, BlockProcNext, PopBlock,
         InsertBlocks, InsertBlockParents, ClearAcceptances, FinishCommit, PushBlockCheckpoint,
         BlockProcExit, TxProcStep, TxProcFrame, VcpStep, VcpNext, PollVirtualChain, CatchUp,
         WaitLonger, RemoveChainBlocks, AddChainBlocks, PushVcpCheckpoint, VcpExit,
         CheckpointStep, CheckpointFrame, DeleteAcceptances, Signal, Restart, Terminated, vars,
         durable, tables

\* Rows are added for confirmed chain blocks only; every other step at most
\* deletes some.
LEMMA NextAnchored ==
  ASSUME TypeOK, Start \in known, ResponseFits, ChainOrder, RowsAnchored, [Next]_vars,
         [ShallowReorg]_vars
  PROVE  RowsAnchored'
  <1> DEFINE anchored == {b \in Block \ {Start} : Anchored(b)}
  <1>1. anchored \subseteq anchored'
    BY AnchoredStays
  <1>2. AcceptanceRows(anchored) \subseteq AcceptanceRows(anchored')
    BY <1>1, RowsMonotone
  <1>3. SUFFICES acceptances' \subseteq AcceptanceRows(anchored)
    BY <1>2 DEF RowsAnchored, AcceptanceRows
  <1>4. acceptances \subseteq AcceptanceRows(anchored)
    BY DEF RowsAnchored
  <1> HIDE DEF anchored
  <1>5. CASE AcceptTransactions
    <2>1. PICK chunk \in SUBSET NewAcceptances : acceptances' = acceptances \cup chunk
      BY <1>5 DEF AcceptTransactions
    <2>2. NewAcceptances \subseteq AcceptanceRows(Range(Accepted))
      BY DEF NewAcceptances, Unmarked, AcceptanceRows
    <2>3. /\ LastAccepting \in Block /\ Anchored(LastAccepting)
          /\ Range(Accepted) \subseteq SelChain[LastAccepting] \ {Start}
      BY <1>5, AcceptedType
         DEF AcceptTransactions, ChainOrder, RoundsForward, ResponseFits, Round, TrackedChain,
             TypeOK
    <2>4. Range(Accepted) \subseteq anchored
      BY <2>3, AnchoredBelow, ChainFacts DEF anchored, TypeOK
    <2>5. AcceptanceRows(Range(Accepted)) \subseteq AcceptanceRows(anchored)
      BY <2>4, RowsMonotone
    <2> QED
      BY <1>4, <2>1, <2>2, <2>5
  <1>6. CASE ~AcceptTransactions
    <2>1. acceptances' \subseteq acceptances
      BY <1>6, RowsOnlyAccepted
    <2> QED
      BY <1>4, <2>1
  <1> QED
    BY <1>5, <1>6

\* Also across kills and restarts, failed queries and forced saves, no
\* acceptance row is stale: rows that were written by an earlier run and not
\* cleared at the start are rows of the selected chain still.
THEOREM NoRowStale ==
  ASSUME ~DisableVirtualChainProcessing
  PROVE  Spec /\ ReorgsAreShallow => []NoStaleRows
  <1>1. Init => RowsAnchored
    BY DEF Init, StoreInit, RowsAnchored
  <1>2. TypeOK /\ Start \in known /\ ResponseFits /\ ChainOrder /\ RowsAnchored /\ [Next]_vars
          /\ [ShallowReorg]_vars => RowsAnchored'
    BY NextAnchored
  <1>3. TypeOK /\ Start \in known /\ RowsAnchored => NoStaleRows
    <2> SUFFICES ASSUME TypeOK, Start \in known, RowsAnchored PROVE NoStaleRows
      OBVIOUS
    <2>1. {b \in Block \ {Start} : Anchored(b)} \subseteq TrackedChain(Sink)
      BY AnchoredOnChain DEF TrackedChain, TypeOK
    <2>2. AcceptanceRows({b \in Block \ {Start} : Anchored(b)})
            \subseteq AcceptanceRows(TrackedChain(Sink))
      BY <2>1, RowsMonotone
    <2>3. AcceptanceRows(TrackedChain(Sink)) = ChainAcceptances(Sink)
      BY DEF AcceptanceRows, ChainAcceptances
    <2> QED
      BY <2>2, <2>3 DEF RowsAnchored, NoStaleRows
  <1> QED
    BY <1>1, <1>2, <1>3, ResponseAlwaysFits, CheckpointOrderInvariant, StartKnown, TypeCorrect,
       PTL DEF Spec, ReorgsAreShallow
-----------------------------------------------------------------------------
\* Acceptance rows are not taken back within a run, as no reorg reaches them.
LEMMA AcceptancesGrow ==
  ASSUME TypeOK, FirstRunFollows, ChainOrder, [Next]_vars, restarts' = 0
  PROVE  acceptances \subseteq acceptances'
  <1>1. restarts = 0 /\ ~Restart
    BY FirstRunStep
  <1>2. CASE RemoveChainBlocks
    <2>1. vpc = "remove"
      BY <1>2 DEF RemoveChainBlocks
    <2>2. vcpRemoved = {}
      BY <2>1 DEF ChainOrder, RoundsForward, Round
    <2>3. Stale = {}
      BY <2>2 DEF Stale, WithAcceptanceRows
    <2>4. ASSUME NEW chunk \in SUBSET Stale, DeleteAcceptances(chunk)
          PROVE  acceptances' = acceptances
      <3>1. \A row \in acceptances : row[2] \notin chunk
        BY <2>3
      <3> QED
        BY <2>4, <3>1 DEF DeleteAcceptances
    <2> QED
      BY <1>2, <2>4 DEF RemoveChainBlocks
  <1>3. CASE ClearAcceptances
    <2>1. ~startVcp
      BY <1>3 DEF ClearAcceptances, Clearing
    <2> QED
      BY <1>1, <2>1 DEF FirstRunFollows, NotStarted, ChainFollowed
  <1>4. CASE AcceptTransactions
    BY <1>4 DEF AcceptTransactions
  <1>5. CASE ~RemoveChainBlocks /\ ~ClearAcceptances /\ ~AcceptTransactions
    <2>1. UNCHANGED acceptances
      BY <1>1, <1>5 DEF Next, NodeStep, FetcherStep, FetcherFrame, BlockProcStep, BlockProcNext,
             PopBlock, InsertBlocks, InsertBlockParents, FinishCommit, PushBlockCheckpoint,
             BlockProcExit, TxProcStep, TxProcFrame, VcpStep, VcpNext, PollVirtualChain, CatchUp,
             WaitLonger, AddChainBlocks, PushVcpCheckpoint, VcpExit, CheckpointStep,
             CheckpointFrame, Signal, Terminated, vars, durable, tables
    <2> QED
      BY <2>1
  <1> QED
    BY <1>2, <1>3, <1>4, <1>5

\* A transaction gets one accepting block: another block of the same chain
\* does not accept it, and a marked one is left out.
LEMMA AcceptOnce ==
  ASSUME TypeOK, FirstRunFollows, restarts = 0, AcceptedOnce, AcceptTransactions
  PROVE  AcceptedOnce'
  <1> DEFINE offered == AcceptanceRows(Range(Accepted))
  <1>1. PICK chunk \in SUBSET NewAcceptances : acceptances' = acceptances \cup chunk
    BY DEF AcceptTransactions
  <1>2. NewAcceptances = {row \in offered : \A old \in acceptances : old[1] # row[1]}
    BY DEF NewAcceptances, Unmarked, AcceptanceRows
  <1>3. Range(Accepted) \subseteq TrackedChain(LastAccepting) /\ LastAccepting \in Block
    <2>1. vpc = "accept"
      BY DEF AcceptTransactions
    <2>2. ResponseFits
      BY <2>1 DEF FirstRunFollows, NotStarted, ChainFollowed, Round
    <2> QED
      BY <2>1, <2>2, AcceptedType DEF ResponseFits, Round, TypeOK
  <1>4. ASSUME NEW r \in chunk, NEW q \in chunk, r[1] = q[1]
        PROVE  r = q
    <2>1. r \in offered /\ q \in offered
      BY <1>1, <1>2
    <2>2. /\ r[2] \in Range(Accepted) /\ r[1] \in Accepts[r[2]] /\ r = <<r[1], r[2]>>
          /\ q[2] \in Range(Accepted) /\ q[1] \in Accepts[q[2]] /\ q = <<q[1], q[2]>>
      BY <2>1, RowBlock
    <2>3. r[2] = q[2]
      BY <1>3, <1>4, <2>2, ChainAssumption DEF TrackedChain
    <2> QED
      BY <1>4, <2>2, <2>3
  <1>5. \A r \in chunk : \A old \in acceptances : old[1] # r[1]
    BY <1>1, <1>2
  <1> QED
    BY <1>1, <1>4, <1>5 DEF AcceptedOnce

\* A step of a task other than the checkpoint processor.
LEMMA CreditsFrame ==
  ASSUME CreditsInOrder, AcceptedOnce', acceptances \subseteq acceptances',
         UNCHANGED <<checkpointVars, balances>>
  PROVE  CreditsInOrder'
  <1>1. UNCHANGED <<cpc, candidate, previousCheckpoint, createdDelta, outputsCredited,
                    inputsDebited, BalancesAt>>
    BY DEF checkpointVars, balances, BalancesAt
  <1>2. \A t \in Tx : AcceptedUpTo(t, BalancesAt) => AcceptedUpTo(t, BalancesAt)'
    BY <1>1 DEF AcceptedUpTo
  <1>3. \A t : AcceptedBetween(t, previousCheckpoint, candidate)
                => AcceptedBetween(t, previousCheckpoint, candidate)'
    BY <1>1 DEF AcceptedBetween
  <1> QED
    BY <1>1, <1>2, <1>3 DEF CreditsInOrder

\* What was accepted up to the previous checkpoint was accepted up to the
\* candidate, but not between the two.
LEMMA RangesInOrder ==
  ASSUME TypeOK, ChainOrder, AcceptedOnce, candidate # NoBlock, NEW t
  PROVE  AcceptedUpTo(t, previousCheckpoint)
           => AcceptedUpTo(t, candidate) /\ ~AcceptedBetween(t, previousCheckpoint, candidate)
  <1>1. candidate \in Block /\ previousCheckpoint \in Block
    BY DEF TypeOK, CheckpointTypeOK
  <1>2. previousCheckpoint \in SelChain[candidate]
    BY DEF ChainOrder, CheckpointBehind
  <1>3. BlueScore[previousCheckpoint] <= BlueScore[candidate]
    BY <1>1, <1>2, ChainFacts
  <1>4. \A b \in Block : BlueScore[b] \in Nat
    BY ChainFacts
  <1>5. ASSUME NEW b \in Block, NEW c \in Block, <<t, b>> \in acceptances, <<t, c>> \in acceptances
        PROVE  b = c
    BY <1>5 DEF AcceptedOnce
  <1>6. SUFFICES ASSUME AcceptedUpTo(t, previousCheckpoint)
                 PROVE  /\ AcceptedUpTo(t, candidate)
                        /\ ~AcceptedBetween(t, previousCheckpoint, candidate)
    OBVIOUS
  <1>7. PICK b \in Block : <<t, b>> \in acceptances /\ BlueScore[b] <= BlueScore[previousCheckpoint]
    BY <1>6 DEF AcceptedUpTo
  <1>8. AcceptedUpTo(t, candidate)
    <2>1. BlueScore[b] <= BlueScore[candidate]
      BY <1>1, <1>3, <1>4, <1>7
    <2> QED
      BY <1>7, <2>1 DEF AcceptedUpTo
  <1>9. ASSUME NEW c \in Block, <<t, c>> \in acceptances, BlueScore[previousCheckpoint] < BlueScore[c]
        PROVE  FALSE
    <2>1. b = c
      BY <1>5, <1>7, <1>9
    <2> QED
      BY <1>1, <1>4, <1>7, <1>9, <2>1
  <1> QED
    BY <1>8, <1>9 DEF AcceptedBetween

\* A step of the checkpoint processor.
LEMMA CheckpointCredits ==
  ASSUME ~DbFaults, TypeOK, ChainOrder, CreditsInOrder, CheckpointStep
  PROVE  CreditsInOrder'
  <1>1. UNCHANGED <<acceptances, txsTable, blocksTable>>
    BY DEF CheckpointStep, CheckpointFrame, tables
  <1>2. AcceptedOnce /\ AcceptedOnce'
    BY <1>1 DEF CreditsInOrder, AcceptedOnce
  <1>3. \A t, from, to : /\ AcceptedUpTo(t, to)' <=> AcceptedUpTo(t, to)
                         /\ AcceptedBetween(t, from, to)' <=> AcceptedBetween(t, from, to)
    BY <1>1 DEF AcceptedUpTo, AcceptedBetween
  <1>4. \A from, to : \A t \in DeltaTxs(from, to) : AcceptedBetween(t, from, to)
    <2> SUFFICES ASSUME NEW from, NEW to, NEW t \in DeltaTxs(from, to)
                 PROVE  AcceptedBetween(t, from, to)
      OBVIOUS
    <2>1. PICK b \in blocksTable : /\ <<t, b>> \in acceptances
                                   /\ BlueScore[b] > BlueScore[from]
                                   /\ BlueScore[b] <= BlueScore[to]
      BY DEF DeltaTxs
    <2> QED
      BY <2>1 DEF AcceptedBetween, TypeOK, StoreTypeOK
  <1>5. CASE ApplyDeltas
    <2>1. /\ cpc = "spent" /\ cpc' = "save" /\ UNCHANGED candidate
          /\ candidate # NoBlock
          /\ outputsCredited' = [t \in Tx |->
               IF t \in createdDelta THEN outputsCredited[t] + 1 ELSE outputsCredited[t]]
          /\ inputsDebited' = [t \in Tx |->
               IF t \in DeltaTxs(previousCheckpoint, candidate)
               THEN inputsDebited[t] + 1 ELSE inputsDebited[t]]
      BY <1>5 DEF ApplyDeltas, UpdateBalancesIncremental, TypeOK, CheckpointTypeOK
    <2>2. BalancesAt = previousCheckpoint /\ BalancesAt' = candidate
      BY <2>1 DEF BalancesAt
    <2>3. ASSUME NEW t \in Tx
          PROVE  /\ outputsCredited'[t] <= 1
                 /\ outputsCredited'[t] = 1 => AcceptedUpTo(t, candidate)
      <3>1. /\ outputsCredited[t] \in Nat /\ outputsCredited[t] <= 1
            /\ outputsCredited[t] = 1 => AcceptedUpTo(t, previousCheckpoint)
        BY <2>2 DEF CreditsInOrder, TypeOK, StoreTypeOK
      <3>2. CASE t \in createdDelta
        <4>1. AcceptedBetween(t, previousCheckpoint, candidate)
          BY <2>1, <3>2 DEF CreditsInOrder
        <4>2. AcceptedUpTo(t, candidate)
          BY <4>1 DEF AcceptedBetween, AcceptedUpTo
        <4>3. outputsCredited[t] = 0
          BY <1>2, <2>1, <3>1, <4>1, RangesInOrder
        <4> QED
          BY <2>1, <3>2, <4>2, <4>3
      <3>3. CASE t \notin createdDelta
        BY <1>2, <2>1, <3>1, <3>3, RangesInOrder
      <3> QED
        BY <3>2, <3>3
    <2>4. ASSUME NEW t \in Tx
          PROVE  /\ inputsDebited'[t] <= 1
                 /\ inputsDebited'[t] = 1 => AcceptedUpTo(t, candidate)
      <3>1. /\ inputsDebited[t] \in Nat /\ inputsDebited[t] <= 1
            /\ inputsDebited[t] = 1 => AcceptedUpTo(t, previousCheckpoint)
        BY <2>2 DEF CreditsInOrder, TypeOK, StoreTypeOK
      <3>2. CASE t \in DeltaTxs(previousCheckpoint, candidate)
        <4>1. AcceptedBetween(t, previousCheckpoint, candidate)
          BY <1>4, <3>2
        <4>2. AcceptedUpTo(t, candidate)
          BY <4>1 DEF AcceptedBetween, AcceptedUpTo
        <4>3. inputsDebited[t] = 0
          BY <1>2, <2>1, <3>1, <4>1, RangesInOrder
        <4> QED
          BY <2>1, <3>2, <4>2, <4>3
      <3>3. CASE t \notin DeltaTxs(previousCheckpoint, candidate)
        BY <1>2, <2>1, <3>1, <3>3, RangesInOrder
      <3> QED
        BY <3>2, <3>3
    <2>5. \A t \in Tx : AcceptedUpTo(t, candidate) => AcceptedUpTo(t, BalancesAt)'
      BY <1>1, <2>2 DEF AcceptedUpTo
    <2> QED
      BY <1>2, <2>1, <2>3, <2>4, <2>5 DEF CreditsInOrder
  \* The other steps leave the balances where they are.
  <1>6. ASSUME UNCHANGED balances,
               \A t \in Tx : AcceptedUpTo(t, BalancesAt) => AcceptedUpTo(t, BalancesAt'),
               cpc' = "spent" => \A t \in createdDelta' :
                 AcceptedBetween(t, previousCheckpoint', candidate')
        PROVE  CreditsInOrder'
    <2>1. \A t \in Tx : AcceptedUpTo(t, BalancesAt) => AcceptedUpTo(t, BalancesAt)'
      BY <1>1, <1>6 DEF AcceptedUpTo
    <2>2. cpc' = "spent" => \A t \in createdDelta' :
            AcceptedBetween(t, previousCheckpoint, candidate)'
      BY <1>1, <1>6 DEF AcceptedBetween
    <2> QED
      BY <1>2, <1>6, <2>1, <2>2 DEF CreditsInOrder, balances
  <1>7. CASE SaveCheckpoint
    <2>1. cpc = "save" /\ cpc' = "pop" /\ previousCheckpoint' = candidate /\ UNCHANGED balances
      BY <1>7 DEF SaveCheckpoint, StoreCheckpoint
    <2>2. BalancesAt' = BalancesAt
      BY <2>1 DEF BalancesAt
    <2> QED
      BY <1>6, <2>1, <2>2
  <1>8. CASE QueryCreated
    <2>1. /\ cpc = "created" /\ createdDelta' = DeltaTxs(previousCheckpoint, candidate)
          /\ cpc' = "spent" /\ UNCHANGED <<candidate, previousCheckpoint, balances>>
      BY <1>8 DEF QueryCreated
    <2>2. BalancesAt' = BalancesAt
      BY <2>1 DEF BalancesAt
    <2> QED
      BY <1>4, <1>6, <2>1, <2>2
  <1>9. CASE Tick
    <2>1. UNCHANGED <<cpc, candidate, previousCheckpoint, createdDelta, balances>>
      BY <1>9 DEF Tick
    <2>2. BalancesAt' = BalancesAt
      BY <2>1 DEF BalancesAt
    <2> QED
      BY <1>6, <2>1, <2>2 DEF CreditsInOrder
  <1>10. CASE PopCheckpoint \/ Sleep \/ AwaitConfirmation \/ CheckpointExit
    <2>1. /\ cpc \in {"pop", "sleep"} /\ cpc' \in {"pop", "sleep", "created", "exited"}
          /\ UNCHANGED <<previousCheckpoint, balances>>
      BY <1>10 DEF PopCheckpoint, Sleep, AwaitConfirmation, CheckpointExit, Evaluate
    <2>2. BalancesAt' = BalancesAt
      BY <2>1 DEF BalancesAt
    <2> QED
      BY <1>6, <2>1, <2>2
  <1>11. ~FailUpdate
    BY DEF FailUpdate
  <1> QED
    BY <1>5, <1>7, <1>8, <1>9, <1>10, <1>11
       DEF CheckpointStep, CheckpointNext, CheckpointWork

\* Every step within the first run.
LEMMA NextCredits ==
  ASSUME ~DbFaults, TypeOK, FirstRunFollows, ChainOrder, FirstRunCredits, [Next]_vars
  PROVE  FirstRunCredits'
  <1> SUFFICES ASSUME restarts' = 0 PROVE CreditsInOrder'
    BY DEF FirstRunCredits
  <1>1. restarts = 0 /\ ~Restart /\ CreditsInOrder
    BY FirstRunStep DEF FirstRunCredits
  <1>2. CASE CheckpointStep
    BY <1>1, <1>2, CheckpointCredits
  <1>3. CASE ~CheckpointStep
    <2>1. UNCHANGED <<checkpointVars, balances>>
      BY <1>1, <1>3 DEF Next, NodeStep, FetcherStep, FetcherFrame, BlockProcStep, BlockProcFrame,
             TxProcStep, TxProcFrame, VcpStep, VcpFrame, Signal, Terminated, vars, durable
    <2>2. acceptances \subseteq acceptances'
      BY AcceptancesGrow
    <2>3. AcceptedOnce'
      <3>1. CASE AcceptTransactions
        BY <1>1, <3>1, AcceptOnce DEF CreditsInOrder
      <3>2. CASE ~AcceptTransactions
        <4>1. acceptances' \subseteq acceptances
          BY <3>2, RowsOnlyAccepted
        <4> QED
          BY <1>1, <4>1 DEF CreditsInOrder, AcceptedOnce
      <3> QED
        BY <3>1, <3>2
    <2> QED
      BY <1>1, <2>1, <2>2, <2>3, CreditsFrame
  <1> QED
    BY <1>2, <1>3

\* Until the process is first killed, everything credited or debited so far
\* was accepted up to the block the balances are at, and everything about to
\* be credited after it: the inductive invariant.
THEOREM CreditsInvariant ==
  ASSUME ~DisableVirtualChainProcessing, ~DbFaults
  PROVE  Spec /\ ReorgsAreShallow => []FirstRunCredits
  <1>1. Init => FirstRunCredits
    <2> SUFFICES ASSUME Init PROVE CreditsInOrder
      BY DEF FirstRunCredits
    <2>1. /\ acceptances = {} /\ cpc = "pop"
          /\ \A t \in Tx : outputsCredited[t] = 0 /\ inputsDebited[t] = 0
      BY DEF Init, StoreInit, CheckpointInit
    <2> QED
      BY <2>1 DEF CreditsInOrder, AcceptedOnce
  <1>2. TypeOK /\ FirstRunFollows /\ ChainOrder /\ FirstRunCredits /\ [Next]_vars
          => FirstRunCredits'
    BY NextCredits
  <1> QED
    BY <1>1, <1>2, TypeCorrect, FirstRunInvariant, CheckpointOrderInvariant, PTL DEF Spec

\* Without the virtual chain processor the balances do not move at all.
LEMMA IdleBalances ==
  ASSUME DisableVirtualChainProcessing
  PROVE  Spec => []BalancesIdle
  <1>1. Init => BalancesIdle
    BY DEF Init, VcpInit, StoreInit, CheckpointInit, BalancesIdle
  <1>2. BalancesIdle /\ [Next]_vars => BalancesIdle'
    <2> SUFFICES ASSUME BalancesIdle, [Next]_vars PROVE BalancesIdle'
      OBVIOUS
    <2> USE DEF BalancesIdle
    <2>1. ~VcpStep
      BY DEF VcpStep, VcpNext, PollVirtualChain, CatchUp, WaitLonger, RemoveChainBlocks,
             AcceptTransactions, AddChainBlocks, PushVcpCheckpoint, VcpExit
    <2>2. CASE CheckpointStep
      <3>1. UNCHANGED <<vpc, acceptances>>
        BY <2>2 DEF CheckpointStep, CheckpointFrame, vcpVars, tables
      <3>2. DeltaTxs(previousCheckpoint, candidate) = {}
        BY DEF DeltaTxs
      <3>3. createdDelta' = {} /\ \A t \in Tx : outputsCredited'[t] = 0 /\ inputsDebited'[t] = 0
        BY <2>2, <3>2
           DEF CheckpointStep, CheckpointNext, CheckpointWork, PopCheckpoint, Sleep,
               AwaitConfirmation, QueryCreated, ApplyDeltas, UpdateBalancesIncremental,
               SaveCheckpoint, CheckpointExit, FailUpdate, Tick, balances
      <3> QED
        BY <3>1, <3>3
    <2>3. CASE BlockProcStep
      <3>1. acceptances' \subseteq acceptances
        BY <2>3 DEF BlockProcStep, BlockProcNext, PopBlock, InsertBlocks, InsertBlockParents,
               ClearAcceptances, FinishCommit, PushBlockCheckpoint, BlockProcExit,
               DeleteAcceptances
      <3> QED
        BY <2>3, <3>1 DEF BlockProcStep, BlockProcFrame, vcpVars, checkpointVars, balances
    <2>4. CASE Restart
      BY <2>4 DEF Restart, VcpReset, CheckpointReset, durable, tables, balances
    <2>5. CASE ~CheckpointStep /\ ~BlockProcStep /\ ~Restart
      <3>1. UNCHANGED <<vpc, acceptances, createdDelta, outputsCredited, inputsDebited>>
        BY <2>1, <2>5
           DEF Next, NodeStep, FetcherStep, FetcherFrame, TxProcStep, TxProcFrame, Signal,
               Terminated, vars, durable, tables, balances, vcpVars, checkpointVars
      <3> QED
        BY <3>1
    <2> QED
      BY <2>2, <2>3, <2>4, <2>5
  <1> QED
    BY <1>1, <1>2, PTL DEF Spec

\* No transaction moves a balance twice before the process is first killed,
\* if no query fails and no reorg is deeper than the confirmations asked for.
\* (Each of the three conditions is needed: a kill or a failed save between
\* the update and the save repeats the update, and a deep reorg lets another
\* block accept a transaction that was credited.)
THEOREM CreditedOnce ==
  ASSUME ~DbFaults
  PROVE  Spec /\ ReorgsAreShallow => [](restarts = 0 => NoDoubleCredit)
  <1>1. CASE DisableVirtualChainProcessing
    <2>1. BalancesIdle => NoDoubleCredit
      BY DEF BalancesIdle, NoDoubleCredit
    <2> QED
      BY <1>1, <2>1, IdleBalances, PTL
  <1>2. CASE ~DisableVirtualChainProcessing
    <2>1. FirstRunCredits => (restarts = 0 => NoDoubleCredit)
      BY DEF FirstRunCredits, CreditsInOrder, NoDoubleCredit
    <2> QED
      BY <1>2, <2>1, CreditsInvariant, PTL
  <1> QED
    BY <1>1, <1>2
=============================================================================
