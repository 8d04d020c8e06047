---------------------------- MODULE BlockFetcher ----------------------------
(***************************************************************************)
(* VecnoBlocksFetcher: polls the node with getBlocks(low_hash) and hands   *)
(* every block it has not seen lately to the block processor and to the    *)
(* transaction processor, in the order of the response.                    *)
(***************************************************************************)
EXTENDS Store

CONSTANT EvictCaches   \* whether the time to live of cache entries may expire

VARIABLES
  fpc,          \* "fetch", "tips", "handle", "push_txs" or "exited"
  pending,      \* blocks of the response not handled yet
  lowHash,      \* low_hash
  synced,       \* synced
  tipHashes,    \* tip_hashes
  blockCache    \* block_cache

fetcherVars == <<fpc, pending, lowHash, synced, tipHashes, blockCache>>

FetcherInit(checkpoint) ==
  /\ fpc = "fetch"
  /\ pending = <<>>
  /\ lowHash = checkpoint
  /\ synced = FALSE
  /\ tipHashes = {}
  /\ blockCache = {}

\* The same, when the process is started again.
FetcherReset(checkpoint) ==
  /\ fpc' = "fetch"
  /\ pending' = <<>>
  /\ lowHash' = checkpoint
  /\ synced' = FALSE
  /\ tipHashes' = {}
  /\ blockCache' = {}

FetcherTypeOK ==
  /\ fpc \in {"fetch", "tips", "handle", "push_txs", "exited"}
  /\ pending \in Seq(Block)
  /\ fpc \in {"tips", "handle", "push_txs"} <=> pending # <<>>
  /\ lowHash \in Block
  /\ synced \in BOOLEAN
  /\ tipHashes \subseteq Block
  /\ blockCache \subseteq Block

\* A response that holds low_hash alone is not handled.
Handle(blocks) ==
  IF Len(blocks) > 1
  THEN fpc' = "handle" /\ pending' = blocks
  ELSE fpc' = "fetch" /\ pending' = <<>>

\* One round of the polling loop: a response arrives.  While the fetcher is
\* not synced the tips are refreshed first, though not in every round (at most
\* every 30 s, only after a short response, and the call may fail).  An RPC
\* error is a round without a response.
FetchBlocks ==
  /\ fpc = "fetch"
  /\ ~shutdown
  /\ \E blocks \in GetBlocks(lowHash) :
       \/ ~synced /\ fpc' = "tips" /\ pending' = blocks
       \/ Handle(blocks)
  /\ UNCHANGED <<lowHash, synced, tipHashes, blockCache, blocksQueue, txsQueue>>

\* The tips arrive; the node may have grown since the response.
RefreshTips ==
  /\ fpc = "tips"
  /\ tipHashes' = Tips
  /\ Handle(pending)
  /\ UNCHANGED <<lowHash, synced, blockCache, blocksQueue, txsQueue>>

\* The fetcher is synced once it meets a tip of the DAG.
FindTip == synced' = (synced \/ Head(pending) \in tipHashes)

\* Mutant of NextBlock: the end of the response is noticed too late.
NextBlockOffByOne ==
  /\ pending' = Tail(pending)
  /\ fpc' = "handle"
  /\ UNCHANGED lowHash

\* End of the loop body; after the last block, low_hash is that block.
NextBlock ==
  /\ pending' = Tail(pending)
  /\ IF Len(pending) = 1
     THEN fpc' = "fetch" /\ lowHash' = Head(pending)
     ELSE fpc' = "handle" /\ UNCHANGED lowHash

IgnoreKnownBlock ==
  /\ fpc = "handle"
  /\ Head(pending) \in blockCache
  /\ FindTip
  /\ NextBlock
  /\ UNCHANGED <<tipHashes, blockCache, blocksQueue, txsQueue>>

\* Waits while the queue is full.
PushBlock ==
  /\ fpc = "handle"
  /\ Head(pending) \notin blockCache
  /\ ~shutdown
  /\ Len(blocksQueue) < QueueCapacity
  /\ FindTip
  /\ blocksQueue' = Append(blocksQueue, [hash |-> Head(pending), synced |-> synced'])
  /\ fpc' = "push_txs"
  /\ UNCHANGED <<pending, lowHash, tipHashes, blockCache, txsQueue>>

\* Mutant of PushTxs: a full queue loses the block.
PushTxsLossy ==
  /\ fpc = "push_txs"
  /\ ~shutdown
  /\ txsQueue' = IF Len(txsQueue) < QueueCapacity
                 THEN Append(txsQueue, Head(pending)) ELSE txsQueue
  /\ blockCache' = blockCache \cup {Head(pending)}
  /\ NextBlock
  /\ UNCHANGED <<synced, tipHashes, blocksQueue>>

\* Waits while the queue is full, also when nobody reads it
\* (--disable=transaction_processing).
PushTxs ==
  /\ fpc = "push_txs"
  /\ ~shutdown
  /\ Len(txsQueue) < QueueCapacity
  /\ txsQueue' = Append(txsQueue, Head(pending))
  /\ blockCache' = blockCache \cup {Head(pending)}
  /\ NextBlock
  /\ UNCHANGED <<synced, tipHashes, blocksQueue>>

\* After the signal the push loops are left at once, without a push; the
\* block still enters the cache and low_hash still advances.
AbandonBlock ==
  /\ shutdown
  /\ \/ fpc = "handle" /\ Head(pending) \notin blockCache /\ FindTip
     \/ fpc = "push_txs" /\ UNCHANGED synced
  /\ blockCache' = blockCache \cup {Head(pending)}
  /\ NextBlock
  /\ UNCHANGED <<tipHashes, blocksQueue, txsQueue>>

\* The time to live of a cache entry expires.  A response names a block only
\* once, so an entry that expires while a response is handled might as well
\* have expired before it (if it is looked up again) or after it.
EvictBlock ==
  /\ EvictCaches
  /\ fpc = "fetch"
  /\ \E b \in blockCache : blockCache' = blockCache \ {b}
  /\ UNCHANGED <<fpc, pending, lowHash, synced, tipHashes, blocksQueue, txsQueue>>

FetcherExit ==
  /\ fpc = "fetch"
  /\ shutdown
  /\ fpc' = "exited"
  /\ UNCHANGED <<pending, lowHash, synced, tipHashes, blockCache, blocksQueue, txsQueue>>

\* What the task does by itself.
FetcherWork ==
  \/ FetchBlocks
  \/ RefreshTips
  \/ IgnoreKnownBlock
  \/ PushBlock
  \/ PushTxs
  \/ AbandonBlock
  \/ FetcherExit

FetcherNext == FetcherWork \/ EvictBlock
=============================================================================
