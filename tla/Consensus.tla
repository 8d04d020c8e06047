----------------------------- MODULE Consensus -----------------------------
(***************************************************************************)
(* The vecnod node the indexer reads from.  The node is a separate         *)
(* program: this module models what the indexer's RPC calls rely on        *)
(* (getBlocks, getBlockDagInfo, getVirtualChainFromBlock), and nothing     *)
(* else of the node.                                                       *)
(*                                                                         *)
(* The block DAG is a constant: every block the network will ever produce, *)
(* with its strict past, its selected-parent chain and the transactions it *)
(* carries and accepts.  What changes is the set of blocks the node has    *)
(* received so far, and with it the virtual selected parent (the sink).    *)
(***************************************************************************)
EXTENDS Integers, Sequences, FiniteSets, Functions

CONSTANTS
  Block,            \* the blocks of the DAG
  Tx,               \* the transactions
  NoBlock,          \* "no block": None of the code's Option<CheckpointBlock>
  Start,            \* the pruning point the first start of the indexer uses
  InitiallyKnown,   \* the blocks the node has at that moment
  Past,             \* Past[b]: the blocks reachable from b by parent links
  SelChain,         \* SelChain[b]: b and its chain of selected parents
  BlueWork,         \* total order (ties broken by hash) that elects the sink
  BlueScore,        \* blue score of the header
  DaaScore,         \* DAA score of the header
  TxsOf,            \* TxsOf[b]: the transactions in the body of b
  Accepts,          \* Accepts[b]: the transactions chain block b accepts
  FetchLimit,       \* most blocks one getBlocks response holds
  MinConfirmations  \* min_confirmation_count of getVirtualChainFromBlock

\* Only what is before the pruning point is missing from Past: the past of
\* Start is empty, and every other block has Start in its past.
ASSUME ConsensusAssumption ==
  /\ IsFiniteSet(Block)
  /\ Start \in Block
  /\ NoBlock \notin Block
  /\ Start \in InitiallyKnown
  /\ InitiallyKnown \subseteq Block
  /\ Past \in [Block -> SUBSET Block]
  /\ Past[Start] = {}
  /\ \A b \in Block : \A p \in Past[b] : Past[p] \subseteq Past[b]
  /\ TxsOf \in [Block -> SUBSET Tx]
  /\ FetchLimit \in Nat \ {0}

\* A selected chain is a chain, blue work grows along parents and blue score
\* along selected parents, and a chain accepts a transaction once.
ASSUME ChainAssumption ==
  /\ \A b \in InitiallyKnown : Past[b] \subseteq InitiallyKnown
  /\ SelChain \in [Block -> SUBSET Block]
  /\ \A b \in Block : /\ {b, Start} \subseteq SelChain[b]
                      /\ SelChain[b] \subseteq Past[b] \cup {b}
                      /\ \A c \in SelChain[b] : SelChain[c] \subseteq SelChain[b]
                      /\ \A c, d \in SelChain[b] : c \in SelChain[d] \/ d \in SelChain[c]
  /\ {BlueWork, BlueScore, DaaScore} \subseteq [Block -> Nat]
  /\ \A b \in Block : \A p \in Past[b] : BlueWork[p] < BlueWork[b]
  /\ IsInjective(BlueWork)
  /\ \A b \in Block : \A c \in SelChain[b] \ {b} : BlueScore[c] < BlueScore[b]
  /\ Accepts \in [Block -> SUBSET Tx]
  /\ \A b \in Block : \A c, d \in SelChain[b] \ {Start} :
        c # d => Accepts[c] \cap Accepts[d] = {}
  /\ MinConfirmations \in Nat

VARIABLE known      \* the blocks the node has received

ConsensusInit == known = InitiallyKnown

\* The node receives a block whose past it has.
AddBlock(b) ==
  /\ b \notin known
  /\ Past[b] \subseteq known
  /\ known' = known \cup {b}

\* The virtual selected parent: the known block with the most blue work.
Sink == CHOOSE b \in known : \A c \in known : BlueWork[c] <= BlueWork[b]

\* tip_hashes of getBlockDagInfo.
Tips == {b \in known : \A c \in known : b \notin Past[c]}

\* Sequences of distinct blocks in which no block comes before its past.
TopologicalSeqs ==
  LET Ordered(s) == \A i, j \in DOMAIN s :
                       i < j => s[i] # s[j] /\ s[j] \notin Past[s[i]]
  IN  UNION {{s \in [1..n -> Block] : Ordered(s)} : n \in 0..Cardinality(Block)}

\* The elements of a sequence before position i.
Before(s, i) == {s[j] : j \in 1..(i-1)}

\* The responses of getBlocks(low): low itself, then blocks outside the past
\* of low, each after the blocks of its own past, until the limit is reached
\* or no block is left.  The order among unrelated blocks is the node's.
GetBlocks(low) ==
  {s \in TopologicalSeqs :
     /\ Len(s) \in 1..FetchLimit
     /\ s[1] = low
     /\ \A i \in DOMAIN s : /\ s[i] \in known
                            /\ Past[s[i]] \subseteq Past[low] \cup Before(s, i)
     /\ Len(s) = FetchLimit \/ known \ Past[low] \subseteq Range(s)}

\* removed_chain_block_hashes of getVirtualChainFromBlock(from).
RemovedChainBlocks(from) == SelChain[from] \ SelChain[Sink]

\* added_chain_block_hashes: the selected chain from the last block it has in
\* common with the chain of `from' to the sink, without the blocks that have
\* fewer than MinConfirmations confirmations; oldest first.  (A set with one
\* element, as the blocks of a chain have only one topological order.)
AddedChainBlocks(from) ==
  LET added == {b \in SelChain[Sink] \ SelChain[from] :
                  BlueScore[Sink] - BlueScore[b] >= MinConfirmations}
  IN  {s \in TopologicalSeqs : Range(s) = added}
=============================================================================
