----------------------- MODULE VirtualChainProcessor -----------------------
(***************************************************************************)
(* process_virtual_chain: follows the virtual selected parent chain of the *)
(* node.  Each round it removes the acceptances of blocks that left the    *)
(* chain, writes those of blocks that joined it, and offers the last of    *)
(* them as a checkpoint.  The task is not spawned with                     *)
(* --disable=virtual_chain_processing.                                     *)
(***************************************************************************)
EXTENDS Store

CONSTANTS
  DynamicTipDistance,   \* --enable=dynamic_vcp_tip_distance
  InitialTipDistance,   \* tip_distance to begin with when dynamic (10)
  TipWindow,            \* tip_distance_window
  ReorgsToBackOff,      \* reorgs in the window that increase it (3)
  VcpSyncedBelow,       \* synced below this many added blocks (200)
  CatchUpWindow         \* 60 * net_bps

ASSUME VirtualChainProcessorAssumption ==
  /\ DynamicTipDistance \in BOOLEAN
  /\ {InitialTipDistance, VcpSyncedBelow} \subseteq Nat
  /\ {TipWindow, ReorgsToBackOff, CatchUpWindow} \subseteq Nat \ {0}

VARIABLES
  vpc,           \* "poll", "wait", "behind", "remove", "accept", "push",
                 \* "exited" or "disabled"
  startHash,     \* start_hash
  vcpRemoved,    \* removed_chain_block_hashes of the response
  vcpAdded,      \* added_chain_block_hashes of the response
  rowsRemoved,   \* whether this round removed acceptance rows
  tipDistance,   \* tip_distance
  tipHistory,    \* tip_distance_history, newest first
  vcpSynced      \* synced

vcpVars == <<vpc, startHash, vcpRemoved, vcpAdded, rowsRemoved, tipDistance,
             tipHistory, vcpSynced>>

VcpInit(checkpoint) ==
  /\ vpc = IF DisableVirtualChainProcessing THEN "disabled" ELSE "poll"
  /\ startHash = checkpoint
  /\ vcpRemoved = {}
  /\ vcpAdded = <<>>
  /\ rowsRemoved = FALSE
  /\ tipDistance = IF DynamicTipDistance THEN InitialTipDistance ELSE 0
  /\ tipHistory = <<>>
  /\ vcpSynced = FALSE

\* The same, when the process is started again.
VcpReset(checkpoint) ==
  /\ vpc' = IF DisableVirtualChainProcessing THEN "disabled" ELSE "poll"
  /\ startHash' = checkpoint
  /\ vcpRemoved' = {}
  /\ vcpAdded' = <<>>
  /\ rowsRemoved' = FALSE
  /\ tipDistance' = IF DynamicTipDistance THEN InitialTipDistance ELSE 0
  /\ tipHistory' = <<>>
  /\ vcpSynced' = FALSE

VcpTypeOK ==
  /\ vpc \in {"poll", "wait", "behind", "remove", "accept", "push", "exited", "disabled"}
  /\ startHash \in Block
  /\ vcpRemoved \subseteq Block
  /\ vcpAdded \in Seq(Block)
  /\ vpc \in {"wait", "behind", "remove", "accept", "push"} => Len(vcpAdded) > tipDistance
  /\ rowsRemoved \in BOOLEAN
  /\ tipDistance \in Nat
  /\ tipHistory \in Seq(BOOLEAN)
  /\ Len(tipHistory) <= TipWindow
  /\ vcpSynced \in BOOLEAN

\* The part of the response that is processed: the last tip_distance blocks
\* are left for a later round.
Accepted == SubSeq(vcpAdded, 1, Len(vcpAdded) - tipDistance)

LastAccepting == vcpAdded[Len(vcpAdded) - tipDistance]

\* A round begins once the block processor gave the start.  A round that gets
\* no more blocks than the tip distance only updates the synced flag; an RPC
\* error is a round without a response.
PollVirtualChain ==
  /\ vpc = "poll"
  /\ ~shutdown
  /\ startVcp
  /\ \E added \in AddedChainBlocks(startHash) :
       IF Len(added) > tipDistance
       THEN /\ vcpRemoved' = RemovedChainBlocks(startHash)
            /\ vcpAdded' = added
            /\ vpc' = "wait"
            /\ UNCHANGED vcpSynced
       ELSE /\ vcpSynced' = (vcpSynced \/ Len(added) < VcpSyncedBelow)
            /\ UNCHANGED <<vpc, vcpRemoved, vcpAdded>>
  /\ UNCHANGED <<startHash, rowsRemoved, tipDistance, tipHistory, cpQueue,
                 acceptances, chainRows>>

\* The block processor is not too far behind (the subtraction saturates).
CaughtUp ==
  /\ lastBlock # NoBlock
  /\ DaaScore[LastAccepting] - DaaScore[lastBlock] < CatchUpWindow

\* The wait loop: one look at the block processor's progress, ...
CatchUp ==
  /\ vpc = "wait"
  /\ vpc' = IF CaughtUp THEN "remove" ELSE "behind"
  /\ UNCHANGED <<startHash, vcpRemoved, vcpAdded, rowsRemoved, tipDistance,
                 tipHistory, vcpSynced, cpQueue, acceptances, chainRows>>

\* ... and the sleep before the next one.
WaitLonger ==
  /\ vpc = "behind"
  /\ ~shutdown
  /\ vpc' = "wait"
  /\ UNCHANGED <<startHash, vcpRemoved, vcpAdded, rowsRemoved, tipDistance,
                 tipHistory, vcpSynced, cpQueue, acceptances, chainRows>>

\* Mutant of Stale: nothing is removed.
StaleIgnored == {}

\* The removed blocks that still have rows.
Stale == WithAcceptanceRows(vcpRemoved)

\* remove_chain_blocks: one DELETE of a chunk, as far as it deletes rows.
RemoveChainBlocks ==
  /\ vpc = "remove"
  /\ \/ /\ \E chunk \in (SUBSET Stale) \ {{}} : DeleteAcceptances(chunk)
        /\ rowsRemoved' = TRUE
        /\ UNCHANGED vpc
     \/ /\ Stale = {}
        /\ vpc' = "accept"
        /\ UNCHANGED <<rowsRemoved, acceptances, chainRows>>
  /\ UNCHANGED <<startHash, vcpRemoved, vcpAdded, tipDistance, tipHistory,
                 vcpSynced, cpQueue>>

\* The rows accept_transactions inserts, without those already there.
NewAcceptances == Unmarked(UNION {Accepts[b] \X {b} : b \in Range(Accepted)})

\* accept_transactions: a chunk of the concurrent inserts is committed.
AcceptTransactions ==
  /\ vpc = "accept"
  /\ ~DisableTransactionAcceptance
  /\ \E chunk \in SUBSET NewAcceptances :
       /\ chunk = {} <=> NewAcceptances = {}
       /\ acceptances' = acceptances \cup chunk
       /\ vpc' = IF NewAcceptances \subseteq chunk THEN "push" ELSE "accept"
  /\ UNCHANGED <<startHash, vcpRemoved, vcpAdded, rowsRemoved, tipDistance,
                 tipHistory, vcpSynced, cpQueue, chainRows>>

\* add_chain_blocks: a row without a transaction for every added block.  Such
\* rows never conflict.  (The blocks of a round fit the 500 * batch_scale rows
\* of one INSERT.)
AddChainBlocks ==
  /\ vpc = "accept"
  /\ DisableTransactionAcceptance
  /\ chainRows' = [b \in Block |->
       IF b \in Range(Accepted) THEN chainRows[b] + 1 ELSE chainRows[b]]
  /\ vpc' = "push"
  /\ UNCHANGED <<startHash, vcpRemoved, vcpAdded, rowsRemoved, tipDistance,
                 tipHistory, vcpSynced, cpQueue, acceptances>>

\* The history after this round, newest first.
TipHistory == <<rowsRemoved>> \o SubSeq(tipHistory, 1,
                IF Len(tipHistory) = TipWindow THEN TipWindow - 1 ELSE Len(tipHistory))

Reorgs(history) == Cardinality({i \in DOMAIN history : history[i]})

\* Dynamic tip distance: more distance after several reorgs in the window, ...
BackOff == Reorgs(TipHistory) >= ReorgsToBackOff

\* Mutant of Advance: without the guard against underflow.
AdvanceUnguarded == ~BackOff /\ vcpSynced /\ Reorgs(TipHistory) = 0

\* ... less when the window shows none.
Advance == ~BackOff /\ vcpSynced /\ Reorgs(TipHistory) = 0 /\ tipDistance > 0

\* A change marks the newest entry of the history, so that the next one waits.
AdjustTipDistance ==
  \/ /\ ~DynamicTipDistance
     /\ UNCHANGED <<tipDistance, tipHistory>>
  \/ /\ DynamicTipDistance /\ BackOff
     /\ tipDistance' = tipDistance + 1
     /\ tipHistory' = [TipHistory EXCEPT ![1] = FALSE]
  \/ /\ DynamicTipDistance /\ Advance
     /\ tipDistance' = tipDistance - 1
     /\ tipHistory' = IF Len(TipHistory) = TipWindow
                      THEN [TipHistory EXCEPT ![1] = TRUE]
                      ELSE TipHistory
  \/ /\ DynamicTipDistance /\ ~BackOff /\ ~Advance
     /\ tipHistory' = TipHistory
     /\ UNCHANGED tipDistance

\* The end of a round.  Waits while the queue is full, whatever the shutdown
\* flag.
PushVcpCheckpoint ==
  /\ vpc = "push"
  /\ AdjustTipDistance
  /\ PushCheckpoint("Vcp", LastAccepting)
  /\ startHash' = LastAccepting
  /\ vcpSynced' = (vcpSynced \/ Len(vcpAdded) < VcpSyncedBelow)
  /\ vpc' = "poll"
  /\ vcpRemoved' = {}
  /\ vcpAdded' = <<>>
  /\ rowsRemoved' = FALSE
  /\ UNCHANGED <<acceptances, chainRows>>

\* Mutant of VcpExit: the wait loop does not look at the shutdown flag.
VcpExitBetweenRounds ==
  /\ shutdown
  /\ vpc = "poll"
  /\ vpc' = "exited"
  /\ UNCHANGED <<startHash, vcpRemoved, vcpAdded, rowsRemoved, tipDistance,
                 tipHistory, vcpSynced, cpQueue, acceptances, chainRows>>

\* The shutdown flag ends the loop between two rounds, and the wait for the
\* block processor after a sleep.
VcpExit ==
  /\ shutdown
  /\ vpc \in {"poll", "behind"}
  /\ vpc' = "exited"
  /\ UNCHANGED <<startHash, vcpRemoved, vcpAdded, rowsRemoved, tipDistance,
                 tipHistory, vcpSynced, cpQueue, acceptances, chainRows>>

VcpNext ==
  \/ PollVirtualChain
  \/ CatchUp
  \/ WaitLonger
  \/ RemoveChainBlocks
  \/ AcceptTransactions
  \/ AddChainBlocks
  \/ PushVcpCheckpoint
  \/ VcpExit
=============================================================================
