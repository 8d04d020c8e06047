--------------------------- MODULE CheckpointOrder ---------------------------
(***************************************************************************)
(* How the checkpoint moves along the selected chain, and why no balance   *)
(* moves twice: the inductive invariants behind CheckpointNeverRegresses   *)
(* and NoDoubleCredit, when the virtual chain processor runs.              *)
(*                                                                         *)
(* The processor asks for chain blocks with a minimum of confirmations.    *)
(* That is worth something only if a chain block that once had them stays  *)
(* on the chain: no reorg is deeper than that minimum.  The node does not  *)
(* promise it, so it is a hypothesis on the behaviour of the network here. *)
(***************************************************************************)
EXTENDS ChainFollowing

\* A chain block with the confirmations the virtual chain processor asks for.
Confirmed(b) ==
  /\ b \in SelChain[Sink]
  /\ BlueScore[Sink] - BlueScore[b] >= MinConfirmations

\* No reorg reaches a block that has them.
ShallowReorg == \A b \in Block : Confirmed(b) => Confirmed(b)'

ReorgsAreShallow == [][ShallowReorg]_vars

\* The pruning point is taken without confirmations.
Anchored(b) == b = Start \/ Confirmed(b)

\* The reports the checkpoint processor may take as candidate.
Offered == {i \in 1..Len(cpQueue) : Offers(cpQueue[i].origin)}

\* The virtual chain processor only moves forward, and never has to remove.
RoundsForward ==
  /\ Anchored(startHash)
  /\ vpc \in Round =>
       /\ Anchored(LastAccepting)
       /\ startHash \in SelChain[LastAccepting]
       /\ vcpRemoved = {}

\* What it offered lies on its chain, in the order it was offered, ...
OffersForward ==
  /\ \A i \in Offered : cpQueue[i].hash \in SelChain[startHash]
  /\ \A i, j \in Offered : i < j => cpQueue[i].hash \in SelChain[cpQueue[j].hash]

\* ... and after the saved checkpoint and the candidate.
BehindOffers(b) ==
  /\ b \in SelChain[startHash]
  /\ \A i \in Offered : b \in SelChain[cpQueue[i].hash]

CheckpointBehind ==
  /\ BehindOffers(blockCheckpoint)
  /\ candidate # NoBlock =>
       BehindOffers(candidate) /\ blockCheckpoint \in SelChain[candidate]
  /\ previousCheckpoint = blockCheckpoint

\* The invariant: saved checkpoint, candidate, queue and start_hash follow one
\* another on the selected chain.
ChainOrder == RoundsForward /\ OffersForward /\ CheckpointBehind

\* A step keeps the old checkpoint on the chain of the new one.
AdvanceCheckpoint == blockCheckpoint \in SelChain[blockCheckpoint']

\* The saved checkpoint moves forward along the selected chain and in no other
\* direction, across failed saves, forced saves and restarts: whatever was
\* below it stays below it (checkpoint.rs, process_checkpoints).
CheckpointAdvances == [][AdvanceCheckpoint]_vars

\* The acceptance rows are rows of chain blocks that were confirmed when the
\* rows were written.
RowsAnchored == acceptances \subseteq AcceptanceRows({b \in Block \ {Start} : Anchored(b)})

\* No row is stale: whatever a killed run left behind, a transaction is marked
\* accepted only by the block of the selected chain that accepts it
\* (process_virtual_chain.rs, accept_transactions).
NoStaleRows == acceptances \subseteq ChainAcceptances(Sink)
-----------------------------------------------------------------------------
\* Transaction t was accepted by a block with a blue score above that of the
\* block from, if there is one, and not above that of the block to.
AcceptedUpTo(t, to) ==
  \E b \in Block : <<t, b>> \in acceptances /\ BlueScore[b] <= BlueScore[to]

AcceptedBetween(t, from, to) ==
  \E b \in Block : /\ <<t, b>> \in acceptances
                   /\ BlueScore[from] < BlueScore[b]
                   /\ BlueScore[b] <= BlueScore[to]

\* A transaction has one accepting block.
AcceptedOnce == \A r, q \in acceptances : r[1] = q[1] => r = q

\* The block up to which the balances are.
BalancesAt == IF cpc = "save" THEN candidate ELSE previousCheckpoint

\* What was credited or debited lies before that block, what is about to be
\* credited after it.
CreditsInOrder ==
  /\ AcceptedOnce
  /\ \A t \in Tx : /\ outputsCredited[t] <= 1 /\ inputsDebited[t] <= 1
                   /\ outputsCredited[t] = 1 => AcceptedUpTo(t, BalancesAt)
                   /\ inputsDebited[t] = 1 => AcceptedUpTo(t, BalancesAt)
  /\ cpc = "spent" =>
       \A t \in createdDelta : AcceptedBetween(t, previousCheckpoint, candidate)

\* The invariant, until the process is first killed: a kill between the
\* update of the balances and the save of the checkpoint repeats the update.
FirstRunCredits == restarts = 0 => CreditsInOrder

\* Without the virtual chain processor nothing is ever marked accepted, and
\* the balances do not move.
BalancesIdle ==
  /\ vpc = "disabled"
  /\ acceptances = {}
  /\ createdDelta = {}
  /\ \A t \in Tx : outputsCredited[t] = 0 /\ inputsDebited[t] = 0
=============================================================================
