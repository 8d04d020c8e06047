------------------------- MODULE RetentionInvariant -------------------------
(***************************************************************************)
(* Why the pruner deletes nothing that is still needed: the inductive      *)
(* invariant behind UnsettledKept, UtxoSetStored and NoOrphanRows.         *)
(*                                                                         *)
(* All of it rests on how the cutoffs lie.  That of the blocks is not      *)
(* above the timestamp of the saved checkpoint, unless the indexer is that *)
(* far behind.  That of the transactions is below it, as the guard         *)
(* pruning_point_is_passed was true when the step began, unless the        *)
(* checkpoint it read was not saved.  What has been settled by the         *)
(* checkpoint may go, and nothing the tasks write later is too old.        *)
(***************************************************************************)
EXTENDS Retention

\* How far the tasks are.
TasksInOrder ==
  /\ saved <= followed
  /\ storedParents <= stored
  /\ "early" \notin lapses => saved - 1 <= storedParents /\ saved - 1 <= storedTxs

\* The step the pruner is in.
StepInOrder ==
  /\ ppc # "idle" /\ Enabled("blocks") /\ "behind" \notin lapses =>
       Cutoff("blocks") <= Timestamp[saved]
  /\ inStep => ppc \in PruneStep /\ Enabled(ppc)
  /\ inStep /\ ppc = "transactions" =>
       /\ "unsaved" \notin lapses => Cutoff(ppc) < Timestamp[saved]
       /\ "narrow" \notin lapses => Cutoff(ppc) + MergeDelay <= Timestamp[saved]

\* Blocks from the checkpoint on have their rows, and so have their
\* transactions.
BlocksHeld == "behind" \notin lapses => saved .. stored \subseteq rows["blocks"]

RecentHeld ==
  "unsaved" \notin lapses =>
    \A t \in Tx : BlockOf[t] \in saved .. storedTxs =>
      t \in transactions \cap inputs /\ OutputsOf[t] \subseteq outputs

\* Transactions not yet settled have theirs.
TxsHeld ==
  \A t \in Tx : BlockOf[t] <= storedTxs /\ saved < AcceptedBy[t] /\ AcceptedBy[t] # Never =>
    t \in transactions \cap inputs

\* Acceptances are those of the ledger.
AcceptancesTrue ==
  \A t \in Tx, k \in Point : <<t, k>> \in rows["transactions_acceptances"] => AcceptedBy[t] = k

\* An accepted transaction without its acceptance is spent altogether.
AcceptancesHeld ==
  \A t \in Tx : AcceptedBy[t] <= followed =>
    \/ <<t, AcceptedBy[t]>> \in rows["transactions_acceptances"]
    \/ \A o \in OutputsOf[t] : SpentAt(saved, o)

\* Outputs of accepted transactions are stored until they are spent.
OutputsHeld ==
  \A t \in Tx : (BlockOf[t] <= storedTxs \/ AcceptedBy[t] <= saved) /\ AcceptedBy[t] # Never =>
    \A o \in OutputsOf[t] : ~SpentAt(saved, o) => o \in outputs

LedgerHeld ==
  ~DisableTransactionAcceptance /\ lapses \cap {"narrow", "early"} = {} =>
    TxsHeld /\ AcceptancesHeld /\ OutputsHeld

\* Whatever keeps blocks also keeps the rows that refer to them.
PrunedTogether ==
  \/ ExcludeBlockTimestamp
  \/ ~Enabled("blocks")
  \/ Enabled("block_parent") /\ Enabled("blocks_transactions")

\* When the blocks are about to be pruned, the rows that refer to them are gone.
ReferrersPruned ==
  ~ExcludeBlockTimestamp /\ Enabled("blocks") =>
    /\ ppc \in {"blocks_transactions", "blocks"} =>
         \A k \in rows["block_parent"] : Timestamp[k] >= Cutoff("blocks")
    /\ ppc = "blocks" =>
         \A row \in rows["blocks_transactions"] :
           row[1] <= stored => Timestamp[row[1]] >= Cutoff("blocks")

RowsInOrder ==
  ~stepFailed /\ lapses \cap {"behind", "early"} = {} /\ PrunedTogether =>
    NoOrphanRows /\ ReferrersPruned

\* The invariant.
RetentionSound ==
  /\ TasksInOrder
  /\ StepInOrder
  /\ BlocksHeld
  /\ RecentHeld
  /\ AcceptancesTrue
  /\ LedgerHeld
  /\ RowsInOrder
=============================================================================
