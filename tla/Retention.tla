----------------------------- MODULE Retention -----------------------------
(***************************************************************************)
(* The pruner next to the tasks that fill the tables it prunes.            *)
(*                                                                         *)
(* The tasks are reduced to what the pruner can meet: a selected chain of  *)
(* blocks 1, 2, ..., how far each task got along it, and the rows it wrote *)
(* on the way.  Their queues, batches and caches and the reorgs they       *)
(* handle are the subject of Indexer.  The pruner shares nothing with them *)
(* but the tables and the checkpoint in the metrics; nothing keeps the     *)
(* tasks, or the checkpoint, close to the present.                         *)
(***************************************************************************)
EXTENDS Pruner

CONSTANTS
  AcceptedBy,    \* AcceptedBy[t]: the chain block that accepts t, or Never
  MergeDelay,    \* bound on the time from a transaction to its acceptance
  CatchUp,       \* how far the virtual chain processor may be ahead of stored
  MaxTime,       \* bound on the clock
  AllowSignal,   \* whether the operator may stop the indexer
  MaxFaults      \* bound on the number of restarts, failed saves and failed steps

Never == MaxPoint + 1

\* The ledger: the chain accepts a transaction at most once, after the ones it
\* spends from and never two that spend the same output; block 1 is where the
\* indexer starts.
ASSUME LedgerAssumption ==
  /\ AcceptedBy \in [Tx -> 2..Never]
  /\ \A t \in Tx : AcceptedBy[t] # Never =>
       /\ BlockOf[t] <= AcceptedBy[t]
       /\ Timestamp[AcceptedBy[t]] <= BlockTime[t] + MergeDelay
  /\ \A t, u \in Tx : OutputsOf[t] \cap SpendsOf[u] # {} =>
       BlockOf[t] <= BlockOf[u] /\ (AcceptedBy[u] # Never => AcceptedBy[t] <= AcceptedBy[u])
  /\ \A t, u \in Tx : t # u /\ AcceptedBy[t] # Never /\ AcceptedBy[u] # Never =>
       SpendsOf[t] \cap SpendsOf[u] = {}

ASSUME RetentionAssumption ==
  /\ {MergeDelay, CatchUp, MaxTime, MaxFaults} \subseteq Nat
  /\ AllowSignal \in BOOLEAN

VARIABLES
  now,            \* the clock
  stored,         \* blocks up to here have their rows in blocks,
  storedParents,  \* ... in block_parent,
  storedTxs,      \* ... and their transactions theirs
  followed,       \* start_hash of the virtual chain processor
  saved,          \* block_checkpoint
  faults,
  stepFailed,     \* history: a step of some run failed
  lapses          \* history: what went against the pruner's expectations

taskVars == <<now, stored, storedParents, storedTxs, followed, saved>>
pruned == <<rows, transactions, inputs, outputs>>
vars == <<pruned, metricsCheckpoint, shutdown, pruneVars, taskVars, faults, stepFailed,
          lapses>>

\* What may go wrong without an error:
\*   "behind"  a run began with the saved checkpoint older than the retention of
\*             the blocks, which is not looked at;
\*   "unsaved" transactions were pruned by a checkpoint that could not be saved;
\*   "narrow"  ... by one newer than the cutoff but by less than MergeDelay;
\*   "early"   a checkpoint was saved before the rows up to it were there, as
\*             the block processor is not waited for and the transaction
\*             processor no longer than 120 s.
Lapse == {"behind", "unsaved", "narrow", "early"}

Init ==
  /\ rows = [table \in Table |-> {}]
  /\ transactions = {}
  /\ inputs = {}
  /\ outputs = {}
  /\ metricsCheckpoint = 1
  /\ shutdown = FALSE
  /\ PrunerInit
  /\ now = Timestamp[1]
  /\ stored = 0
  /\ storedParents = 0
  /\ storedTxs = 0
  /\ followed = 1
  /\ saved = 1
  /\ faults = 0
  /\ stepFailed = FALSE
  /\ lapses = {}

\* Something goes wrong.
Fault == faults < MaxFaults /\ faults' = faults + 1

\* Time passes.
Tick ==
  /\ now < MaxTime
  /\ now' = now + 1
  /\ UNCHANGED <<pruned, metricsCheckpoint, shutdown, pruneVars, stored, storedParents,
                 storedTxs, followed, saved, faults, stepFailed, lapses>>

\* The network has found block k.
Found(k) == k <= MaxPoint /\ Timestamp[k] <= now

\* The block processor writes the row of the next block and clears the
\* acceptances an earlier run left for it.
StoreBlock ==
  LET k == stored + 1
  IN  /\ ~shutdown
      /\ Found(k)
      /\ storedParents = stored
      /\ stored' = k
      /\ rows' = [rows EXCEPT !["blocks"] = @ \cup {k},
                              !["transactions_acceptances"] =
                                IF k > followed THEN {row \in @ : row[2] # k} ELSE @]
      /\ UNCHANGED <<transactions, inputs, outputs, metricsCheckpoint, shutdown, pruneVars,
                     now, storedParents, storedTxs, followed, saved, faults, stepFailed,
                     lapses>>

\* ... and those of its parents.
StoreParents ==
  /\ storedParents < stored
  /\ storedParents' = stored
  /\ rows' = [rows EXCEPT !["block_parent"] = @ \cup {stored}]
  /\ UNCHANGED <<transactions, inputs, outputs, metricsCheckpoint, shutdown, pruneVars,
                 now, stored, storedTxs, followed, saved, faults, stepFailed, lapses>>

TxsIn(k) == {t \in Tx : BlockOf[t] = k}

\* The transaction processor writes the rows of the next block's transactions.
StoreTransactions ==
  LET k == storedTxs + 1
  IN  /\ ~shutdown
      /\ Found(k)
      /\ storedTxs' = k
      /\ transactions' = transactions \cup TxsIn(k)
      /\ inputs' = inputs \cup TxsIn(k)
      /\ outputs' = outputs \cup UNION {OutputsOf[t] : t \in TxsIn(k)}
      /\ rows' = [rows EXCEPT !["blocks_transactions"] = @ \cup ({k} \X TxsIn(k)),
                              !["addresses_transactions"] = @ \cup TxsIn(k)]
      /\ UNCHANGED <<metricsCheckpoint, shutdown, pruneVars, now, stored, storedParents,
                     followed, saved, faults, stepFailed, lapses>>

\* The virtual chain processor writes the acceptances of the next chain block,
\* which need not be stored yet.
Follow ==
  LET k == followed + 1
      accepted == IF DisableTransactionAcceptance
                  THEN {NoTx} ELSE {t \in Tx : AcceptedBy[t] = k}
  IN  /\ ~shutdown
      /\ Found(k)
      /\ k <= stored + CatchUp
      /\ followed' = k
      /\ rows' = [rows EXCEPT !["transactions_acceptances"] = @ \cup (accepted \X {k})]
      /\ UNCHANGED <<transactions, inputs, outputs, metricsCheckpoint, shutdown, pruneVars,
                     now, stored, storedParents, storedTxs, saved, faults, stepFailed, lapses>>

\* The checkpoint processor saves a chain block that the virtual chain
\* processor reported.  When the save fails the metrics advance all the same.
SaveCheckpoint ==
  /\ ~shutdown
  /\ \E k \in Max({saved, metricsCheckpoint}) + 1 .. followed :
       /\ metricsCheckpoint' = k
       /\ \/ /\ saved' = k
             /\ lapses' = lapses \cup {l \in {"early"} : k > storedTxs \/ k > storedParents}
             /\ UNCHANGED faults
          \/ Fault /\ UNCHANGED <<saved, lapses>>
  /\ UNCHANGED <<pruned, shutdown, pruneVars, now, stored, storedParents, storedTxs,
                 followed, stepFailed>>

TasksFrame == UNCHANGED <<metricsCheckpoint, shutdown, taskVars>>

PruneStarts ==
  /\ StartPrune(now)
  /\ TasksFrame
  /\ UNCHANGED <<faults, stepFailed>>
  /\ lapses' = lapses \cup
       {l \in {"behind"} : Enabled("blocks") /\ Timestamp[saved] < now - Age("blocks")}

\* What is to be noted when the step of the transactions begins.
StepLapses ==
  {l \in {"unsaved", "narrow"} :
     /\ ppc = "transactions"
     /\ inStep'
     /\ ~inStep
     /\ l = "unsaved" => metricsCheckpoint \notin {saved, NoPoint}
     /\ l = "narrow" => Timestamp[saved] < Cutoff(ppc) + MergeDelay}

PruneProceeds ==
  /\ PruneWork
  /\ TasksFrame
  /\ UNCHANGED <<faults, stepFailed>>
  /\ lapses' = lapses \cup StepLapses

PruneStepFails ==
  /\ FailStep
  /\ Fault
  /\ TasksFrame
  /\ stepFailed' = TRUE
  /\ UNCHANGED lapses

\* handle_signal, first signal.
Signal ==
  /\ AllowSignal
  /\ ~shutdown
  /\ shutdown' = TRUE
  /\ UNCHANGED <<pruned, metricsCheckpoint, pruneVars, taskVars, faults, stepFailed, lapses>>

\* Mutant of Behind: one block too many.
BehindByTwo == saved - 2

\* The blocks a start does not read again: getBlocks answers from the saved
\* checkpoint on, which is read again.
Behind == saved - 1

\* The process ends, whatever its tasks are doing, and is started again.  The
\* checkpoint in the metrics is missing when the node cannot be asked for it.
Restart ==
  /\ Fault
  /\ shutdown' = FALSE
  /\ metricsCheckpoint' \in {saved, NoPoint}
  /\ ppc' = "idle"
  /\ inStep' = FALSE
  /\ startTime' = 0
  /\ stored' = Behind
  /\ storedParents' = Behind
  /\ storedTxs' = Behind
  /\ followed' = saved
  /\ UNCHANGED <<pruned, now, saved, stepFailed, lapses>>

\* After a signal the tasks return and the process ends.
Stopped == shutdown /\ ppc = "idle" /\ storedParents = stored /\ UNCHANGED vars

Next ==
  \/ Tick
  \/ StoreBlock
  \/ StoreParents
  \/ StoreTransactions
  \/ Follow
  \/ SaveCheckpoint
  \/ PruneStarts
  \/ PruneProceeds
  \/ PruneStepFails
  \/ Signal
  \/ Restart
  \/ Stopped

Spec == Init /\ [][Next]_vars

TypeOK ==
  /\ PrunerTypeOK
  /\ now \in Nat
  /\ {stored, storedParents, storedTxs} \subseteq Point \cup {NoPoint}
  /\ {followed, saved} \subseteq Point
  /\ faults \in Nat
  /\ stepFailed \in BOOLEAN
  /\ lapses \subseteq Lapse
-----------------------------------------------------------------------------
\* What the tasks and the next balance update will read is there:
\*   - the rows of the blocks from the saved checkpoint on, unless a run began
\*     when the checkpoint was older than their retention ("behind");
\*   - the rows of the transactions of these blocks, as pruning_point_is_passed
\*     saw to it (prune.rs), unless by a checkpoint not saved ("unsaved");
\*   - of a transaction below the checkpoint that is accepted only above it the
\*     rows and the outputs it spends, unless the checkpoint was newer than the
\*     cutoff by less than MergeDelay ("narrow") or saved before its
\*     transactions were stored ("early"), or acceptances are not recorded.
UnsettledKept ==
  /\ "behind" \notin lapses => saved .. stored \subseteq rows["blocks"]
  /\ "unsaved" \notin lapses =>
       \A t \in Tx : BlockOf[t] \in saved .. storedTxs =>
         t \in transactions \cap inputs /\ OutputsOf[t] \subseteq outputs
  /\ ~DisableTransactionAcceptance /\ lapses \cap {"narrow", "early"} = {} =>
       \A t \in Tx : BlockOf[t] <= storedTxs /\ saved < AcceptedBy[t] /\ AcceptedBy[t] # Never =>
         /\ t \in transactions \cap inputs
         /\ OutputsOf[t] \subseteq outputs
         /\ \A u \in Tx : OutputsOf[u] \cap SpendsOf[t] \subseteq outputs

\* Output o is spent by the chain up to block k.
SpentAt(k, o) == \E u \in Tx : o \in SpendsOf[u] /\ AcceptedBy[u] <= k

\* However old it is, an output that is unspent at the saved checkpoint is
\* stored, and so is the acceptance of its transaction: pruning deletes spent
\* outputs only (delete.rs, prune_transactions_chunk).  Excepted are runs in
\* which the checkpoint was newer than the cutoff by less than MergeDelay
\* ("narrow": a transaction not accepted yet is taken for rejected) or was
\* saved before its transactions were stored ("early").
UtxoSetStored ==
  ~DisableTransactionAcceptance /\ lapses \cap {"narrow", "early"} = {} =>
    \A t \in Tx : AcceptedBy[t] <= saved =>
      \A o \in OutputsOf[t] :
        ~SpentAt(saved, o) =>
          o \in outputs /\ <<t, AcceptedBy[t]>> \in rows["transactions_acceptances"]

\* A block takes the rows that refer to it along, whatever the retentions of
\* the tables are (prune.rs, the order of the steps and their min with
\* retention_blocks).  Excepted are runs in which a step failed, in which the
\* checkpoint was older than the retention of the blocks ("behind": rows are
\* written for a block that is too old already), or saved before the rows up to
\* it were there ("early").
NoOrphanRows ==
  ~stepFailed /\ lapses \cap {"behind", "early"} = {} =>
    /\ rows["block_parent"] \subseteq rows["blocks"]
    /\ \A row \in rows["blocks_transactions"] : row[1] <= stored => row[1] \in rows["blocks"]

\* "Delete spent transaction outputs" (delete.rs): between two runs, the
\* outputs that a pruned accepted transaction spent are gone, if everything went
\* as expected.
SpentOutputsGone ==
  ppc = "idle" /\ lapses = {} =>
    \A u \in Tx : AcceptedBy[u] <= saved /\ BlockOf[u] <= storedTxs /\ u \notin transactions =>
      SpendsOf[u] \cap outputs = {}
=============================================================================
