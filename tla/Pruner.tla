------------------------------- MODULE Pruner -------------------------------
(***************************************************************************)
(* The database pruner: prune, started by a cron schedule, deletes the     *)
(* rows that are older than their retention, table by table.  Each step    *)
(* deletes batches of at most prune_batch_size rows until none is left;    *)
(* which rows a batch holds is up to the database (LIMIT without ORDER     *)
(* BY).  A step that fails does not keep the next one from running.        *)
(*                                                                         *)
(* Time is counted in ticks of the clock: a run starts at any of them, so  *)
(* a cutoff may lie between the timestamps of two blocks.  A transaction   *)
(* has the timestamp of the block it was first seen in.                    *)
(* Rows are represented by their keys: a block, a transaction, or a pair   *)
(* <<block, tx>> or <<tx, block>>.  All tables are enabled; the table      *)
(* addresses_transactions also stands for scripts_transactions, of which   *)
(* one is filled and pruned.                                               *)
(***************************************************************************)
EXTENDS Integers, FiniteSets, FiniteSetsExt

CONSTANTS
  MaxPoint,        \* bound on the length of the chain
  Tx,              \* the transactions
  NoTx,            \* NULL as transaction_id: a chain block marker
  Outpoint,        \* the outputs of all transactions
  BlockOf,         \* BlockOf[t]: the block t was first seen in
  Timestamp,       \* Timestamp[k]: timestamp of block k of the selected chain
  OutputsOf,       \* OutputsOf[t]: the outputs of t
  SpendsOf,        \* SpendsOf[t]: the previous outpoints of the inputs of t
  NoRetention,     \* a --retention argument that is not given
  Retention,                        \* --retention
  RetentionBlockParent,             \* --retention-block-parent
  RetentionBlocksTransactions,      \* --retention-blocks-transactions
  RetentionBlocks,                  \* --retention-blocks
  RetentionTransactions,            \* --retention-transactions
  RetentionAddressesTransactions,   \* --retention-addresses-transactions
  PruneBatchSize,                   \* --prune-batch-size
  PruneDb,                          \* --prune-db, a cron schedule: when runs start
  ExcludeBlockTimestamp,            \* --exclude-fields=block_timestamp
  DisableTransactionAcceptance      \* --disable=transaction_acceptance

Point == 1..MaxPoint
NoPoint == 0

\* transactions.block_time
BlockTime == [t \in Tx |-> Timestamp[BlockOf[t]]]

Retentions == Nat \cup {NoRetention}

ASSUME PrunerAssumption ==
  /\ MaxPoint \in Nat \ {0}
  /\ IsFiniteSet(Tx)
  /\ NoTx \notin Tx
  /\ NoRetention \notin Nat
  /\ BlockOf \in [Tx -> Point]
  /\ Timestamp \in [Point -> Nat]
  /\ \A j, k \in Point : j <= k => Timestamp[j] <= Timestamp[k]
  /\ OutputsOf \in [Tx -> SUBSET Outpoint]
  /\ SpendsOf \in [Tx -> SUBSET Outpoint]
  /\ \A t, u \in Tx : t # u => OutputsOf[t] \cap OutputsOf[u] = {}
  /\ {Retention, RetentionBlockParent, RetentionBlocksTransactions, RetentionBlocks,
      RetentionTransactions, RetentionAddressesTransactions} \subseteq Retentions
  /\ PruneBatchSize \in Nat \ {0}
  /\ PruneDb \subseteq Nat
  /\ {ExcludeBlockTimestamp, DisableTransactionAcceptance} \subseteq BOOLEAN

VARIABLES
  rows,               \* rows[table], for the tables pruned by age alone
  transactions,       \* the table transactions
  inputs,             \* transactions with rows in transactions_inputs
  outputs,            \* the table transactions_outputs
  metricsCheckpoint,  \* metrics.checkpoint.block
  shutdown,           \* SignalHandler.shutdown_sent
  ppc,                \* the step of prune, "done" after the last, or "idle"
  inStep,             \* whether the step is deleting batches
  startTime           \* common_start_time

pruneVars == <<ppc, inStep, startTime>>

\* The tables of rows.
Table == {"block_parent", "blocks_transactions", "blocks", "transactions_acceptances",
          "addresses_transactions"}

Row == [block_parent |-> Point,
        blocks_transactions |-> Point \X Tx,
        blocks |-> Point,
        transactions_acceptances |-> (Tx \cup {NoTx}) \X Point,
        addresses_transactions |-> Tx]

PruneStep == Table \cup {"transactions"}

PrunerTypeOK ==
  /\ rows = [table \in Table |-> rows[table]]
  /\ \A table \in Table : rows[table] \subseteq Row[table]
  /\ transactions \subseteq Tx
  /\ inputs \subseteq Tx
  /\ outputs \subseteq Outpoint
  /\ metricsCheckpoint \in Point \cup {NoPoint}
  /\ shutdown \in BOOLEAN
  /\ ppc \in PruneStep \cup {"done", "idle"}
  /\ inStep \in BOOLEAN
  /\ startTime \in Nat

PrunerInit ==
  /\ ppc = "idle"
  /\ inStep = FALSE
  /\ startTime = 0
-----------------------------------------------------------------------------
\* PruningConfig.resolve: a retention that is not given is the global one.
Resolve(specific) == IF specific = NoRetention THEN Retention ELSE specific

\* PruningConfig.resolved
Resolved ==
  [block_parent |-> Resolve(RetentionBlockParent),
   blocks_transactions |-> Resolve(RetentionBlocksTransactions),
   blocks |-> Resolve(RetentionBlocks),
   transactions_acceptances |-> Resolve(RetentionBlocks),
   transactions |-> Resolve(RetentionTransactions),
   addresses_transactions |-> Resolve(RetentionAddressesTransactions)]

\* Whether prune runs the step at all.
Enabled(step) ==
  /\ Resolved[step] # NoRetention
  /\ step = "transactions_acceptances" =>
       DisableTransactionAcceptance /\ ~ExcludeBlockTimestamp

\* The shorter of two retentions, of which the second may be missing.
Shorter(retention, other) ==
  IF other # NoRetention /\ other < retention THEN other ELSE retention

\* Mutant of Age: each table goes by its own retention.
AgeAlone(step) == Resolved[step]

\* The retention an enabled step goes by: rows that refer to a block go no
\* later than the block.
Age(step) ==
  IF step \in {"block_parent", "blocks_transactions"}
  THEN Shorter(Resolved[step],
               Resolved[IF step = "blocks_transactions" /\ ExcludeBlockTimestamp
                        THEN "transactions" ELSE "blocks"])
  ELSE Resolved[step]

\* The rows of a step are older than this.
Cutoff(step) == startTime - Age(step)

\* The steps in the order prune takes them.
Successor ==
  [block_parent |-> "blocks_transactions",
   blocks_transactions |-> "blocks",
   blocks |-> "transactions_acceptances",
   transactions_acceptances |-> "transactions",
   transactions |-> "addresses_transactions",
   addresses_transactions |-> "done"]

\* The batches a DELETE ... LIMIT may choose of the rows that match.
Batches(matching) ==
  {batch \in SUBSET matching :
     Cardinality(batch) = Min({PruneBatchSize, Cardinality(matching)})}

\* The block rows that are too old.  Without timestamps the comparison is
\* never true.
OldBlocks(step) ==
  {k \in rows["blocks"] : Timestamp[k] < Cutoff(step) /\ ~ExcludeBlockTimestamp}

\* The rows of a step that are too old.  Rows that only name a block or a
\* transaction are found by joining the row of that block or transaction.
Expired(step) ==
  CASE step = "block_parent" -> rows[step] \cap OldBlocks(step)
    [] step = "blocks_transactions" /\ ~ExcludeBlockTimestamp ->
         {row \in rows[step] : row[1] \in OldBlocks(step)}
    [] step = "blocks_transactions" /\ ExcludeBlockTimestamp ->
         {row \in rows[step] : row[2] \in transactions /\ BlockTime[row[2]] < Cutoff(step)}
    [] step = "blocks" -> OldBlocks(step)
    [] step = "transactions_acceptances" -> {row \in rows[step] : row[2] \in OldBlocks(step)}
    [] step = "addresses_transactions" -> {t \in rows[step] : BlockTime[t] < Cutoff(step)}

\* Mutant of PruningPointIsPassed: the checkpoint is not looked at.
PruningPointAlwaysPassed == TRUE

\* Transactions are pruned only once a checkpoint newer than the cutoff has
\* been reached.
PruningPointIsPassed ==
  metricsCheckpoint # NoPoint /\ Timestamp[metricsCheckpoint] > Cutoff("transactions")

\* A run begins when the schedule says so, and goes by the wall clock.
StartPrune(now) ==
  /\ ppc = "idle"
  /\ ~shutdown
  /\ now \in PruneDb
  /\ ppc' = "block_parent"
  /\ startTime' = now
  /\ UNCHANGED <<inStep, rows, transactions, inputs, outputs>>

\* A step begins unless a signal was received; the one of the transactions
\* looks at the checkpoint first.
BeginStep ==
  /\ ppc \in PruneStep
  /\ ~inStep
  /\ Enabled(ppc)
  /\ ~shutdown
  /\ ppc = "transactions" => PruningPointIsPassed
  /\ inStep' = TRUE
  /\ UNCHANGED <<ppc, startTime, rows, transactions, inputs, outputs>>

NextStep ==
  /\ ppc' = Successor[ppc]
  /\ inStep' = FALSE
  /\ UNCHANGED startTime

\* A step without a retention is left out, and so is the one of the
\* transactions when "pruning point is newer than last checkpoint".
SkipStep ==
  /\ ppc \in PruneStep
  /\ ~inStep
  /\ Enabled(ppc) => ppc = "transactions" /\ ~shutdown /\ ~PruningPointIsPassed
  /\ NextStep
  /\ UNCHANGED <<rows, transactions, inputs, outputs>>

\* An empty batch ends the step.
AfterBatch(batch) ==
  IF batch = {}
  THEN NextStep
  ELSE UNCHANGED <<ppc, inStep, startTime>>

\* One batch of a step that deletes by age.
PruneRows ==
  /\ ppc \in Table
  /\ inStep
  /\ \E batch \in Batches(Expired(ppc)) :
       /\ rows' = [rows EXCEPT ![ppc] = @ \ batch]
       /\ AfterBatch(batch)
  /\ UNCHANGED <<transactions, inputs, outputs>>

\* The transactions with an acceptance row.
Accepted == {row[1] : row \in rows["transactions_acceptances"]} \ {NoTx}

\* Mutant of SpentBy: the inputs of rejected transactions count as well.
SpentByAny(expired) == UNION {SpendsOf[t] : t \in expired \cap inputs}

\* The outputs spent by the accepted transactions among the expired ones.
SpentBy(expired) == UNION {SpendsOf[t] : t \in expired \cap Accepted \cap inputs}

\* The outputs of the rejected ones.
RejectedOutputs(expired) == UNION {OutputsOf[t] : t \in expired \ Accepted}

\* The transactions that lost an output and have none left.
FullySpent(spent, left) ==
  {t \in Tx : OutputsOf[t] \cap spent # {} /\ OutputsOf[t] \cap left = {}}

\* prune_transactions_chunk, one transaction of the database: an accepted
\* transaction takes its inputs and the outputs these spend with it, a rejected
\* one its inputs and its own outputs.  The acceptance of a transaction goes
\* with its last output.
PruneTransactions ==
  /\ ppc = "transactions"
  /\ inStep
  /\ \E expired \in Batches({t \in transactions : BlockTime[t] < Cutoff(ppc)}) :
       LET spent == SpentBy(expired)
           left == (outputs \ RejectedOutputs(expired)) \ spent
       IN  /\ transactions' = transactions \ expired
           /\ inputs' = inputs \ expired
           /\ outputs' = left
           /\ rows' = [rows EXCEPT !["transactions_acceptances"] =
                         {row \in @ : row[1] \notin FullySpent(spent, left)}]
           /\ AfterBatch(expired)

\* A statement of the step fails; the batches before it stay deleted and the
\* next step runs all the same.
FailStep ==
  /\ ppc \in PruneStep
  /\ inStep
  /\ NextStep
  /\ UNCHANGED <<rows, transactions, inputs, outputs>>

FinishPrune ==
  /\ ppc = "done"
  /\ ppc' = "idle"
  /\ UNCHANGED <<inStep, startTime, rows, transactions, inputs, outputs>>

\* A signal ends the run between two steps.
ReturnOnShutdown ==
  /\ ppc \in PruneStep
  /\ ~inStep
  /\ Enabled(ppc)
  /\ shutdown
  /\ ppc' = "idle"
  /\ UNCHANGED <<inStep, startTime, rows, transactions, inputs, outputs>>

\* What a run of prune does by itself.
PruneWork ==
  \/ BeginStep
  \/ SkipStep
  \/ PruneRows
  \/ PruneTransactions
  \/ FinishPrune
  \/ ReturnOnShutdown
=============================================================================
