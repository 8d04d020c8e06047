# vecnoscan-indexer in TLA+

The indexer reads the block DAG of a vecnod node over RPC and keeps it in
PostgreSQL: blocks, transactions, which chain block accepted which transaction,
and the balance of every address. This directory holds a TLA+ model of it, the TLC
runs that check small instances, and proofs for all values of the constants.

Contents: [inventory](#inventory) ·
[modules](#modules-and-the-code) · [abstractions](#abstractions) ·
[runs](#runs) · [fairness](#fairness) · [proofs](#proofs) ·
[disagreements](#disagreements-with-the-documentation) ·
[further observations](#further-observations) ·
[not modelled](#what-is-not-modelled) · [plan](#plan)

## Inventory

`start_processing` (`indexer/src/main.rs`) prepares a start (rebuilding the
balances if need be), spawns the web server, and then five tasks and the pruner's
schedule, which all run concurrently until a signal:

| component | state | operations | talks to |
|---|---|---|---|
| block fetcher, `fetch_blocks.rs` | `low_hash`, `synced`, tips, cache of handed-over blocks | poll `getBlocks`, refresh tips, push blocks | node; `blocks_queue`, `txs_queue` (bounded) |
| block processor, `process_blocks.rs` | batch, `first_block`, `noop_delete_count` | pop, insert `blocks` and `block_parent`, clear acceptances of an earlier run, start the virtual chain processor, report | `blocks_queue`, database, `start_vcp`, `checkpoint_queue` |
| transaction processor, `process_transactions.rs` | batch, cache of transaction ids | pop, insert rows concurrently, then `blocks_transactions`, report | `txs_queue`, database, `checkpoint_queue` |
| virtual chain processor, `process_virtual_chain.rs` and its helpers | `start_hash`, tip distance and its history | poll `getVirtualChainFromBlock`, wait for the block processor, remove and add acceptances, report | node, metrics, database, `checkpoint_queue` |
| checkpoint processor, `checkpoint.rs`, `balance_updater.rs` | candidate, confirmations, time of last save, previous checkpoint | choose a candidate, wait for confirmations or 120 s, apply balance deltas, save | `checkpoint_queue`, database |
| UTXO set importer, `utxo_set_importer.rs` | attempt, sums per address, chunk count | ask a peer for the UTXO set of the pruning point, store outputs, write balances, retry | p2p peer, database |
| start-up, `main.rs` | decision to rebuild, checkpoint | getBlockDagInfo, rebuild, select and save the checkpoint, import | node, importer, database |
| pruner, `prune.rs`, `delete.rs` | start time of the run, step | delete old rows by age, table by table, in batches; for transactions, decide by their acceptances what goes with them | database, checkpoint in the metrics |
| web server, `web_server.rs` | subscribed to the signal or not | listen, shut down | signal; its end is awaited like that of the tasks |
| endpoints, mapping, CLI, database client | none of their own | read, convert | |

What is hard here, and what makes each part correct:

* **Checkpoint.** A restart fetches nothing below the saved checkpoint again, so
  everything below it must be stored. Blocks and transactions travel through separate
  queues, caches and batches, and the candidate is proposed by a third task.
  Correct: `ImplementsArchive` (with `TxDurable`), `BlocksBacked`, `CheckpointNeverRegresses`.
* **Acceptances.** Reorganisations, rows left by an earlier run and a late start of the
  virtual chain processor. Correct: `AcceptancesExact`, `ChainRowsExact`.
* **Balances.** Deltas are computed by joining tables three other tasks write, committed
  apart from the checkpoint. Correct: `NoDoubleCredit`, `BalancesLive`.
* **Back-pressure and shutdown.** Bounded queues, and tasks that leave in any order.
  Correct: `FetcherNeverStuck`, `CandidateSettles`, `ShutdownCompletes`.
* **Start.** Balances are emptied, imported from an unreliable peer and must fit the
  checkpoint the tasks continue from; calls and statements fail; the process is stopped or
  killed at any moment. Correct: `BalancesMatchCheckpoint`, `ImportExact`, `NoWindowStall`,
  `StartSettles`, `SignalEndsProcess`.
* **Pruning.** Retentions per table that are given, inherited or missing; rows that are found only
  through other rows, which are deleted too; batches the database chooses; next to tasks
  that still need some of the rows. Correct: `UnsettledKept`, `UtxoSetStored`, `NoOrphanRows`,
  `SpentOutputsGone`.

`PROJECT.json` lists the hazards one by one, each at its line of code.

## Modules and the code

| module | models | how |
|---|---|---|
| `Consensus` | the node, external | a constant DAG; `known` grows; the answers of the three RPC calls |
| `Store` | tables, queues, flags | one operator per SQL statement the tasks use |
| `BlockFetcher` | `fetch_blocks.rs` | one action per step between two awaits |
| `BlockProcessor` | `process_blocks.rs` | pop, the inserts chunk by chunk, clearing, end of commit, reports |
| `TransactionProcessor` | `process_transactions.rs` | pop, the awaited inserts in any order, relations, reports |
| `VirtualChainProcessor` | `virtual_chain/*.rs` | poll, wait, removals, acceptances or chain markers, tip distance, report |
| `CheckpointProcessor` | `checkpoint.rs`, `balance_updater.rs` | an iteration, the two balance queries, update, save, time |
| `Indexer` | `main.rs`, `signal_handler.rs` | composes the six above with signals, crashes and restarts; states the properties |
| `ResumableArchive` | | what the indexer promises about transactions: an archive and a checkpoint inside it |
| `TxDurability` | | the inductive invariant behind the checkpoint, and the refinement of `ResumableArchive` |
| `BlockDurability` | | the same for the rows of blocks, without the virtual chain processor; why the checkpoint does not go back then |
| `ChainFollowing` | | the inductive invariant behind `AcceptancesExact` and `ChainRowsExact` |
| `CheckpointOrder` | | the inductive invariants behind `CheckpointNeverRegresses` and `NoDoubleCredit`, with the virtual chain processor |
| `UtxoSetImporter` | `utxo_set_importer.rs`, `p2p_initializer.rs` | attempts, flow control, time limit, retry, failing statements; the peer is external |
| `Startup` | `main.rs` up to the start of the tasks, `web_server.rs` | composes the importer with the decisions of a start, the web server, signals, kills and restarts |
| `StartupInvariant` | | the inductive invariant behind the safety properties of `Startup` |
| `Pruner` | `prune.rs`, `query/delete.rs`, `PruningConfig` | a run of `prune`: steps, batches, guard, failures, signal |
| `Retention` | | composes the pruner with the tasks that fill its tables; states the properties |
| `RetentionInvariant` | | the inductive invariant behind them |
| `TypeProofs`, `TxDurabilityProofs`, `BlockDurabilityProofs`, `ChainFollowingProofs`, `CheckpointOrderProofs`, `StartupProofs`, `RetentionProofs` | | the theorems |
| `MCChain`, `MCDiamond`, `MCFork`, `MCStartup`, `MCRetention` | | instances for TLC |

Each task of `Indexer` has a program counter whose values name the await points of the
loop (`fpc`, `bpc`, `tpc`, `vpc`, `cpc`); what lies between two of them is one action,
because all other tasks see its effects only through queues, flags and committed rows.
`Restart` is a crash at any moment followed by a start: durable variables stay,
everything else is reset to what the constructors set, and the tasks resume from
`blockCheckpoint`. `NodeStep` adds a block to the node at any moment.

In `Pruner` the program counter `ppc` is the step of `prune`, and `inStep` says that its loop of
batches is running; a batch is one transaction of the database and one action. In `Startup`, `spc`
is the place in `start_processing` and `ipc` the place in the importer, whose awaits are its actions.

## Abstractions

* A transaction stands for its rows in `transactions`, `transactions_inputs`,
  `transactions_outputs` and for the address rows of its outputs. The address rows of
  its inputs and the subnetwork ids are left out. All tables are enabled.
* A balance is the number of times each transaction's outputs were credited and its
  inputs debited since the first checkpoint. Amounts and addresses do not matter for lost
  or repeated deltas. The outputs an input spends are taken to be in the database.
* One statement stands for several only where no other task can see the difference: the
  balance update is one statement (the code splits above 25000 addresses), a round of
  chain markers is one INSERT, and the `start_vcp` store and the metrics update are part of
  the end of a commit.
* `TxBatchSize` counts the relations of a batch as a set; where the vector of the code is
  longer because of a block handed over twice it commits earlier, a behaviour the
  timer commit of the model already has.
* Time: the 2 s commit timers are nondeterministic; the checkpoint timer has three ranges
  (up to 30 s, up to 120 s, above). An RPC error is a round without a response. A panic
  is a `Restart`.
* A cache entry expires between two responses only; a response names a block once, so an
  expiry during one is equal to one before or after it.
* `Startup` numbers the blocks 1, 2, ..; block *k* changes the UTXO set by "change *k*" and
  the peer sends one change per chunk. Of the running tasks it has the two statements that
  matter to a start, `UpdateBalances` and `SaveCheckpoint`: each may fail, and a kill may come between
  them. What an update adds is taken to be what the blocks changed; that it is not always is the
  subject of `Indexer`, which in turn starts with balances that fit `Start`. The history variable
  `spoiled` notes what `BalancesMatchCheckpoint` excepts, until the balances are emptied again.
* In `UtxoSetImporter` all messages that change nothing, Version and Ping among them, are one
  action, `OnOther`, as each of them restarts the limit of 30 s (`utxo_set_importer.rs:176`). A message that cannot
  be sent ends the attempt. The acceptance rows without a block that are inserted with a chunk
  (`utxo_set_importer.rs:315`) are left out.
* `Retention` reduces the tasks to how far each got along a selected chain, and to the rows they
  write on the way. Queues, caches, batches and reorganisations are the subject of `Indexer`; the
  pruner meets none of them. Time is a clock that ticks; the blocks' timestamps are a constant,
  nondecreasing and unevenly spaced, and a run starts at any tick in `PruneDb`, so that cutoffs lie
  between the timestamps of two blocks as well as on one. Nothing bounds how far the tasks or the checkpoint are
  behind the clock. The checkpoint may be saved ahead of the rows (a forced save, or one the block
  processor did not confirm), and a save may fail while the metrics advance. `MergeDelay` bounds the time from a
  transaction to its acceptance; it has any value, and the guard of the pruner need not respect it.
  The history variable `lapses` notes when it did not, and what else went against the
  pruner's expectations. `CatchUp` is how far the virtual chain processor may be ahead of the stored blocks.
  Rows are represented by their keys, and `addresses_transactions` also stands for
  `scripts_transactions`, of which one is in use. Runs of the pruner do not overlap (the schedule is
  far longer than a run). Its counters are displayed only and left out.

## Runs

All bounds are in the configurations: queue capacities of 1, batches of 1 or 2 and chains of two
to four blocks are the smallest sizes for which a queue is full, a batch holds a
block that depends on another one, and a chain has a block below, at and above a
checkpoint.

| run | instance | checks |
|---|---|---|
| `MCDiamond_ingest` | two parallel blocks with the same transaction and a block merging them, responses of 3 of the 4 blocks, transaction batches of 2, transaction cache expiring, no virtual chain processor | `TypeOK`, `TxDurable`, `BlocksBacked`, `BlockDurable`, `FirstRunInOrder`, `CheckpointNeverRegresses` |
| `MCChain_restart` | growing chain of 3, block batches of 2, one restart, block cache expiring, dynamic tip distance that shrinks, failing balance queries and saves, `--disable=transaction_acceptance` | `ChainRowsExact`, `ChainOrder`, `CheckpointNeverRegresses` |
| `MCChain_balances` | growing chain of 3, all tasks, batches of 2, all queues of size 1 | `NoDoubleCredit`, `FirstRunCredits`, `ImplementsArchive` |
| `MCChain_live` | chain of 3, all tasks, responses of 2 blocks, all queues of size 1, failing balance queries and saves, fair | `CandidateSettles`, `FetcherNeverStuck` |
| `MCFork_reorg` | growing fork with two reorganisations, dynamic tip distance that grows | `TypeOK`, `AcceptancesExact`, `FirstRunFollows` |
| `MCChain_shutdown` | chain of 2, a signal at any moment, checkpoint queue with room for all reports, fair | `ShutdownCompletes` |
| `MCStartup_rebuild` | up to 3 blocks, batches of 2 chunks, a legacy checkpoint or none, 2 restarts, one fault of a peer, one failing statement, failing calls, moving pruning point, a signal in each run, fair | `TypeOK`, `BalancesMatchCheckpoint`, `ImportExact`, `NoWindowStall`, `StartSettles`, `SignalEndsProcess` |
| `MCRetention_prune` | chain of 4 with timestamps 1, 2, 4, 4, three transactions of which one is never accepted, ages of 3 (blocks), 5 (parents) and 2 (transactions), batches of 1, runs at 4 and 5, a signal, and one failing save, failing step or restart | `TypeOK`, `UnsettledKept`, `UtxoSetStored`, `NoOrphanRows` |
| `MCChain_lag` | growing chain of 4, all tasks | `BalancesLive`, violated |
| `MCChain_notxs` | as `MCChain_live`, `--disable=transaction_processing` | `FetcherNeverStuck`, violated |
| `MCStartup_interrupt` | up to 4 blocks, a signal, no restart and no failing statement | `BalancesFit`, violated |
| `MCRetention_chunks` | three payments in a row, timestamps 1, 2, 4, 6, a run at 6, batches of 1, nothing fails | `SpentOutputsGone`, violated |

What the passing runs show, in words: the order in which the node sends blocks survives the
response, cache, queue and batch; a block the transaction processor reports has
its whole past stored; the composition therefore implements an archive that can be continued from
its checkpoint, unless a checkpoint was saved by the 120 s rule (`forced`). Without the virtual
chain processor the same holds of block rows. With a restart the markers, and through
reorganisations the acceptance rows, are between two rounds exactly those of the chain up to
`start_hash`. Through rebuilds, retries and restarts the tasks run on balances that fit
their checkpoint, and every start and every stop comes to an end; pruning deletes nothing that the
next balance update reads and no unspent output, and leaves no row of a deleted block. The properties of starts
and of pruning have exceptions, each a way in which the program does go wrong: they are named
with the property (the safety properties have a history variable that notes them where they happen) and
listed below.

`MCStartup_rebuild` has three blocks and windows of two chunks: the peer waits for a request in the
middle of an import, and the pruning point can move during one. One failing statement is enough
for all exceptions but one (below), and the two restarts show what the next start makes of it, and the one after
it. It has 814,363 states.

In `MCRetention_prune` the ages differ by table, so that the `min` with the blocks' retention and the
guard on the checkpoint both matter. The run at 4 prunes transactions by a cutoff of 2, on the
timestamp of block 2, the one at 5 by 3, between those of blocks 2 and 3. `t1` and `r` expire while `t3`, which spends
an output of `t1`, waits for its acceptance by block 4 and may expire before it; `r` would spend the
other output, had it been accepted. Batches of 1 let the database choose any order, and every
statement of the tasks and every failure falls between any two of them. It has 4,934,158 states; with
`CatchUp = 1` it passes too, with 10.4 million.

`BlockDurable`, `FirstRunInOrder`, `ChainOrder`, `FirstRunCredits` and `FirstRunFollows` are the inductive invariants of
the proofs below; the runs check them on instances that meet their hypotheses (a chain has
no reorganisations, `MCFork` reorganises and is not restarted).

Deadlock is checked in every run: the model can always do something unless all tasks
have returned.

Every property has a mutant (`PROJECT.json`): a variant of one definition that changes it as
a plausible bug would, for which TLC finds the property violated. The variants are
the operators commented "Mutant of ...".

## Fairness

`Indexer!FairSpec`: weak fairness of each task's own work and of the passing of time. The
tasks are tokio tasks of a multi-threaded runtime; each loop either does something or sleeps
for a bounded time and looks again, and database calls return. Nothing is assumed of the
node, of signals, restarts, cache expiry or failing queries.
`Startup!FairSpec`: weak fairness of the importer, of the steps of the start, and of a peer
that answers as long as it is not stopped. Peers may refuse, close, fall silent or be slow
`MaxPeerFaults` times, and a message to them may fail to be sent as often: an importer that meets only such
peers retries for ever. A peer that stops to serve and goes on talking ("chatting") may do so for
ever, as the code never gives it up; `StartSettles` excepts it. Nothing is assumed of
the network, of failing statements and calls, of signals and of kills.

## Proofs

For all values of the constants that satisfy the named assumptions (`ConsensusAssumption`,
`ChainAssumption`, for the pruner `LedgerAssumption` and `RetentionAssumption`, and the range of each
module's parameters):

* `TypeProofs!TypeCorrect`: `Spec => []TypeOK` of `Indexer`. Besides types it says that the
  program counters agree with the buffers: a handler that takes the head of a
  response, batch or queue never finds it empty.
* `TxDurabilityProofs!DurabilityInvariant`: `Spec => []TxDurable`.
* `TxDurabilityProofs!CheckpointBackedByTransactions`: `Spec => []TxsBacked`.

`TxsBacked` speaks of the saved checkpoint only and is not inductive. `TxDurable` follows the
order of blocks backwards from it: the checkpoint is backed because the candidate was
confirmed (`ConfirmationsSettled`); a confirmation is true because the batch was complete when
it was reported (`BatchComplete`) and held no block without its past
(`BatchInOrder`, `QueueInOrder`); the queue is in order because the fetcher hands
over blocks in order and skips only what it handed over before (`FetcherInOrder`). `forced` is a
history variable: once a save was forced nothing is claimed any more. The proof has one
lemma per task (`FetcherKeepsOrder`, `TxProcKeepsOrder`, `BlockProcKeepsOrder`, `VcpKeepsOrder`,
`CheckpointKeepsOrder`, `RestartKeepsOrder`), two lemmas on appending to and taking from a
sequence, and uses `TypeOK`.

* `TxDurabilityProofs!ArchiveImplemented`: `Spec => ImplementsArchive`, with transaction
  processing enabled: `Indexer` refines `ResumableArchive`. An insert of the transaction
  processor archives, a save moves the checkpoint (that what is before it is archived
  is `TxDurable`), the 120 s rule gives up, and every other step, a restart included, stutters.
* `BlockDurabilityProofs`: `BlockDurabilityInvariant` (`BlockDurable`), and with
  `--disable=virtual_chain_processing` `CheckpointBackedByBlockRows` (`BlocksBacked`) and
  `BlockArchiveImplemented` (the tables of blocks refine `ResumableArchive` too). Without expiring
  cache entries and until the first restart `FirstRunOrderInvariant` (`FirstRunInOrder`) and
  `FirstRunDoesNotRegress` (the step formula of `CheckpointNeverRegresses`).
* `ChainFollowingProofs`: `FirstRunInvariant` (`FirstRunFollows`), `AcceptancesFollowChain` and
  `ChainRowsFollowChain` (`AcceptancesExact` and `ChainRowsExact` until the first restart),
  `RoundsKeepFollowing` (in every run, tables that follow the chain go on doing so).
* `CheckpointOrderProofs`, with the virtual chain processor and `ReorgsAreShallow`:
  `CheckpointOrderInvariant` (`ChainOrder`), `CheckpointMovesForward` (`CheckpointAdvances`),
  `CheckpointDoesNotRegress` (`CheckpointNeverRegresses`) and `NoRowStale` (`NoStaleRows`) for any
  number of restarts and with failing statements; `CreditsInvariant` (`FirstRunCredits`) and `CreditedOnce`
  (`NoDoubleCredit`) without failing statements and until the first restart.
* `StartupProofs`: `StartupTypeCorrect`, `PeerNeverForgotten` (`NoWindowStall`), `ImportIsExact`
  (`ImportExact`), `BalancesFitCheckpoint` (`BalancesMatchCheckpoint`).
* `RetentionProofs`: `RetentionInvariantHolds`, `RetentionTypeCorrect`, `PruningKeepsUnsettled`
  (`UnsettledKept`), `PruningKeepsUtxoSet` (`UtxoSetStored`) and
  `PruningLeavesNoOrphans` (`NoOrphanRows`, when `PrunedTogether`).

`BlockDurable` follows the same path through the other queue. Without the virtual chain processor
a candidate is a block whose commit was reported, so a save that is forced for want of a
confirmation by the transaction processor does no harm to it: the archive of block rows never gives up its
promise. With the virtual chain processor `BlocksBacked` is false (below).

`FirstRunInOrder` is the other half of that order: nothing is in the past of what is ahead of it. The cache holds
every block handed over together with its past (`CacheComplete`), so a block that is not in the cache
is in the past of none of them when it is pushed; queue, batch, reports, candidate and checkpoint keep that
order (`QueueAfterBatch`, `BatchAfterReports`, `ReportsAfterCandidate`, `CandidateAfterCheckpoint`). An
expired entry or a restart makes the fetcher hand over a block again, after its successors (below).

`FirstRunFollows` describes a round. The response fits where the tables are (`ResponseFits`: what is kept of
the old chain and what is added make up the chain of the last block processed, wherever the tip distance
cuts it), and the rows lie between two known sets at every stage: removing and adding go chunk by
chunk while the node goes on. For acceptances a chain accepts a transaction once, so `ON CONFLICT DO
NOTHING` never meets a conflict; the markers have no such constraint and must not be there when a block is
added. `ResponseFits` itself holds in every run. `ChainAssumption` says of GHOSTDAG what this needs:
selected chains are linear, and blue score grows along them, as a block's blue score is that of its selected
parent plus the number of its blue merged blocks, the selected parent among them. That a finite set of blocks has one
with the most blue work (`MostBlueWork`) is shown by a minimal counterexample, without induction.

`ReorgsAreShallow` says that a block with `MinConfirmations` confirmations on the selected chain keeps them.
The virtual chain processor asks for that many, and they are worth something only then; the node does not promise
it, so it is a hypothesis on the behaviour, `[][ShallowReorg]_vars`, and no assumption on
the constants. It is not vacuous: `MCFork` with `MinConfirmations = 1` reorganises and satisfies it. Then
the processor never removes a block (`RoundsForward`), what it offers lies in the order of the chain
(`OffersForward`), and checkpoint and candidate come before it (`CheckpointBehind`). For the balances, what was
applied lies at or below the blue score the balances are at, what will be above it (`CreditsInOrder`). A failed
save, a kill between update and save, or a reorganisation below the checkpoint breaks this, and each
makes `NoDoubleCredit` false in TLC: on a chain of 3 with `DbFaults = TRUE`, on the same chain with `MaxRestarts
= 1`, and on a fork of two blocks that accept the same transaction with `MinConfirmations = 0`.

`StartupSound` says what makes a start trustworthy. Within an attempt the messages under way are the
chunks between the last one counted and the last one sent (`InFlight`), so the counts of both sides
agree: a peer that waits has sent a full window of which something is left to count (`WindowOpen`),
and the sums are those of the chunks counted (`AttemptExact`). Across restarts the saved checkpoint
tells what the balances contain, or is so old that the next start will rebuild (`BalancesFollow`);
this is stable because the tip's score only grows. From the balance update to the save they contain the
candidate instead. All of it is claimed while `~spoiled`: each clause that sets `spoiled` is a
step after which `BalancesFollow` would be false, and what is proved is that there is no other such step, for
any number of failing statements, failing calls, kills and legacy checkpoints.

`RetentionSound` rests on how the cutoffs lie (`StepInOrder`), wherever the clock puts them. That of the
blocks is not above the timestamp of the checkpoint, unless the indexer is further behind than
their retention, which the code does not look at (`"behind"`). That of the transactions is below
it, as the guard was true when the step began and the checkpoint only grows, unless the guard read a
checkpoint that was not saved (`"unsaved"`); this is enough for the rows from the checkpoint on (`BlocksHeld`,
`RecentHeld`). What lies below the checkpoint and is not settled needs more: that the checkpoint is newer
than the cutoff by `MergeDelay` (unless `"narrow"`) and that the rows up to it are there (unless `"early"`). Then
a transaction still to be accepted keeps its rows (`TxsHeld`), an accepted one its acceptance until
it is spent altogether (`AcceptancesHeld`; otherwise it would be taken for rejected) and its outputs
until they are spent (`OutputsHeld`). These are noted when they happen rather than assumed away: with a guard
that asked for the margin, or a save that waited for the rows, `lapses` would not contain them. For
orphans the order of the steps matters: when the blocks' turn comes the rows that refer to expired
ones are gone (`ReferrersPruned`), which needs that no retention of a referring table is longer and
no step failed. `PrunedTogether` asks that these tables are pruned at all when the blocks are.

Only model-checked:

* all liveness properties (fairness is out of the prover's reach);
* `AcceptancesExact` and `ChainRowsExact` after a restart: they depend on a threshold
  (`process_blocks.rs:89`) that is a heuristic, and hold only where it is large enough (`MCChain_restart`; a
  counterexample is below). Proved is that a run which starts exact stays exact, and that no row is stale.

## Disagreements with the documentation

* `MCChain_lag`: a candidate of the virtual chain processor counts as confirmed by the block
  processor at once (`checkpoint.rs:87`), so the balance queries can run before the block rows
  they join are there; those deltas are never applied.
* `MCStartup_interrupt`: the importer returns without having completed when a signal arrives,
  and the checkpoint is saved as if it had (`main.rs:198`).
* `MCChain_notxs`: with `--disable=transaction_processing` nobody empties `txs_queue`, and the
  fetcher stops for good when it is full (`fetch_blocks.rs:193`). The other runs with that option
  give the queue room for all blocks.
* `MCRetention_chunks`: an expired transaction whose last output was spent in an earlier batch has
  lost its acceptance and is taken for rejected (`delete.rs:160`); the outputs it spent stay.

## Further observations

Where a property and constants are named, TLC shows it once a configuration is changed so; the others
follow from the named lines.

* For the same reason (`checkpoint.rs:87`) a checkpoint can be saved while blocks below it are
  still in a batch, and a crash then loses their rows: `BlocksBacked` on the growing chain of 4
  with the virtual chain processor. Transactions are not affected (`TxsBacked` is proved).
* A crash between the balance update and the save applies the deltas twice (`checkpoint.rs:133`):
  `BalancesLive` with `MaxRestarts = 1` on the chain of 3.
* The same crash credits twice: `NoDoubleCredit` with `MaxRestarts = 1`, and a failed save
  (`checkpoint.rs:137`) does so without a crash: `NoDoubleCredit` with `DbFaults = TRUE`.
* Reorganisations around the checkpoint: the acceptances of a candidate may be removed before its
  deltas are computed, and deltas of blocks at or below the previous checkpoint are never taken
  back, as the range of blue scores begins above it (`balance_updater.rs:33`): `BalancesLive` on
  `MCFork` with transaction processing.
* With a full checkpoint queue the processors wait for ever once the checkpoint processor has
  left (`process_blocks.rs:119`): `ShutdownCompletes` with `CheckpointQueueCapacity = 1`. The
  code's capacity of 30000 makes this unlikely.
* A reorganisation and a restart: the virtual chain processor starts after ten commits that
  cleared nothing (`process_blocks.rs:89`), also when a block still to come has rows of the earlier
  run; `ON CONFLICT DO NOTHING` then keeps the acceptance of the new chain out. `AcceptancesExact` on
  `MCFork` with `MaxRestarts = 1` shows the stale row, with a threshold of one commit.
* Blocks below the checkpoint may come again after a restart: of `s <- a <- c` and `s <- l` with
  checkpoint `c` the first response is `c, l`, `low_hash` becomes `l`, and the next one is `l, a, c`. The
  acceptances of `a` are then cleared (`process_blocks.rs:84`; only the first block is spared) and not added again
  by the virtual chain processor, which started at `c`: `ChainAcceptances(blockCheckpoint) \subseteq acceptances` on this
  DAG with `MaxRestarts = 1`. Without the virtual chain processor the checkpoint goes back to `a`
  that way: `CheckpointNeverRegresses` with `MaxRestarts = 1`, or, when the cache entry of `a` expires, without a
  restart: the same with `EvictCaches = TRUE`. The next start then reads more again than it has to.
* A batch of blocks is committed when another block arrives (`process_blocks.rs:66`): the last
  blocks of a quiet network wait.
* `--enable=force_utxo_import` resets the balances to the pruning point while the tasks continue
  from a later checkpoint (`main.rs:307`): `BalancesFit` with `ForceUtxoImport = TRUE`.
* A failed `getBlock` makes a recent checkpoint look old (`main.rs:124`) or an old one recent, and a failed query
  for the checkpoint (`vars.rs:6`) makes it look missing: a start then empties the balances and
  rebuilds, or resumes at the pruning point and saves that over the checkpoint (`main.rs:229`). A kill during
  such a rebuild leaves empty balances below a checkpoint the next start takes for good.
* A kill between the balance update and the save of the candidate (`checkpoint.rs:133`), or a failure of one of
  the two that is only logged, leaves balances and checkpoint of two different moments. So do a
  failed write of the imported balances (`utxo_set_importer.rs:237`), a failed save of the rebuild's checkpoint, a kill
  during an import whose checkpoint is saved already (`main.rs:307`), and a checkpoint loaded from the legacy
  key. For all of these: `BalancesMatchCheckpoint` on `MCStartup_rebuild` without the clause that notes it
  in `spoiled`; a failed save of the initial checkpoint takes a failing query besides, and `MaxDbFaults = 2`.
* When the pruning point moves during an import every retry asks for the old one
  (`utxo_set_importer.rs:116`): `StartSettles` with `spc \in {"running", "stopped"}` alone on its right.
* Every message of a peer restarts the limit of 30 s, also those that are ignored
  (`utxo_set_importer.rs:176`, `254`): a peer that stops to serve and goes on to ping or relay is never given
  up, and the start never ends. `StartSettles` without its first disjunct.
* A signal that arrives before the web server serves is never seen by it (`web_server.rs:93`), and the
  process waits until a second signal: `SignalEndsProcess` with `"spawned"` for `"listening"`.
* The pruner relies on more than its guard sees to. TLC finds each of these with the exception
  taken out of the property, on `MCRetention_prune`:
  * the step of the blocks has no guard (`prune.rs:127`): an indexer further behind than their
    retention loses rows it still needs, and writes rows for blocks that are pruned before
    those that refer to them (`"behind"`: `UnsettledKept`, `NoOrphanRows`);
  * the guard of the transactions reads the checkpoint of the metrics, which advances also when the
    save failed (`prune.rs:157`, `checkpoint.rs:137`; `"unsaved"`: `UnsettledKept`);
  * a checkpoint newer than the cutoff does not mean that what is older than the cutoff has been
    accepted or rejected for good: a transaction accepted only above that checkpoint is taken for
    rejected and loses its rows and its outputs (`"narrow"`: `UnsettledKept`, `UtxoSetStored`). With
    retentions of days and merges within minutes this takes a checkpoint that is nearly as old as
    the retention;
  * a checkpoint saved before the rows up to it are there (`checkpoint.rs:87`, `111`) lets late rows be taken for
    old ones (`"early"`: all three properties);
  * a step that failed does not keep the next one from deleting the blocks by which its rows are
    found (`prune.rs:87`; `stepFailed`: `NoOrphanRows`).
* With `--disable=transaction_acceptance` the step of the chain markers joins block rows that the step
  before has just deleted by the same cutoff (`prune.rs:132`), so markers are never pruned, and every
  expired transaction counts as rejected, whose unspent outputs go.
* With `--retention-blocks` alone, or after a step that failed, rows that refer to pruned blocks
  stay for ever, as they are found only through those blocks.

## What is not modelled

The endpoints for health and metrics, which only read; the mapping of RPC messages to rows, which has
no state and takes no decision; connection pools and DDL; parsing of arguments (the options that
matter are constants); `--upgrade-db`; lag warnings and logging; the resolution of peer addresses and
the handshake; a run of the pruner that is still going when the next one is due; reorganisations
next to the pruner.

## Plan

1. The commit of a transaction batch in detail: inputs, outputs and both kinds of address rows,
   and how an input finds the output it spends.
2. Reorganisations around the cutoffs of the pruner.
3. Health and lag rules as pure operators against a reference definition.
4. Proofs: which acceptances below the checkpoint a restart keeps, for DAGs in which no
   block below it comes again.
