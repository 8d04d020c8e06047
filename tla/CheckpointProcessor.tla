------------------------ MODULE CheckpointProcessor ------------------------
(***************************************************************************)
(* process_checkpoints: picks a candidate among the reported blocks, waits *)
(* until the other processors confirmed it (or for 120 s), brings the      *)
(* balances from the previous checkpoint to the candidate and saves it.    *)
(*                                                                         *)
(* The time since the last save matters in three ranges only: sinceSave is *)
(* 0 up to CHECKPOINT_SAVE_INTERVAL (30 s), 1 above it and 2 above         *)
(* MAX_TIME_WITHOUT_SAVE (120 s).                                          *)
(***************************************************************************)
EXTENDS Store

CONSTANT DbFaults   \* whether the queries of this task may fail

VARIABLES
  cpc,                 \* "pop", "sleep", "created", "spent", "save" or "exited"
  candidate,           \* checkpoint_candidate
  cpOkBlocks,          \* cp_ok_blocks
  cpOkTxs,             \* cp_ok_txs
  blocksProcessed,     \* blocks_processed
  txsProcessed,        \* txs_processed
  sinceSave,           \* time since checkpoint_last_saved
  previousCheckpoint,  \* previous_checkpoint
  createdDelta,        \* transactions the query for created outputs found
  metricsCheckpoint,   \* metrics.checkpoint.block
  forced               \* history: a save was forced without confirmation

checkpointVars ==
  <<cpc, candidate, cpOkBlocks, cpOkTxs, blocksProcessed, txsProcessed, sinceSave,
    previousCheckpoint, createdDelta, metricsCheckpoint>>

CheckpointInit(checkpoint) ==
  /\ cpc = "pop"
  /\ candidate = NoBlock
  /\ cpOkBlocks = FALSE
  /\ cpOkTxs = FALSE
  /\ blocksProcessed = {}
  /\ txsProcessed = {}
  /\ sinceSave = 0
  /\ previousCheckpoint = checkpoint
  /\ createdDelta = {}
  /\ metricsCheckpoint = checkpoint

\* The same, when the process is started again.
CheckpointReset(checkpoint) ==
  /\ cpc' = "pop"
  /\ candidate' = NoBlock
  /\ cpOkBlocks' = FALSE
  /\ cpOkTxs' = FALSE
  /\ blocksProcessed' = {}
  /\ txsProcessed' = {}
  /\ sinceSave' = 0
  /\ previousCheckpoint' = checkpoint
  /\ createdDelta' = {}
  /\ metricsCheckpoint' = checkpoint

CheckpointTypeOK ==
  /\ cpc \in {"pop", "sleep", "created", "spent", "save", "exited"}
  /\ candidate \in Block \cup {NoBlock}
  /\ cpc \in {"sleep", "created", "spent", "save"} => candidate # NoBlock
  /\ cpOkBlocks \in BOOLEAN
  /\ cpOkTxs \in BOOLEAN
  /\ blocksProcessed \subseteq Block
  /\ txsProcessed \subseteq Block
  /\ sinceSave \in 0..2
  /\ previousCheckpoint \in Block
  /\ createdDelta \subseteq Tx
  /\ metricsCheckpoint \in Block
  /\ forced \in BOOLEAN

\* Mutants of Offers: any report, and any report of a block, is taken.
OffersAny(origin) == TRUE

OffersBlocks(origin) == origin # "Transactions"

\* The blocks that may become the candidate: those of the virtual chain
\* processor, or of the block processor when there is no other.
Offers(origin) ==
  \/ origin = "Vcp"
  \/ origin = "Blocks" /\ DisableVirtualChainProcessing

\* cp_ok_txs after a pop: a new candidate is not confirmed yet.
StillOkTxs(takes) == ~takes /\ cpOkTxs

\* Mutant of ForceSave: the candidate waits for its confirmation for ever.
NeverForceSave == FALSE

ForceSave == sinceSave = 2

\* The second half of an iteration, on the values the first half leaves: the
\* confirmations seen so far are used up, and the candidate is saved when it
\* is confirmed or overdue.
Evaluate(cand, okBlocks, okTxs, blocks, txs) ==
  IF cand = NoBlock
  THEN /\ candidate' = NoBlock
       /\ cpOkBlocks' = okBlocks
       /\ cpOkTxs' = okTxs
       /\ blocksProcessed' = blocks
       /\ txsProcessed' = txs
       /\ UNCHANGED <<cpc, forced>>
  ELSE LET blocksOk == okBlocks \/ cand \in blocks
           txsOk == okTxs \/ DisableTransactionProcessing \/ cand \in txs
       IN  /\ candidate' = cand
           /\ cpOkBlocks' = (blocksOk \/ ForceSave)
           /\ cpOkTxs' = (txsOk \/ ForceSave)
           /\ blocksProcessed' = {}
           /\ txsProcessed' = {}
           /\ forced' = (forced \/ (ForceSave /\ ~(blocksOk /\ txsOk)))
           /\ cpc' = IF (blocksOk /\ txsOk) \/ ForceSave THEN "created" ELSE "pop"

\* An iteration that pops a block.  A candidate counts as confirmed by the
\* block processor from the start.
PopCheckpoint ==
  /\ cpc = "pop"
  /\ ~shutdown
  /\ cpQueue # <<>>
  /\ cpQueue' = Tail(cpQueue)
  /\ LET m == Head(cpQueue)
         takes == Offers(m.origin) /\ candidate = NoBlock /\ sinceSave > 0
     IN  Evaluate(IF takes THEN m.hash ELSE candidate,
                  takes \/ cpOkBlocks,
                  StillOkTxs(takes),
                  IF m.origin = "Blocks" /\ ~DisableVirtualChainProcessing
                    THEN blocksProcessed \cup {m.hash} ELSE blocksProcessed,
                  IF m.origin = "Transactions"
                    THEN txsProcessed \cup {m.hash} ELSE txsProcessed)
  /\ UNCHANGED <<sinceSave, previousCheckpoint, createdDelta, metricsCheckpoint,
                 balances, blockCheckpoint>>

\* An iteration that finds the queue empty sleeps 100 ms; without a candidate
\* it does nothing else.
Sleep ==
  /\ cpc = "pop"
  /\ ~shutdown
  /\ cpQueue = <<>>
  /\ candidate # NoBlock
  /\ cpc' = "sleep"
  /\ UNCHANGED <<candidate, cpOkBlocks, cpOkTxs, blocksProcessed, txsProcessed,
                 sinceSave, previousCheckpoint, createdDelta, metricsCheckpoint,
                 forced, cpQueue, balances, blockCheckpoint>>

\* With a candidate it then evaluates what it knew before, whatever was pushed
\* in the meantime.
AwaitConfirmation ==
  /\ cpc = "sleep"
  /\ Evaluate(candidate, cpOkBlocks, cpOkTxs, blocksProcessed, txsProcessed)
  /\ UNCHANGED <<sinceSave, previousCheckpoint, createdDelta, metricsCheckpoint,
                 cpQueue, balances, blockCheckpoint>>

\* The transactions the balance queries find between two checkpoints: the
\* rows of the transaction, the row of its accepting block and the rows of
\* both checkpoints must be there; the range is one of blue scores.  (The
\* outputs an input spends are taken to be in the database.)
DeltaTxs(from, to) ==
  {t \in txsTable :
     /\ {from, to} \subseteq blocksTable
     /\ \E b \in blocksTable : /\ <<t, b>> \in acceptances
                               /\ BlueScore[b] > BlueScore[from]
                               /\ BlueScore[b] <= BlueScore[to]}

\* An error of a balance query is logged and otherwise ignored.
FailUpdate ==
  /\ DbFaults
  /\ cpc \in {"created", "spent"}
  /\ cpc' = "save"
  /\ createdDelta' = {}
  /\ UNCHANGED <<candidate, cpOkBlocks, cpOkTxs, blocksProcessed, txsProcessed,
                 sinceSave, previousCheckpoint, metricsCheckpoint, forced,
                 cpQueue, balances, blockCheckpoint>>

\* First query of update_balances_from_utxo_changes: created outputs.
QueryCreated ==
  /\ cpc = "created"
  /\ createdDelta' = DeltaTxs(previousCheckpoint, candidate)
  /\ cpc' = "spent"
  /\ UNCHANGED <<candidate, cpOkBlocks, cpOkTxs, blocksProcessed, txsProcessed,
                 sinceSave, previousCheckpoint, metricsCheckpoint, forced,
                 cpQueue, balances, blockCheckpoint>>

\* Second query (spent outputs) and the update of the balances.  No other
\* task writes balances, so nothing can come between these two.
ApplyDeltas ==
  /\ cpc = "spent"
  /\ UpdateBalancesIncremental(createdDelta, DeltaTxs(previousCheckpoint, candidate))
  /\ createdDelta' = {}
  /\ cpc' = "save"
  /\ UNCHANGED <<candidate, cpOkBlocks, cpOkTxs, blocksProcessed, txsProcessed,
                 sinceSave, previousCheckpoint, metricsCheckpoint, forced,
                 cpQueue, blockCheckpoint>>

\* Mutant of StoreCheckpoint: previous_checkpoint stays behind.
StoreCheckpointOnly == blockCheckpoint' = candidate /\ UNCHANGED previousCheckpoint

\* save_checkpoint succeeds, or fails and is logged.
StoreCheckpoint ==
  \/ blockCheckpoint' = candidate /\ previousCheckpoint' = candidate
  \/ DbFaults /\ UNCHANGED <<blockCheckpoint, previousCheckpoint>>

\* The end of an iteration that saves: the metrics and the timer
\* advance whether or not the checkpoint could be saved.
SaveCheckpoint ==
  /\ cpc = "save"
  /\ StoreCheckpoint
  /\ metricsCheckpoint' = candidate
  /\ sinceSave' = 0
  /\ candidate' = NoBlock
  /\ cpc' = "pop"
  /\ UNCHANGED <<cpOkBlocks, cpOkTxs, blocksProcessed, txsProcessed, createdDelta,
                 forced, cpQueue, balances>>

\* Time passes.
Tick ==
  /\ cpc # "exited"
  /\ sinceSave < 2
  /\ sinceSave' = sinceSave + 1
  /\ UNCHANGED <<cpc, candidate, cpOkBlocks, cpOkTxs, blocksProcessed, txsProcessed,
                 previousCheckpoint, createdDelta, metricsCheckpoint, forced,
                 cpQueue, balances, blockCheckpoint>>

CheckpointExit ==
  /\ cpc = "pop"
  /\ shutdown
  /\ cpc' = "exited"
  /\ UNCHANGED <<candidate, cpOkBlocks, cpOkTxs, blocksProcessed, txsProcessed,
                 sinceSave, previousCheckpoint, createdDelta, metricsCheckpoint,
                 forced, cpQueue, balances, blockCheckpoint>>

\* What the task does by itself.
CheckpointWork ==
  \/ PopCheckpoint
  \/ Sleep
  \/ AwaitConfirmation
  \/ QueryCreated
  \/ ApplyDeltas
  \/ SaveCheckpoint
  \/ CheckpointExit

CheckpointNext == CheckpointWork \/ FailUpdate \/ Tick
=============================================================================
