------------------------------ MODULE Startup ------------------------------
(***************************************************************************)
(* start_processing up to the moment the tasks run: whether the balances   *)
(* are rebuilt from the UTXO set of the pruning point, where the tasks     *)
(* resume, and what is saved on the way.  The running tasks appear only as *)
(* far as they move the checkpoint and the balances (modules Indexer and   *)
(* CheckpointProcessor have the details).  The process may be stopped by a *)
(* signal or killed at any moment and is started again with the same       *)
(* arguments.                                                              *)
(***************************************************************************)
EXTENDS UtxoSetImporter

CONSTANTS
  RebuildThreshold,          \* REBUILD_THRESHOLD_BLUE (200000)
  ForceBalanceRebuild,       \* --force-balance-rebuild
  ForceUtxoImport,           \* --enable=force_utxo_import
  DisableInitialUtxoImport,  \* --disable=initial_utxo_import
  IgnoreCheckpoint,          \* --ignore-checkpoint: "none", "p" or "v"
  LegacyCheckpoints,         \* what vspc_last_start_hash may be; NoPoint: not there
  RpcFaults,                 \* whether getBlock may fail
  PruningMoves,              \* whether the pruning point may advance
  AllowSignal,               \* whether the operator may stop the indexer
  MaxRestarts                \* bound on the number of restarts

\* "No checkpoint is saved."
NoPoint == 0

ASSUME StartupAssumption ==
  /\ {ForceBalanceRebuild, ForceUtxoImport, DisableInitialUtxoImport, RpcFaults,
      PruningMoves, AllowSignal} \subseteq BOOLEAN
  /\ IgnoreCheckpoint \in {"none", "p", "v"}
  /\ LegacyCheckpoints \subseteq Point \cup {NoPoint}
  /\ {RebuildThreshold, MaxRestarts} \subseteq Nat

VARIABLES
  spc,          \* "dag", "decide", "rebuild", "select", "save", "import",
                \* "running" or "stopped"
  tip,          \* blue score of the virtual parent
  legacy,       \* vspc_last_start_hash in vars, never written
  saved,        \* block_checkpoint in vars
  dagPruning,   \* block_dag_info.pruning_point_hash
  dagTip,       \* block_dag_info.virtual_parent_hashes.first()
  checkpoint,   \* checkpoint, then previous_checkpoint of the running tasks
  candidate,    \* checkpoint_candidate, the last one
  update,       \* the update of the balances for the candidate that has to be
                \* saved: "done" or "failed"; "none" if there is no such candidate
  utxoImport,   \* utxo_set_import
  web,          \* the web server: "off", "spawned", "listening" (to the signal,
                \* too), "deaf" (subscribed after the signal) or "stopped"
  restarts

startVars == <<spc, saved, dagPruning, dagTip, checkpoint, candidate, update, utxoImport, web>>
vars == <<pruningPoint, balances, outputs, stopping, importVars, tip, legacy, startVars, restarts>>

Init ==
  /\ ImportInit
  /\ tip \in Point
  /\ legacy \in LegacyCheckpoints /\ legacy <= tip
  /\ pruningPoint \in 1..tip
  /\ balances = None
  /\ outputs = {}
  /\ stopping = FALSE
  /\ spc = "dag"
  /\ saved = NoPoint
  /\ dagPruning = 1
  /\ dagTip = 1
  /\ checkpoint = 1
  /\ candidate = 1
  /\ update = "none"
  /\ utxoImport = FALSE
  /\ web = "off"
  /\ restarts = 0

TypeOK ==
  /\ ImportTypeOK
  /\ spc \in {"dag", "decide", "rebuild", "select", "save", "import", "running", "stopped"}
  /\ tip \in Point
  /\ {legacy, saved} \subseteq Point \cup {NoPoint}
  /\ {dagPruning, dagTip, checkpoint, candidate} \subseteq Point
  /\ update \in {"none", "done", "failed"}
  /\ utxoImport \in BOOLEAN
  /\ web \in {"off", "spawned", "listening", "deaf", "stopped"}
  /\ restarts \in 0..MaxRestarts

\* The network: the chain grows and the pruning point follows.
Network ==
  /\ \/ tip < MaxPoint /\ tip' = tip + 1 /\ UNCHANGED pruningPoint
     \/ PruningMoves /\ pruningPoint < tip /\ pruningPoint' = pruningPoint + 1 /\ UNCHANGED tip
  /\ UNCHANGED <<balances, outputs, stopping, importVars, legacy, startVars, restarts>>

PeerStep == PeerNext /\ UNCHANGED <<pruningPoint, stopping, tip, legacy, startVars, restarts>>

ImportStep == ImportWork /\ UNCHANGED <<pruningPoint, stopping, tip, legacy, startVars, restarts>>

\* What a step of start_processing itself leaves alone.
StartFrame == UNCHANGED <<pruningPoint, outputs, stopping, tip, legacy, restarts>>

\* The node answers, or the loop is left after a signal.
GetBlockDagInfo ==
  /\ spc = "dag"
  /\ \/ /\ ~stopping
        /\ spc' = "decide"
        /\ dagPruning' = pruningPoint
        /\ dagTip' = tip
     \/ /\ stopping
        /\ spc' = "stopped"
        /\ UNCHANGED <<dagPruning, dagTip>>
  /\ UNCHANGED <<balances, importVars, saved, checkpoint, candidate, update, utxoImport, web>>
  /\ StartFrame

\* load_block_checkpoint: a failing query counts as a key that is not there, and
\* the legacy key is next.
LoadBlockCheckpoint(loaded) ==
  \/ /\ loaded = IF saved = NoPoint THEN legacy ELSE saved
     /\ UNCHANGED dbFaults
  \/ loaded \in {legacy, NoPoint} /\ DbFault

\* A blue score asked from the node; 0 if the call fails.
BlueScores(p) == {p} \cup (IF RpcFaults THEN {0} ELSE {})

\* The checkpoint is too far behind (the subtraction saturates).
TooOld(lastBlue, currentBlue) == currentBlue - lastBlue > RebuildThreshold

\* Whether the saved checkpoint, if nothing fails, makes a start rebuild that is
\* told this blue score of the tip.
MustRebuild(currentBlue) ==
  ForceBalanceRebuild \/ saved = NoPoint \/ TooOld(saved, currentBlue)

\* Whether the balances are rebuilt, which begins with emptying them.
Decide ==
  /\ spc = "decide"
  /\ \E loaded \in Point \cup {NoPoint} :
       /\ LoadBlockCheckpoint(loaded)
       /\ \E lastBlue \in BlueScores(loaded), currentBlue \in BlueScores(dagTip) :
         IF ForceBalanceRebuild \/ loaded = NoPoint \/ TooOld(lastBlue, currentBlue)
         THEN /\ balances' = None
              /\ StartImport(dagPruning)
              /\ spoiled' = FALSE
              /\ spc' = "rebuild"
         ELSE /\ spc' = "select"
              /\ spoiled' = (spoiled \/ MustRebuild(dagTip))
              /\ UNCHANGED <<balances, ipc, target, completed, attemptVars, peerFaults>>
  /\ utxoImport' = ForceUtxoImport
  /\ UNCHANGED <<saved, dagPruning, dagTip, checkpoint, candidate, update, web>>
  /\ StartFrame

\* The importer returned: the pruning point is saved as the checkpoint (a
\* failure is ignored).
FinishRebuild ==
  /\ spc = "rebuild"
  /\ ipc = "idle"
  /\ Statement(saved' = dagPruning, UNCHANGED saved)
  /\ utxoImport' = FALSE
  /\ spc' = "select"
  /\ UNCHANGED <<balances, ipc, target, completed, attemptVars, peerFaults,
                 dagPruning, dagTip, checkpoint, candidate, update, web>>
  /\ StartFrame

\* Mutant of ResumePoint: the saved checkpoint is forgotten.
ResumeAtPruningPoint(loaded) == dagPruning

\* Where the tasks resume.
ResumePoint(loaded) ==
  CASE IgnoreCheckpoint = "p" -> dagPruning
    [] IgnoreCheckpoint = "v" -> dagTip
    [] OTHER -> IF loaded = NoPoint THEN dagPruning ELSE loaded

\* A start that finds no checkpoint imports the UTXO set of the pruning point it
\* resumes at, unless told not to.
SelectCheckpoint ==
  /\ spc = "select"
  /\ \E loaded \in Point \cup {NoPoint} :
       LET import == IgnoreCheckpoint = "none" /\ loaded = NoPoint
       IN  /\ LoadBlockCheckpoint(loaded)
           /\ checkpoint' = ResumePoint(loaded)
           /\ utxoImport' = IF import THEN ~DisableInitialUtxoImport ELSE utxoImport
           /\ spoiled' = (spoiled \/ (loaded # saved /\ ~(import /\ utxoImport')))
  /\ candidate' = checkpoint'
  /\ spc' = "save"
  /\ UNCHANGED <<balances, ipc, target, completed, attemptVars, peerFaults,
                 saved, dagPruning, dagTip, update, web>>
  /\ StartFrame

\* The initial checkpoint is saved (a failure is ignored) and the web server
\* is spawned; a requested import runs before the other tasks.
SaveInitialCheckpoint ==
  /\ spc = "save"
  /\ \/ saved' = checkpoint /\ UNCHANGED <<dbFaults, spoiled>>
     \/ DbFault /\ UNCHANGED saved /\ spoiled' = (spoiled \/ saved # checkpoint)
  /\ IF utxoImport
     THEN StartImport(dagPruning) /\ spc' = "import"
     ELSE UNCHANGED <<ipc, target, completed, attemptVars, peerFaults>> /\ spc' = "running"
  /\ web' = "spawned"
  /\ UNCHANGED <<balances, dagPruning, dagTip, checkpoint, candidate, update, utxoImport>>
  /\ StartFrame

FinishImport ==
  /\ spc = "import"
  /\ ipc = "idle"
  /\ spc' = "running"
  /\ UNCHANGED <<balances, importVars, saved, dagPruning, dagTip, checkpoint,
                 candidate, update, utxoImport, web>>
  /\ StartFrame

\* The blocks that can become the next candidate.
Ahead == (candidate + 1)..tip

\* What the blocks after from up to to change, each once.
WithChanges(from, to) ==
  [k \in Point |-> IF k \in (from + 1)..to THEN balances[k] + 1 ELSE balances[k]]

\* The running tasks: a candidate is ready, and the balances are taken from
\* previous_checkpoint to it (a failure is only logged).
UpdateBalances ==
  /\ spc = "running"
  /\ ~stopping
  /\ update = "none"
  /\ candidate' \in Ahead
  /\ \/ balances' = WithChanges(checkpoint, candidate') /\ update' = "done" /\ UNCHANGED dbFaults
     \/ DbFault /\ UNCHANGED balances /\ update' = "failed"
  /\ UNCHANGED <<ipc, target, completed, attemptVars, peerFaults, spoiled, spc, saved,
                 dagPruning, dagTip, checkpoint, utxoImport, web>>
  /\ StartFrame

\* Then the candidate is saved as the checkpoint (a failure is only logged).
SaveCheckpoint ==
  /\ spc = "running"
  /\ update # "none"
  /\ \/ /\ saved' = candidate
        /\ checkpoint' = candidate
        /\ spoiled' = (spoiled \/ update = "failed")
        /\ UNCHANGED dbFaults
     \/ /\ DbFault
        /\ UNCHANGED <<saved, checkpoint>>
        /\ spoiled' = (spoiled \/ update = "done")
  /\ update' = "none"
  /\ UNCHANGED <<balances, ipc, target, completed, attemptVars, peerFaults,
                 spc, dagPruning, dagTip, candidate, utxoImport, web>>
  /\ StartFrame

\* The web server opens its port and subscribes to the signal.  A signal sent
\* before that is never received.
WebListen ==
  /\ web = "spawned"
  /\ web' = IF stopping THEN "deaf" ELSE "listening"
  /\ UNCHANGED <<balances, importVars, spc, saved, dagPruning, dagTip, checkpoint,
                 candidate, update, utxoImport>>
  /\ StartFrame

\* Mutant of WebShutdown: the first message does not end the wait.
WebShutdownLate ==
  /\ web = "listening"
  /\ stopping
  /\ web' = "deaf"
  /\ UNCHANGED <<balances, importVars, spc, saved, dagPruning, dagTip, checkpoint,
                 candidate, update, utxoImport>>
  /\ StartFrame

\* Its graceful shutdown.
WebShutdown ==
  /\ web = "listening"
  /\ stopping
  /\ web' = "stopped"
  /\ UNCHANGED <<balances, importVars, spc, saved, dagPruning, dagTip, checkpoint,
                 candidate, update, utxoImport>>
  /\ StartFrame

\* try_join_all: the process ends when every task, the web server included,
\* has returned.
Stop ==
  /\ spc = "running"
  /\ stopping
  /\ update = "none"
  /\ web = "stopped"
  /\ spc' = "stopped"
  /\ UNCHANGED <<balances, importVars, saved, dagPruning, dagTip, checkpoint,
                 candidate, update, utxoImport, web>>
  /\ StartFrame

StartWork ==
  \/ GetBlockDagInfo
  \/ Decide
  \/ FinishRebuild
  \/ SelectCheckpoint
  \/ SaveInitialCheckpoint
  \/ FinishImport
  \/ SaveCheckpoint
  \/ WebListen
  \/ WebShutdown
  \/ Stop

Signal ==
  /\ AllowSignal
  /\ ~stopping
  /\ stopping' = TRUE
  /\ UNCHANGED <<pruningPoint, balances, outputs, importVars, tip, legacy, startVars, restarts>>

\* A process that is killed leaves balances that do not fit the checkpoint when
\* a rebuild had emptied them that the next start has no reason to repeat, when
\* an import runs whose pruning point is saved as the checkpoint already, and
\* when an update was committed and the candidate not yet saved.
KilledMidway ==
  \/ spc = "rebuild" /\ ~MustRebuild(dagTip)
  \/ spc = "import"
  \/ update = "done"

\* The process ends, by itself or killed, and is started again: only the
\* database is left.
Restart ==
  /\ restarts < MaxRestarts
  /\ restarts' = restarts + 1
  /\ stopping' = FALSE
  /\ spc' = "dag"
  /\ dagPruning' = 1
  /\ dagTip' = 1
  /\ checkpoint' = 1
  /\ candidate' = 1
  /\ update' = "none"
  /\ utxoImport' = FALSE
  /\ web' = "off"
  /\ ipc' = "idle"
  /\ target' = 1
  /\ completed' = FALSE
  /\ chunkCount' = 0
  /\ deltas' = None
  /\ inbox' = <<>>
  /\ peer' = "off"
  /\ served' = 0
  /\ spoiled' = (spoiled \/ KilledMidway)
  /\ UNCHANGED <<pruningPoint, balances, outputs, tip, legacy, saved, peerFaults, dbFaults>>

\* Nothing is left to do: the process ended, its tasks wait for new blocks, or
\* it waits for a web server that did not hear the signal.
Quiescent ==
  /\ \/ spc = "stopped"
     \/ spc = "running" /\ candidate >= tip /\ update = "none"
     \/ spc = "running" /\ stopping /\ web = "deaf" /\ update = "none"
  /\ UNCHANGED vars

Next ==
  \/ Network
  \/ PeerStep
  \/ ImportStep
  \/ StartWork
  \/ UpdateBalances
  \/ Signal
  \/ Restart
  \/ Quiescent

Spec == Init /\ [][Next]_vars
-----------------------------------------------------------------------------
\* When the tasks run and no candidate is being saved, the balances are those of
\* the UTXO set at the checkpoint they continue from.
BalancesFit ==
  spc = "running" /\ update = "none" /\ P2pAddress /\ IgnoreCheckpoint = "none" =>
     balances = UtxoSetAt(checkpoint)

\* The balances fit the checkpoint the tasks continue from (main.rs, "balance
\* tracking begins here") over restarts, retried imports and rebuilds.  Excepted
\* are --enable=force_utxo_import and, until the next rebuild (spoiled):
\*  - an import cut short by a signal, or one of whose statements failed;
\*  - a failed save of the rebuild's, or of another initial, checkpoint;
\*  - an update of the balances that failed while its candidate was saved, or
\*    was committed while the save failed (checkpoint.rs, both only logged);
\*  - a kill between these two, during an import, or during a rebuild that only
\*    a failing query had caused;
\*  - a start that does not rebuild although it has no checkpoint of its own (a
\*    legacy one is loaded) or one too old (a failing call hides that);
\*  - a start to which a failing query hides the saved checkpoint, unless it
\*    imports the UTXO set of the pruning point it resumes at instead.
\* What an update adds is taken to be what the blocks changed; module Indexer
\* has the cases in which it is not (BalancesLive).
BalancesMatchCheckpoint == ~spoiled /\ ~ForceUtxoImport => BalancesFit

\* An import that reports completion, and none of whose statements failed, has
\* every output in the database and has counted every output once
\* (persist_utxos_chunk, update_balances_absolute).
ImportExact ==
  spc \in {"rebuild", "import"} /\ ipc = "idle" /\ completed /\ P2pAddress /\ ~spoiled =>
     balances = UtxoSetAt(target) /\ 1..target \subseteq outputs

\* Flow control: while the peer waits for a request for more chunks, the
\* importer has chunks left that will make it send that request, so the two
\* never wait for each other until the time limit (IBD_BATCH_SIZE).
NoWindowStall == peer = "waiting" /\ ipc \in {"head", "recv"} => inbox # <<>>
-----------------------------------------------------------------------------
\* The process runs its steps, and a peer answers as long as it is not stopped.
Fairness ==
  /\ WF_vars(ImportStep)
  /\ WF_vars(StartWork)
  /\ WF_vars((PeerAsks \/ PeerSends) /\ PeerStep)

FairSpec == Spec /\ Fairness

\* Every start comes to an end although peers refuse, close, fall silent, are slow
\* or cannot be reached by an answer: the tasks run or the process stops.
\* Excepted is a start during which the pruning point moves, whose import no
\* peer will answer any more (utxo_set_importer.rs, UnexpectedPruningPoint), and
\* a peer that serves no longer and talks for ever, as each of its messages
\* begins the limit of 30 s anew.
StartSettles ==
  \/ <>[](peer = "chatting")
  \/ (spc = "dag") ~> (spc \in {"running", "stopped"} \/ dagPruning # pruningPoint)

\* A signal ends a process whose web server is up (main.rs, try_join_all).
SignalEndsProcess ==
  (stopping /\ web = "listening") ~> (spc = "stopped" \/ ~stopping)
=============================================================================
