-------------------------- MODULE StartupInvariant --------------------------
(***************************************************************************)
(* Why the balances may be trusted after a start: the inductive invariant  *)
(* behind ImportExact, NoWindowStall and BalancesMatchCheckpoint.          *)
(*                                                                         *)
(* Within an attempt the peer's chunks arrive complete and in order, so    *)
(* that counting them tells the importer how far the peer is and the sums  *)
(* are those of the chunks counted.  Between attempts nothing is left of   *)
(* the last one.  Across restarts the saved checkpoint says what the       *)
(* balances contain, or the next start will notice that they have to be    *)
(* rebuilt.                                                                *)
(***************************************************************************)
EXTENDS Startup

\* An attempt is going on.
Receiving == ipc \in {"head", "recv"}

\* The messages under way: the chunks between the one the importer counted last
\* and the one the peer sent last, and at most one message that is no chunk
\* after these.
InFlight ==
  LET n == served - chunkCount
  IN  /\ n \in Nat
      /\ Len(inbox) \in {n, n + 1}
      /\ \A i \in 1..Len(inbox) :
           /\ i <= n => inbox[i].payload = "Chunk" /\ inbox[i].chunk = chunkCount + i
           /\ i = n + 1 => /\ inbox[i].payload # "Chunk"
                           /\ inbox[i].payload = "RequestAddresses" => served = 0
                           /\ inbox[i].payload = "Done" => served = target
      /\ peer \in {"open", "serving", "waiting"} => Len(inbox) = n
      /\ peer \in {"open", "asked"} => served = 0

\* The peer waits for a request only after a full batch, of which the importer
\* has not counted all chunks yet.
WindowOpen ==
  peer = "waiting" => served % IbdBatchSize = 0 /\ chunkCount < served

\* The sums, the outputs and the balances while an attempt is going on.
AttemptExact ==
  /\ deltas = UtxoSetAt(chunkCount)
  /\ ~spoiled => 1..chunkCount \subseteq outputs /\ balances = None

AttemptInOrder ==
  /\ Receiving => /\ P2pAddress
                  /\ ~completed
                  /\ served <= target
                  /\ InFlight
                  /\ WindowOpen
                  /\ AttemptExact
  /\ ~Receiving => peer = "off"
  /\ ipc \in {"connect", "retry"} => ~completed
  /\ ipc # "idle" => spc \in {"rebuild", "import"}

\* What a completed import leaves behind.
ImportLeaves ==
  spc \in {"rebuild", "import"} /\ ipc = "idle" /\ P2pAddress /\ ~spoiled =>
     completed /\ balances = UtxoSetAt(target) /\ 1..target \subseteq outputs

\* What the balances contain from one step of the start to the next: those of
\* the checkpoint saved, or the next start will notice that it has to rebuild.
BalancesFollow ==
  /\ spc \in {"dag", "stopped"} => balances = UtxoSetAt(saved) \/ MustRebuild(tip)
  /\ spc = "decide" => balances = UtxoSetAt(saved) \/ MustRebuild(dagTip)
  /\ spc \in {"rebuild", "import"} => target = dagPruning
  /\ spc = "select" => saved # NoPoint /\ balances = UtxoSetAt(saved)
  /\ spc = "save" => IF utxoImport THEN checkpoint = dagPruning ELSE checkpoint = saved
  /\ spc = "save" => balances = UtxoSetAt(saved)
  /\ spc \in {"save", "import"} => candidate = checkpoint
  /\ spc = "import" => checkpoint = saved /\ checkpoint = dagPruning
  /\ spc = "running" => /\ checkpoint = saved
                        /\ checkpoint <= candidate
                        /\ update = "done" => balances = UtxoSetAt(candidate)
                        /\ update # "done" => balances = UtxoSetAt(saved)

\* Excepted are the options that break the connection on purpose, and what
\* BalancesMatchCheckpoint excepts.
StartInOrder ==
  /\ dagTip <= tip
  /\ update # "none" => spc = "running"
  /\ spc = "select" /\ utxoImport => ForceUtxoImport
  /\ P2pAddress /\ IgnoreCheckpoint = "none" /\ ~ForceUtxoImport /\ ~spoiled =>
       BalancesFollow

\* The invariant.
StartupSound == AttemptInOrder /\ ImportLeaves /\ StartInOrder
=============================================================================
