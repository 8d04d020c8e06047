-------------------------- MODULE UtxoSetImporter --------------------------
(***************************************************************************)
(* UtxoSetImporter: asks a peer for the UTXO set of the pruning point,     *)
(* stores its outputs chunk by chunk, adds the amounts up in memory and    *)
(* writes the balances in the end.  An attempt that fails (the peer closes *)
(* or says nothing for 30 s, a message cannot be sent, or the peer has     *)
(* another pruning point) is repeated from the beginning.                  *)
(*                                                                         *)
(* The blocks of the chain are points 1, 2, ... and point k changes the    *)
(* UTXO set by "change k", so that the UTXO set of point p is made of the  *)
(* changes 1..p.  The peer sends it in p chunks, one change each.  The     *)
(* balances are the number of times each change is contained in them.      *)
(***************************************************************************)
EXTENDS Integers, Sequences

CONSTANTS
  MaxPoint,       \* bound on the length of the chain
  IbdBatchSize,   \* IBD_BATCH_SIZE: chunks the peer sends per request (99)
  P2pAddress,     \* whether there is a peer address for the network
  MaxPeerFaults,  \* how often a peer may refuse, close, stop to serve or be slow
  MaxDbFaults     \* how often a statement of the database may fail

Point == 1..MaxPoint

ASSUME UtxoSetImporterAssumption ==
  /\ MaxPoint \in Nat \ {0}
  /\ IbdBatchSize \in Nat \ {0}
  /\ {MaxPeerFaults, MaxDbFaults} \subseteq Nat
  /\ P2pAddress \in BOOLEAN

VARIABLES
  pruningPoint,   \* the pruning point of the network
  balances,       \* the table balances
  outputs,        \* changes whose outputs are in transactions_outputs
  stopping,       \* SignalHandler.shutdown_sent
  ipc,            \* "idle", "connect", "head", "recv" or "retry"
  target,         \* pruning_point_hash of the importer
  completed,      \* completed
  chunkCount,     \* utxo_chunk_count
  deltas,         \* all_balance_deltas
  inbox,          \* the channel from the peer to the importer
  peer,           \* "off", "open", "asked", "serving", "waiting", "chatting"
                  \* (it serves no longer but sends other messages), "silent"
  served,         \* chunks the peer has sent
  peerFaults,     \* faults of peers so far
  dbFaults,       \* statements that failed so far
  spoiled         \* history: since the balances were last emptied for a
                  \* rebuild, something happened after which they need not
                  \* fit the checkpoint (BalancesMatchCheckpoint lists what)

attemptVars == <<chunkCount, deltas, inbox, peer, served>>

importVars == <<ipc, target, completed, attemptVars, peerFaults, dbFaults, spoiled>>

None == [k \in Point |-> 0]

\* The balances the UTXO set of point p makes.
UtxoSetAt(p) == [k \in Point |-> IF k <= p THEN 1 ELSE 0]

\* The messages of the peer that matter; only a chunk has contents.  (OnOther
\* stands for Version, Ping and all others.)
Payload == {"RequestAddresses", "Chunk", "Done", "Unexpected"}

Message == [payload : Payload, chunk : 0..MaxPoint]

ImportInit ==
  /\ ipc = "idle"
  /\ target = 1
  /\ completed = FALSE
  /\ chunkCount = 0
  /\ deltas = None
  /\ inbox = <<>>
  /\ peer = "off"
  /\ served = 0
  /\ peerFaults = 0
  /\ dbFaults = 0
  /\ spoiled = FALSE

ImportTypeOK ==
  /\ pruningPoint \in Point
  /\ balances \in [Point -> Nat]
  /\ outputs \subseteq Point
  /\ stopping \in BOOLEAN
  /\ ipc \in {"idle", "connect", "head", "recv", "retry"}
  /\ target \in Point
  /\ completed \in BOOLEAN
  /\ chunkCount \in 0..MaxPoint
  /\ deltas \in [Point -> Nat]
  /\ inbox \in Seq(Message)
  /\ peer \in {"off", "open", "asked", "serving", "waiting", "chatting", "silent"}
  /\ served \in 0..MaxPoint
  /\ peerFaults \in 0..MaxPeerFaults
  /\ dbFaults \in 0..MaxDbFaults
  /\ spoiled \in BOOLEAN
-----------------------------------------------------------------------------
\* One more fault of a peer.
PeerFault ==
  /\ peerFaults < MaxPeerFaults
  /\ peerFaults' = peerFaults + 1

\* One more statement that fails.
DbFault ==
  /\ dbFaults < MaxDbFaults
  /\ dbFaults' = dbFaults + 1

\* A statement succeeds, or fails and that is ignored.
Statement(success, unchanged) ==
  \/ success /\ UNCHANGED <<dbFaults, spoiled>>
  \/ DbFault /\ unchanged /\ spoiled' = TRUE

\* The peer: it asks for addresses, ...
PeerAsks ==
  /\ peer = "open"
  /\ inbox' = Append(inbox, [payload |-> "RequestAddresses", chunk |-> 0])
  /\ peer' = "asked"
  /\ UNCHANGED <<served, peerFaults>>

\* ... and when asked for the UTXO set sends it, IbdBatchSize chunks at a time,
\* as long as it is that of its own pruning point.
PeerSends ==
  /\ peer = "serving"
  /\ \/ /\ target # pruningPoint
        /\ inbox' = Append(inbox, [payload |-> "Unexpected", chunk |-> 0])
        /\ peer' = "silent"
        /\ UNCHANGED served
     \/ /\ target = pruningPoint
        /\ served < target
        /\ inbox' = Append(inbox, [payload |-> "Chunk", chunk |-> served + 1])
        /\ served' = served + 1
        /\ peer' = IF served' % IbdBatchSize = 0 THEN "waiting" ELSE "serving"
     \/ /\ target = pruningPoint
        /\ served = target
        /\ inbox' = Append(inbox, [payload |-> "Done", chunk |-> 0])
        /\ peer' = "silent"
        /\ UNCHANGED served
  /\ UNCHANGED peerFaults

\* It stops to serve, and stops to talk then or later.
PeerStops ==
  /\ \/ /\ peer \in {"open", "asked", "serving", "waiting"}
        /\ peer' \in {"chatting", "silent"}
        /\ PeerFault
     \/ /\ peer = "chatting"
        /\ peer' = "silent"
        /\ UNCHANGED peerFaults
  /\ UNCHANGED <<inbox, served>>

PeerNext ==
  /\ PeerAsks \/ PeerSends \/ PeerStops
  /\ UNCHANGED <<ipc, target, completed, chunkCount, deltas, dbFaults, spoiled, balances, outputs>>
-----------------------------------------------------------------------------
\* The call of start().
StartImport(p) ==
  /\ ipc' = "connect"
  /\ target' = p
  /\ completed' = FALSE
  /\ UNCHANGED <<attemptVars, peerFaults>>

\* Mutant of ConnectPeer: after a fault the dead connection is used again.
ConnectPeerAgain ==
  \/ ipc' = "head" /\ peer' = (IF peerFaults > 0 THEN "silent" ELSE "open") /\ UNCHANGED peerFaults
  \/ ipc' = "retry" /\ peer' = "off" /\ PeerFault

\* connect_peer: a peer that answers, or none.
ConnectPeer ==
  \/ ipc' = "head" /\ peer' = "open" /\ UNCHANGED peerFaults
  \/ ipc' = "retry" /\ peer' = "off" /\ PeerFault

\* Mutant of Attempt: the chunks of an attempt that failed stay counted.
AttemptKeepingCount ==
  /\ Statement(balances' = None, UNCHANGED balances)
  /\ UNCHANGED chunkCount
  /\ deltas' = None
  /\ inbox' = <<>>
  /\ served' = 0
  /\ ConnectPeer

\* Mutant of Attempt: the sums of an attempt that failed are kept.
AttemptKeepingSums ==
  /\ Statement(balances' = None, UNCHANGED balances)
  /\ chunkCount' = 0
  /\ UNCHANGED deltas
  /\ inbox' = <<>>
  /\ served' = 0
  /\ ConnectPeer

\* An attempt empties the balances and connects.  The sums begin anew.
Attempt ==
  /\ Statement(balances' = None, UNCHANGED balances)
  /\ chunkCount' = 0
  /\ deltas' = None
  /\ inbox' = <<>>
  /\ served' = 0
  /\ ConnectPeer

\* The head of the loop over attempts.
Connect ==
  /\ ipc = "connect"
  /\ ~stopping
  /\ P2pAddress
  /\ Attempt
  /\ UNCHANGED <<target, completed, outputs>>

\* Without an address there is nothing to import; a signal ends the import.
ReturnEarly ==
  /\ ipc = "connect"
  /\ stopping \/ ~P2pAddress
  /\ ipc' = "idle"
  /\ completed' = (~stopping /\ ~P2pAddress)
  /\ spoiled' = (spoiled \/ stopping)
  /\ UNCHANGED <<target, attemptVars, peerFaults, dbFaults, balances, outputs>>

\* The end of an attempt that did not complete: all peers are terminated.
EndAttempt ==
  /\ ipc' = "retry"
  /\ peer' = "off"
  /\ inbox' = <<>>

FailAttempt ==
  /\ EndAttempt
  /\ UNCHANGED <<target, completed, chunkCount, deltas, served, dbFaults, spoiled,
                 balances, outputs>>

\* The head of the receive loop.
Receive ==
  /\ ipc = "head"
  /\ \/ /\ ~stopping
        /\ ipc' = "recv"
        /\ UNCHANGED <<target, completed, attemptVars, dbFaults, spoiled, balances, outputs>>
     \/ /\ stopping
        /\ FailAttempt
  /\ UNCHANGED peerFaults

\* The next message is there and has this payload.
Received(payload) ==
  /\ ipc = "recv"
  /\ inbox # <<>>
  /\ Head(inbox).payload = payload

\* Answers with no addresses and asks for the UTXO set, or cannot send.
OnRequestAddresses ==
  /\ Received("RequestAddresses")
  /\ \/ /\ inbox' = Tail(inbox)
        /\ peer' = IF peer = "asked" THEN "serving" ELSE peer
        /\ ipc' = "head"
        /\ UNCHANGED <<target, completed, chunkCount, deltas, served, peerFaults, dbFaults,
                       spoiled, balances, outputs>>
     \/ PeerFault /\ FailAttempt

\* Mutant of RequestNext: one chunk late.
RequestNextLate == chunkCount' % IbdBatchSize = 1

\* Whether the next chunks are asked for.
RequestNext == chunkCount' % IbdBatchSize = 0

\* persist_utxos_chunk, and at the end of a batch a request for more, which may
\* not be sent.  A failing insert counts as no rows.  outputs stands for the rows
\* in transactions_outputs; the acceptances without a block that are inserted
\* with them are left out.
OnChunk ==
  /\ Received("Chunk")
  /\ LET k == Head(inbox).chunk
     IN  /\ deltas' = [deltas EXCEPT ![k] = @ + 1]
         /\ Statement(outputs' = outputs \cup {k}, UNCHANGED outputs)
  /\ chunkCount' = chunkCount + 1
  /\ \/ /\ inbox' = Tail(inbox)
        /\ peer' = IF RequestNext /\ peer = "waiting" THEN "serving" ELSE peer
        /\ ipc' = "head"
        /\ UNCHANGED peerFaults
     \/ RequestNext /\ PeerFault /\ EndAttempt
  /\ UNCHANGED <<target, completed, served, balances>>

\* update_balances_absolute: writes the balance of every address of the sums.
UpdateBalancesAbsolute ==
  balances' = [k \in Point |-> IF deltas[k] > 0 THEN deltas[k] ELSE balances[k]]

\* The balances are written (a failure is ignored) and the import is complete.
OnDone ==
  /\ Received("Done")
  /\ inbox' = Tail(inbox)
  /\ Statement(UpdateBalancesAbsolute, UNCHANGED balances)
  /\ ipc' = "idle"
  /\ completed' = TRUE
  /\ peer' = "off"
  /\ UNCHANGED <<target, chunkCount, deltas, served, peerFaults, outputs>>

OnUnexpectedPruningPoint ==
  /\ Received("Unexpected")
  /\ FailAttempt
  /\ UNCHANGED peerFaults

\* Any other message changes nothing, except that the limit of 30 s begins anew.
\* (The answer to a Ping may fail to be sent: the second half of Timeout.)
OnOther ==
  /\ ipc = "recv"
  /\ inbox = <<>>
  /\ peer \in {"open", "asked", "serving", "waiting", "chatting"}
  /\ ipc' = "head"
  /\ UNCHANGED <<target, completed, attemptVars, peerFaults, dbFaults, spoiled,
                 balances, outputs>>

\* No message of any kind for 30 s, or the channel is closed.  A peer that means
\* to send may be too slow; one that keeps talking is not given up.
Timeout ==
  /\ ipc = "recv"
  /\ inbox = <<>>
  /\ \/ peer \in {"silent", "waiting"} /\ UNCHANGED peerFaults
     \/ peer \notin {"silent", "waiting"} /\ PeerFault
  /\ FailAttempt

\* After 10 s the next attempt begins.
Retry ==
  /\ ipc = "retry"
  /\ ipc' = "connect"
  /\ UNCHANGED <<target, completed, attemptVars, peerFaults, dbFaults, spoiled,
                 balances, outputs>>

ImportWork ==
  \/ Connect
  \/ ReturnEarly
  \/ Receive
  \/ OnRequestAddresses
  \/ OnChunk
  \/ OnDone
  \/ OnUnexpectedPruningPoint
  \/ OnOther
  \/ Timeout
  \/ Retry
=============================================================================
