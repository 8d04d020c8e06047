--------------------------- MODULE StartupProofs ---------------------------
(***************************************************************************)
(* Type correctness of the start, the flow control and exactness of the    *)
(* import, and the fit of balances and checkpoint, for every length of the *)
(* chain, size of a batch, number of faults and restarts and every option. *)
(***************************************************************************)
EXTENDS StartupInvariant, SequenceTheorems, TLAPS

Sound == TypeOK /\ StartupSound

\* The constants.
LEMMA Constants ==
  /\ MaxPoint \in Nat \ {0} /\ IbdBatchSize \in Nat \ {0}
  /\ MaxPeerFaults \in Nat /\ MaxDbFaults \in Nat /\ MaxRestarts \in Nat
  /\ RebuildThreshold \in Nat /\ LegacyCheckpoints \subseteq Point \cup {NoPoint}
  /\ 1 \in Point /\ \A p \in Point : p \in Nat \ {0} /\ p <= MaxPoint
  BY UtxoSetImporterAssumption, StartupAssumption DEF Point

\* The UTXO sets are tables of balances; that of no point is empty.
LEMMA UtxoSets ==
  /\ None \in [Point -> Nat]
  /\ UtxoSetAt(0) = None
  /\ \A p : UtxoSetAt(p) \in [Point -> Nat]
  /\ \A p \in Nat : [UtxoSetAt(p) EXCEPT ![p + 1] = @ + 1] = UtxoSetAt(p + 1)
  <1>1. /\ None \in [Point -> Nat]
        /\ \A p : UtxoSetAt(p) \in [Point -> Nat]
    BY DEF None, UtxoSetAt
  <1>2. UtxoSetAt(0) = None
    BY Constants DEF None, UtxoSetAt
  <1>3. ASSUME NEW p \in Nat
        PROVE  [UtxoSetAt(p) EXCEPT ![p + 1] = @ + 1] = UtxoSetAt(p + 1)
    BY Constants DEF UtxoSetAt
  <1> QED
    BY <1>1, <1>2, <1>3

\* A message arrives.
LEMMA Sent ==
  ASSUME NEW s \in Seq(Message), NEW m \in Message
  PROVE  /\ Append(s, m) \in Seq(Message)
         /\ Append(s, m) # <<>>
         /\ Len(s) \in Nat
         /\ Len(Append(s, m)) = Len(s) + 1
         /\ \A i \in 1..Len(s) : Append(s, m)[i] = s[i]
         /\ Append(s, m)[Len(s) + 1] = m
  BY AppendProperties, LenProperties, EmptySeq

\* A message is taken.
LEMMA Taken ==
  ASSUME NEW s \in Seq(Message), s # <<>>
  PROVE  /\ Tail(s) \in Seq(Message)
         /\ Len(s) \in Nat \ {0}
         /\ Len(Tail(s)) = Len(s) - 1
         /\ Head(s) = s[1] /\ s[1] \in Message
         /\ \A i \in 1..Len(Tail(s)) : i + 1 \in 1..Len(s) /\ Tail(s)[i] = s[i + 1]
  <1>1. /\ Tail(s) \in Seq(Message) /\ Len(Tail(s)) = Len(s) - 1
        /\ Head(s) \in Message
        /\ \A i \in 1..Len(Tail(s)) : Tail(s)[i] = s[i + 1]
    BY HeadTailProperties
  <1>2. Len(s) \in Nat \ {0} /\ Head(s) = s[1]
    BY EmptySeq, LenProperties
  <1> QED
    BY <1>1, <1>2

\* Between attempts nothing is under way.
LEMMA NothingInFlight ==
  /\ <<>> \in Seq(Message)
  /\ Len(<<>>) = 0
  /\ \A i \in 1..Len(<<>>) : FALSE
  BY EmptySeq

\* The initial states.
LEMMA InitSound == Init => Sound
  <1> SUFFICES ASSUME Init PROVE Sound
    OBVIOUS
  <1> USE Constants, UtxoSets, NothingInFlight
  <1>1. TypeOK
    <2>1. pruningPoint \in Point /\ tip \in Point
      BY DEF Init, Point
    <2>2. completed \in BOOLEAN /\ stopping \in BOOLEAN /\ spoiled \in BOOLEAN /\ utxoImport \in BOOLEAN
      BY Zenon DEF Init, ImportInit
    <2>3. ImportTypeOK
      BY <2>1, <2>2 DEF Init, ImportInit, ImportTypeOK
    <2>4. legacy \in Point \cup {NoPoint}
      BY DEF Init
    <2> QED
      BY <2>1, <2>2, <2>3, <2>4 DEF Init, TypeOK, NoPoint
  <1>2. AttemptInOrder /\ ImportLeaves
    BY DEF Init, ImportInit, AttemptInOrder, Receiving, ImportLeaves
  <1>3. StartInOrder
    BY DEF Init, StartInOrder, BalancesFollow, Point, NoPoint
  <1> QED
    BY <1>1, <1>2, <1>3 DEF Sound, StartupSound
-----------------------------------------------------------------------------
\* While an import runs, a step of it or of its peer leaves the start alone.
LEMMA StartFrameKept ==
  ASSUME StartInOrder, spc \in {"rebuild", "import"}, UNCHANGED <<tip, startVars, target>>,
         ~spoiled' => ~spoiled
  PROVE  StartInOrder'
  BY DEF StartInOrder, BalancesFollow, startVars, MustRebuild, TooOld

\* A step of the peer.
LEMMA PeerSound == Sound /\ PeerStep => Sound'
  <1> SUFFICES ASSUME Sound, PeerStep PROVE Sound'
    OBVIOUS
  <1>1. /\ TypeOK /\ ImportTypeOK /\ AttemptInOrder /\ ImportLeaves /\ StartInOrder
        /\ UNCHANGED <<ipc, target, completed, chunkCount, deltas, dbFaults, spoiled, balances,
                       outputs, pruningPoint, stopping, tip, legacy, startVars, restarts>>
        /\ PeerAsks \/ PeerSends \/ PeerStops
    BY DEF Sound, StartupSound, TypeOK, PeerStep, PeerNext
  <1>2. Receiving
    BY <1>1 DEF AttemptInOrder, PeerAsks, PeerSends, PeerStops
  <1>3. /\ spc \in {"rebuild", "import"} /\ P2pAddress /\ ~completed /\ served <= target
        /\ InFlight /\ WindowOpen /\ AttemptExact /\ ipc # "idle"
        /\ inbox \in Seq(Message) /\ served \in 0..MaxPoint /\ target \in Point
        /\ chunkCount \in Nat
    BY <1>1, <1>2, Constants DEF AttemptInOrder, Receiving, ImportTypeOK
  <1>4. StartInOrder' /\ ImportLeaves'
    BY <1>1, <1>3, StartFrameKept DEF ImportLeaves, startVars
  <1>5. Receiving' /\ AttemptExact'
    BY <1>1, <1>2, <1>3 DEF Receiving, AttemptExact
  <1>6. ASSUME served' \in 0..MaxPoint, served' <= target, inbox' \in Seq(Message),
               peer' \in {"open", "asked", "serving", "waiting", "chatting", "silent"},
               peerFaults' \in 0..MaxPeerFaults, InFlight', WindowOpen'
        PROVE  Sound'
    <2>1. ImportTypeOK'
      BY <1>1, <1>6 DEF ImportTypeOK
    <2>2. TypeOK'
      BY <1>1, <2>1 DEF TypeOK, startVars
    <2>3. AttemptInOrder'
      BY <1>1, <1>3, <1>5, <1>6 DEF AttemptInOrder, Receiving, startVars
    <2> QED
      BY <1>4, <2>2, <2>3 DEF Sound, StartupSound
  <1>7. CASE PeerAsks
    <2> DEFINE m == [payload |-> "RequestAddresses", chunk |-> 0]
    <2>1. m \in Message
      BY Constants DEF Message, Payload
    <2>2. /\ inbox' = Append(inbox, m) /\ peer' = "asked" /\ peer = "open"
          /\ UNCHANGED <<served, peerFaults>>
      BY <1>7 DEF PeerAsks
    <2>3. InFlight'
      BY <1>1, <1>3, <2>1, <2>2, Sent DEF InFlight
    <2>4. WindowOpen'
      BY <2>2 DEF WindowOpen
    <2> QED
      BY <1>1, <1>3, <1>6, <2>1, <2>2, <2>3, <2>4, Sent DEF ImportTypeOK
  <1>8. CASE PeerSends
    <2>1. peer = "serving" /\ UNCHANGED peerFaults /\ Len(inbox) = served - chunkCount
      BY <1>3, <1>8 DEF PeerSends, InFlight
    <2>2. ASSUME NEW p \in {"Unexpected", "Done"}, p = "Done" => served = target,
                 inbox' = Append(inbox, [payload |-> p, chunk |-> 0]),
                 peer' = "silent", UNCHANGED served
          PROVE  Sound'
      <3> DEFINE m == [payload |-> p, chunk |-> 0]
      <3>1. m \in Message
        BY Constants DEF Message, Payload
      <3>2. InFlight'
        BY <1>1, <1>3, <2>1, <2>2, <3>1, Sent DEF InFlight
      <3>3. WindowOpen'
        BY <2>2 DEF WindowOpen
      <3> QED
        BY <1>1, <1>3, <1>6, <2>1, <2>2, <3>1, <3>2, <3>3, Sent DEF ImportTypeOK
    <2>3. ASSUME served < target,
                 inbox' = Append(inbox, [payload |-> "Chunk", chunk |-> served + 1]),
                 served' = served + 1,
                 peer' = IF served' % IbdBatchSize = 0 THEN "waiting" ELSE "serving"
          PROVE  Sound'
      <3> DEFINE m == [payload |-> "Chunk", chunk |-> served + 1]
      <3>1. m \in Message /\ served' \in 0..MaxPoint /\ served' <= target
        BY <1>3, <2>3, Constants DEF Message, Payload
      <3>2. peer' \in {"waiting", "serving"}
        BY <2>3
      <3>3. InFlight'
        <4> DEFINE n == served - chunkCount
        <4>1. /\ n \in Nat /\ Len(inbox) = n /\ Len(inbox') = n + 1
              /\ served' - chunkCount' = n + 1
              /\ \A i \in 1..n : inbox'[i] = inbox[i]
              /\ inbox'[n + 1] = m
          BY <1>1, <1>3, <2>1, <2>3, <3>1, Sent DEF InFlight
        <4>2. \A i \in 1..n : inbox[i].payload = "Chunk" /\ inbox[i].chunk = chunkCount + i
          BY <1>3, <4>1 DEF InFlight
        <4>3. m.payload = "Chunk" /\ m.chunk = chunkCount + n + 1
          BY <1>3, <4>1
        <4>4. chunkCount' = chunkCount /\ chunkCount \in Nat
          BY <1>1, <1>3
        <4> HIDE DEF n, m
        <4>5. \A i \in 1..(n + 1) : i \in 1..n \/ i = n + 1
          BY <4>1
        <4>6. \A i \in 1..(n + 1) : inbox'[i].payload = "Chunk" /\ inbox'[i].chunk = chunkCount' + i
          BY <4>1, <4>2, <4>3, <4>4, <4>5
        <4> QED
          BY <3>2, <4>1, <4>6 DEF InFlight
      <3>4. WindowOpen'
        <4>1. chunkCount < served' /\ UNCHANGED chunkCount
          BY <1>1, <1>3, <2>3 DEF InFlight
        <4>2. peer' = "waiting" => served' % IbdBatchSize = 0
          BY <2>3
        <4> QED
          BY <4>1, <4>2 DEF WindowOpen
      <3> QED
        BY <1>1, <1>3, <1>6, <2>1, <2>3, <3>1, <3>2, <3>3, <3>4, Sent DEF ImportTypeOK
    <2> QED
      BY <1>8, <2>2, <2>3 DEF PeerSends
  <1>9. CASE PeerStops
    <2>1. /\ peer' \in {"chatting", "silent"} /\ UNCHANGED <<inbox, served>>
          /\ peerFaults' \in 0..MaxPeerFaults
      BY <1>1, <1>9, Constants DEF PeerStops, PeerFault, ImportTypeOK
    <2>2. InFlight' /\ WindowOpen'
      BY <1>1, <1>3, <2>1 DEF InFlight, WindowOpen
    <2> QED
      BY <1>3, <1>6, <2>1, <2>2
  <1> QED
    BY <1>1, <1>7, <1>8, <1>9

\* The count of failed statements keeps its bound.
LEMMA DbFaultCounted ==
  ASSUME dbFaults \in 0..MaxDbFaults, dbFaults' = dbFaults \/ DbFault
  PROVE  dbFaults' \in 0..MaxDbFaults
  BY Constants DEF DbFault

\* A statement never makes a spoiled import good again.
LEMMA StatementSpoils ==
  ASSUME spoiled \in BOOLEAN, dbFaults \in 0..MaxDbFaults,
         NEW success, NEW unchanged, Statement(success, unchanged)
  PROVE  /\ spoiled' \in BOOLEAN
         /\ ~spoiled' => ~spoiled /\ success
         /\ success \/ unchanged
         /\ dbFaults' \in 0..MaxDbFaults
  <1>1. dbFaults' = dbFaults \/ DbFault
    BY DEF Statement
  <1>2. dbFaults' \in 0..MaxDbFaults
    BY <1>1, DbFaultCounted
  <1>3. /\ spoiled' \in BOOLEAN
        /\ ~spoiled' => ~spoiled /\ success
        /\ success \/ unchanged
    BY DEF Statement
  <1> QED
    BY <1>2, <1>3

\* What the types and the order of a step of the importer come down to.
LEMMA ImportStepSound ==
  ASSUME Sound, ImportStep, AttemptInOrder', ImportLeaves',
         balances' \in [Point -> Nat], outputs' \subseteq Point,
         ipc' \in {"idle", "connect", "head", "recv", "retry"},
         target' = target, completed' \in BOOLEAN, chunkCount' \in 0..MaxPoint,
         deltas' \in [Point -> Nat], inbox' \in Seq(Message),
         peer' \in {"off", "open", "asked", "serving", "waiting", "chatting", "silent"},
         served' \in 0..MaxPoint, peerFaults' \in 0..MaxPeerFaults,
         dbFaults' \in 0..MaxDbFaults,
         spoiled' \in BOOLEAN, ~spoiled' => ~spoiled, ipc # "idle"
  PROVE  Sound'
  <1>1. UNCHANGED <<pruningPoint, stopping, tip, legacy, startVars, restarts>>
    BY DEF ImportStep
  <1>2. ImportTypeOK'
    BY <1>1 DEF Sound, TypeOK, ImportTypeOK
  <1>3. TypeOK'
    BY <1>1, <1>2 DEF Sound, TypeOK, startVars
  <1>4. spc \in {"rebuild", "import"}
    BY DEF Sound, StartupSound, AttemptInOrder
  <1>5. StartInOrder'
    BY <1>1, <1>4, StartFrameKept DEF Sound, StartupSound
  <1> QED
    BY <1>3, <1>5 DEF Sound, StartupSound

\* The count of faults of the peers keeps its bound.
LEMMA PeerFaultCounted ==
  ASSUME peerFaults \in 0..MaxPeerFaults, peerFaults' = peerFaults \/ PeerFault
  PROVE  peerFaults' \in 0..MaxPeerFaults
  BY Constants DEF PeerFault

\* An attempt fails.
LEMMA FailAttemptSound ==
  ASSUME Sound, ImportStep, FailAttempt, Receiving, UNCHANGED peerFaults \/ PeerFault
  PROVE  Sound'
  <1>1. /\ TypeOK /\ ImportTypeOK /\ AttemptInOrder /\ ImportLeaves
        /\ spc' = spc
    BY DEF Sound, StartupSound, TypeOK, ImportStep, startVars
  <1>2. peerFaults' \in 0..MaxPeerFaults
    BY <1>1, PeerFaultCounted DEF ImportTypeOK
  <1>3. /\ ipc' = "retry" /\ peer' = "off" /\ inbox' = <<>>
        /\ UNCHANGED <<target, completed, chunkCount, deltas, served, dbFaults, spoiled,
                       balances, outputs>>
    BY DEF FailAttempt, EndAttempt
  <1>4. ~completed /\ spc \in {"rebuild", "import"} /\ ipc # "idle"
    BY <1>1 DEF AttemptInOrder, Receiving
  <1>5. AttemptInOrder' /\ ImportLeaves'
    BY <1>1, <1>3, <1>4 DEF AttemptInOrder, Receiving, ImportLeaves
  <1> QED
    BY <1>1, <1>2, <1>3, <1>4, <1>5, NothingInFlight, ImportStepSound DEF ImportTypeOK

\* An attempt begins, ends or goes on without a message.
LEMMA ImportControlSound ==
  ASSUME Sound, ImportStep,
         \/ Connect \/ ReturnEarly \/ Receive \/ OnUnexpectedPruningPoint \/ OnOther
         \/ Timeout \/ Retry
  PROVE  Sound'
  <1>1. /\ TypeOK /\ ImportTypeOK /\ AttemptInOrder /\ ImportLeaves
        /\ spc' = spc
    BY DEF Sound, StartupSound, TypeOK, ImportStep, startVars
  <1>2. peerFaults' = peerFaults \/ PeerFault => peerFaults' \in 0..MaxPeerFaults
    <2>1. peerFaults \in 0..MaxPeerFaults /\ MaxPeerFaults \in Nat
      BY <1>1, Constants DEF ImportTypeOK
    <2> QED
      BY <2>1 DEF PeerFault
  <1> USE Constants, UtxoSets, NothingInFlight
  <1>3. ASSUME FailAttempt, Receiving, UNCHANGED peerFaults \/ PeerFault
        PROVE  Sound'
    BY <1>3, FailAttemptSound
  <1>4. CASE Connect
    <2>1. /\ ipc = "connect" /\ P2pAddress /\ Attempt /\ UNCHANGED <<target, completed, outputs>>
          /\ Statement(balances' = None, UNCHANGED balances)
          /\ chunkCount' = 0 /\ deltas' = None /\ inbox' = <<>> /\ served' = 0
          /\ \/ ipc' = "head" /\ peer' = "open" /\ UNCHANGED peerFaults
             \/ ipc' = "retry" /\ peer' = "off" /\ PeerFault
      BY <1>4 DEF Connect, Attempt, ConnectPeer
    <2>2. /\ spoiled' \in BOOLEAN /\ (~spoiled' => ~spoiled /\ balances' = None)
          /\ balances' \in [Point -> Nat] /\ dbFaults' \in 0..MaxDbFaults
      BY <1>1, <2>1, StatementSpoils DEF ImportTypeOK
    <2>3. ~completed /\ spc \in {"rebuild", "import"} /\ target \in Point
      BY <1>1, <2>1 DEF AttemptInOrder, ImportTypeOK
    <2>4. InFlight' /\ WindowOpen'
      BY <2>1 DEF InFlight, WindowOpen
    <2>5. AttemptExact'
      BY <2>1, <2>2 DEF AttemptExact
    <2>6. AttemptInOrder' /\ ImportLeaves'
      BY <1>1, <2>1, <2>3, <2>4, <2>5 DEF AttemptInOrder, Receiving, ImportLeaves
    <2>7. /\ chunkCount' \in 0..MaxPoint /\ deltas' \in [Point -> Nat] /\ served' \in 0..MaxPoint
          /\ inbox' \in Seq(Message) /\ outputs' \subseteq Point
          /\ target' = target /\ completed' \in BOOLEAN
      BY <1>1, <2>1 DEF ImportTypeOK
    <2>8. /\ ipc' \in {"head", "retry"} /\ peer' \in {"open", "off"}
          /\ peerFaults' \in 0..MaxPeerFaults
      BY <1>2, <2>1
    <2> QED
      BY <2>1, <2>2, <2>6, <2>7, <2>8, ImportStepSound
  <1>5. CASE ReturnEarly
    <2>1. /\ ipc = "connect" /\ (stopping \/ ~P2pAddress) /\ ipc' = "idle"
          /\ completed' = (~stopping /\ ~P2pAddress)
          /\ spoiled' = (spoiled \/ stopping)
          /\ UNCHANGED <<target, chunkCount, deltas, inbox, peer, served, peerFaults, dbFaults,
                         balances, outputs>>
      BY <1>5 DEF ReturnEarly, attemptVars
    <2>2. completed' \in BOOLEAN /\ spoiled' \in BOOLEAN /\ (~spoiled' => ~spoiled)
          /\ (~spoiled' => ~P2pAddress)
      BY <2>1
    <2>3. peer = "off"
      BY <1>1, <2>1 DEF AttemptInOrder, Receiving
    <2>4. AttemptInOrder' /\ ImportLeaves'
      BY <2>1, <2>2, <2>3 DEF AttemptInOrder, Receiving, ImportLeaves
    <2> QED
      BY <1>1, <1>2, <2>1, <2>2, <2>4, ImportStepSound DEF ImportTypeOK
  <1>6. CASE Receive
    <2>1. CASE FailAttempt /\ UNCHANGED peerFaults
      BY <1>3, <1>6, <2>1 DEF Receive, Receiving
    <2>2. CASE /\ ipc' = "recv"
               /\ UNCHANGED <<target, completed, attemptVars, dbFaults, spoiled, balances, outputs,
                              peerFaults>>
      <3>1. Receiving /\ Receiving' /\ ipc # "idle"
        BY <1>6, <2>2 DEF Receive, Receiving
      <3>2. UNCHANGED <<target, completed, chunkCount, deltas, inbox, peer, served, dbFaults,
                        spoiled, balances, outputs, peerFaults>>
        BY <2>2 DEF attemptVars
      <3>3. InFlight' /\ WindowOpen' /\ AttemptExact'
        BY <1>1, <3>1, <3>2 DEF AttemptInOrder, InFlight, WindowOpen, AttemptExact
      <3>4. AttemptInOrder' /\ ImportLeaves'
        BY <1>1, <2>2, <3>1, <3>2, <3>3 DEF AttemptInOrder, Receiving, ImportLeaves
      <3> QED
        BY <1>1, <1>2, <2>2, <3>1, <3>2, <3>4, ImportStepSound DEF ImportTypeOK
    <2> QED
      BY <1>6, <2>1, <2>2 DEF Receive
  <1>7. CASE OnUnexpectedPruningPoint
    BY <1>3, <1>7 DEF OnUnexpectedPruningPoint, Received, Receiving
  <1>8. CASE Timeout
    BY <1>3, <1>8 DEF Timeout, Receiving
  <1>9. CASE Retry
    <2>1. /\ ipc = "retry" /\ ipc' = "connect"
          /\ UNCHANGED <<target, completed, chunkCount, deltas, inbox, peer, served, dbFaults,
                         spoiled, balances, outputs, peerFaults>>
      BY <1>9 DEF Retry, attemptVars
    <2>2. AttemptInOrder' /\ ImportLeaves'
      BY <1>1, <2>1 DEF AttemptInOrder, Receiving, ImportLeaves
    <2> QED
      BY <1>1, <1>2, <2>1, <2>2, ImportStepSound DEF ImportTypeOK
  <1>10. CASE OnOther
    <2>1. /\ Receiving /\ Receiving' /\ ipc # "idle" /\ ipc' = "head"
          /\ UNCHANGED <<target, completed, chunkCount, deltas, inbox, peer, served, dbFaults,
                         spoiled, balances, outputs, peerFaults>>
      BY <1>10 DEF OnOther, Receiving, attemptVars
    <2>2. InFlight' /\ WindowOpen' /\ AttemptExact'
      BY <1>1, <2>1 DEF AttemptInOrder, InFlight, WindowOpen, AttemptExact
    <2>3. AttemptInOrder' /\ ImportLeaves'
      BY <1>1, <2>1, <2>2 DEF AttemptInOrder, Receiving, ImportLeaves
    <2> QED
      BY <1>1, <1>2, <2>1, <2>3, ImportStepSound DEF ImportTypeOK
  <1> QED
    BY <1>4, <1>5, <1>6, <1>7, <1>8, <1>9, <1>10

\* The chunk that is taken is the next one.
LEMMA NextChunk ==
  ASSUME Sound, Received("Chunk")
  PROVE  /\ Head(inbox).chunk = chunkCount + 1
         /\ chunkCount + 1 \in Point /\ chunkCount + 1 \in 0..MaxPoint
  <1>1. /\ ImportTypeOK /\ AttemptInOrder /\ Receiving /\ inbox # <<>>
        /\ Head(inbox).payload = "Chunk"
    BY DEF Sound, StartupSound, TypeOK, Received, Receiving
  <1>2. InFlight
    BY <1>1 DEF AttemptInOrder
  <1>3. inbox \in Seq(Message) /\ served \in 0..MaxPoint /\ chunkCount \in Nat
    BY <1>1, Constants DEF ImportTypeOK
  <1>4. Head(inbox) = inbox[1] /\ 1 \in 1..Len(inbox)
    BY <1>1, <1>3, Taken
  <1> DEFINE n == served - chunkCount
  <1>5. n \in Nat
    BY <1>2 DEF InFlight
  <1>6. n # 0
    BY <1>1, <1>2, <1>4 DEF InFlight
  <1>7. Head(inbox).chunk = chunkCount + 1
    BY <1>2, <1>4, <1>5, <1>6 DEF InFlight
  <1>8. chunkCount + 1 \in 1..MaxPoint
    BY <1>3, <1>5, <1>6, Constants
  <1> QED
    BY <1>7, <1>8, Constants DEF Point

\* A chunk is stored, and the request for more is not sent.
LEMMA ChunkUnanswered ==
  ASSUME Sound, ImportStep, OnChunk, EndAttempt, PeerFault
  PROVE  Sound'
  <1> DEFINE k == Head(inbox).chunk
  <1>1. /\ TypeOK /\ ImportTypeOK /\ AttemptInOrder /\ spc' = spc
        /\ ipc = "recv" /\ Received("Chunk")
        /\ ipc' = "retry" /\ peer' = "off" /\ inbox' = <<>>
        /\ deltas' = [deltas EXCEPT ![k] = @ + 1]
        /\ Statement(outputs' = outputs \cup {k}, UNCHANGED outputs)
        /\ chunkCount' = chunkCount + 1
        /\ UNCHANGED <<target, completed, served, balances>>
    BY DEF Sound, StartupSound, TypeOK, ImportStep, startVars, OnChunk, Received, EndAttempt
  <1>2. k \in Point /\ chunkCount' \in 0..MaxPoint
    BY <1>1, NextChunk
  <1>3. peerFaults' \in 0..MaxPeerFaults
    BY <1>1, PeerFaultCounted DEF ImportTypeOK
  <1>4. /\ spoiled' \in BOOLEAN /\ (~spoiled' => ~spoiled) /\ dbFaults' \in 0..MaxDbFaults
        /\ outputs' = outputs \cup {k} \/ outputs' = outputs
    BY <1>1, StatementSpoils DEF ImportTypeOK
  <1> HIDE DEF k
  <1>5. deltas' \in [Point -> Nat] /\ outputs' \subseteq Point
    <2>1. deltas \in [Point -> Nat] /\ outputs \subseteq Point
      BY <1>1 DEF ImportTypeOK
    <2>2. deltas' \in [Point -> Nat]
      BY <1>1, <1>2, <2>1
    <2>3. outputs' \subseteq Point
      BY <1>2, <1>4, <2>1
    <2> QED
      BY <2>2, <2>3
  <1>6. ~completed /\ spc \in {"rebuild", "import"}
    BY <1>1 DEF AttemptInOrder, Receiving
  <1>7. AttemptInOrder' /\ ImportLeaves'
    BY <1>1, <1>6 DEF AttemptInOrder, Receiving, ImportLeaves
  <1>8. /\ inbox' \in Seq(Message) /\ balances' \in [Point -> Nat]
        /\ completed' \in BOOLEAN /\ served' \in 0..MaxPoint
    BY <1>1, NothingInFlight DEF ImportTypeOK
  <1> QED
    BY <1>1, <1>2, <1>3, <1>4, <1>5, <1>7, <1>8, ImportStepSound

\* A message is handled.
LEMMA ImportMessageSound ==
  ASSUME Sound, ImportStep, OnRequestAddresses \/ OnChunk \/ OnDone,
         inbox' = Tail(inbox), UNCHANGED peerFaults
  PROVE  Sound'
  <1>1. /\ ImportTypeOK /\ AttemptInOrder /\ spc' = spc
        /\ ipc = "recv" /\ inbox # <<>> /\ target' = target
        /\ UNCHANGED served
    BY DEF Sound, StartupSound, TypeOK, ImportStep, startVars, OnRequestAddresses, OnChunk,
           OnDone, FailAttempt, Received
  <1>2. /\ P2pAddress /\ ~completed /\ served <= target /\ InFlight /\ WindowOpen /\ AttemptExact
        /\ ipc # "idle" /\ spc \in {"rebuild", "import"}
    BY <1>1 DEF AttemptInOrder, Receiving
  <1>3. /\ inbox \in Seq(Message) /\ served \in 0..MaxPoint /\ target \in Point
        /\ chunkCount \in Nat /\ outputs \subseteq Point /\ balances \in [Point -> Nat]
        /\ spoiled \in BOOLEAN /\ completed \in BOOLEAN /\ dbFaults \in 0..MaxDbFaults
        /\ ~PeerFault
    BY <1>1, Constants DEF ImportTypeOK, PeerFault
  <1> DEFINE n == served - chunkCount
  <1>4. /\ n \in Nat
        /\ inbox' \in Seq(Message)
        /\ Len(inbox') \in Nat /\ Len(inbox) = Len(inbox') + 1
        /\ Head(inbox) = inbox[1] /\ 1 \in 1..Len(inbox)
        /\ \A i \in 1..Len(inbox') : i + 1 \in 1..Len(inbox) /\ inbox'[i] = inbox[i + 1]
    BY <1>1, <1>2, <1>3, Taken DEF InFlight
  \* A message that is no chunk is the only one.
  <1>5. ASSUME inbox[1].payload # "Chunk"
        PROVE  n = 0 /\ Len(inbox') = 0
    BY <1>2, <1>4, <1>5 DEF InFlight
  <1>6. CASE OnRequestAddresses
    <2>1. /\ inbox[1].payload = "RequestAddresses" /\ ipc' = "head"
          /\ peer' = (IF peer = "asked" THEN "serving" ELSE peer)
          /\ UNCHANGED <<completed, chunkCount, deltas, dbFaults, spoiled, balances, outputs>>
      BY <1>3, <1>4, <1>6 DEF OnRequestAddresses, Received
    <2>2. served = 0 /\ n = 0 /\ Len(inbox') = 0 /\ chunkCount = 0
      <3>1. inbox[1].payload # "Chunk"
        BY <2>1
      <3>2. n = 0 /\ Len(inbox') = 0
        BY <1>5, <3>1
      <3>3. served = 0
        BY <1>2, <1>4, <2>1, <3>2 DEF InFlight
      <3> QED
        BY <1>3, <3>2, <3>3
    <2>3. InFlight' /\ WindowOpen' /\ AttemptExact'
      BY <1>1, <1>2, <1>3, <1>4, <2>1, <2>2 DEF InFlight, WindowOpen, AttemptExact
    <2>4. AttemptInOrder' /\ ImportLeaves'
      BY <1>1, <1>2, <2>1, <2>3 DEF AttemptInOrder, Receiving, ImportLeaves
    <2> QED
      BY <1>1, <1>2, <1>3, <1>4, <2>1, <2>4, ImportStepSound DEF ImportTypeOK
  <1>7. CASE OnChunk
    <2> DEFINE k == Head(inbox).chunk
    <2>1. /\ inbox[1].payload = "Chunk" /\ ipc' = "head"
          /\ deltas' = [deltas EXCEPT ![k] = @ + 1]
          /\ Statement(outputs' = outputs \cup {k}, UNCHANGED outputs)
          /\ chunkCount' = chunkCount + 1
          /\ peer' = IF RequestNext /\ peer = "waiting" THEN "serving" ELSE peer
          /\ UNCHANGED <<completed, balances>>
      BY <1>3, <1>4, <1>7 DEF OnChunk, Received
    <2>2. n \in Nat \ {0} /\ k = chunkCount + 1 /\ k \in Point
      <3>1. n # 0
        BY <1>2, <1>4, <2>1 DEF InFlight
      <3>2. k = chunkCount + 1
        BY <1>2, <1>4, <3>1 DEF InFlight
      <3>3. served - chunkCount >= 1 /\ served <= MaxPoint /\ n \in Nat \ {0}
        BY <1>3, <1>4, <3>1, Constants
      <3>4. chunkCount + 1 \in 1..MaxPoint
        BY <1>3, <3>3, Constants
      <3> QED
        BY <3>2, <3>3, <3>4 DEF Point
    <2>3. /\ spoiled' \in BOOLEAN
          /\ ~spoiled' => ~spoiled /\ outputs' = outputs \cup {k}
          /\ outputs' = outputs \cup {k} \/ outputs' = outputs
          /\ dbFaults' \in 0..MaxDbFaults
      BY <1>3, <2>1, StatementSpoils
    <2> HIDE DEF k
    <2>4. AttemptExact'
      <3>1. deltas' = UtxoSetAt(chunkCount')
        BY <1>2, <1>3, <2>1, <2>2, UtxoSets DEF AttemptExact
      <3>2. 1..chunkCount' = 1..chunkCount \cup {k}
        BY <1>3, <2>1, <2>2
      <3> QED
        BY <1>2, <2>1, <2>3, <3>1, <3>2 DEF AttemptExact
    <2>5. InFlight'
      <3>1. served' - chunkCount' = n - 1 /\ n - 1 \in Nat
        <4>1. served' = served /\ chunkCount' = chunkCount + 1
          BY <1>1, <2>1
        <4>2. served \in Int /\ chunkCount \in Nat /\ n \in Nat \ {0}
          BY <1>3, <2>2, Constants
        <4> QED
          BY <4>1, <4>2
      <3>2. peer' \in {"open", "serving", "waiting"} => peer \in {"open", "serving", "waiting"}
        BY <2>1
      <3>3. peer' \in {"open", "asked"} => peer' = peer
        BY <2>1
      <3>4. \A i \in 1..Len(inbox') :
              /\ i <= n - 1 => inbox'[i].payload = "Chunk" /\ inbox'[i].chunk = chunkCount' + i
              /\ i = n => /\ inbox'[i].payload # "Chunk"
                          /\ inbox'[i].payload = "RequestAddresses" => served = 0
                          /\ inbox'[i].payload = "Done" => served = target
        <4> TAKE i \in 1..Len(inbox')
        <4>1. /\ i + 1 \in 1..Len(inbox) /\ inbox'[i] = inbox[i + 1]
              /\ i \in Nat /\ chunkCount' + i = chunkCount + (i + 1)
          BY <1>3, <1>4, <2>1
        <4>2. /\ i + 1 <= n => /\ inbox[i + 1].payload = "Chunk"
                               /\ inbox[i + 1].chunk = chunkCount + (i + 1)
              /\ i + 1 = n + 1 => /\ inbox[i + 1].payload # "Chunk"
                                  /\ inbox[i + 1].payload = "RequestAddresses" => served = 0
                                  /\ inbox[i + 1].payload = "Done" => served = target
          BY <1>2, <4>1 DEF InFlight
        <4> HIDE DEF n
        <4> QED
          BY <1>4, <4>1, <4>2
      <3>5. Len(inbox') \in {n - 1, n}
            /\ (peer' \in {"open", "serving", "waiting"} => Len(inbox') = n - 1)
        BY <1>2, <1>4, <3>2 DEF InFlight
      <3>6. peer' \in {"open", "asked"} => served' = 0
        BY <1>1, <1>2, <3>3 DEF InFlight
      <3>7. served' = served /\ target' = target
        BY <1>1
      <3>8. n = (n - 1) + 1
        BY <1>4
      <3> HIDE DEF n
      <3> QED
        BY <3>1, <3>4, <3>5, <3>6, <3>7, <3>8 DEF InFlight
    <2>6. WindowOpen'
      <3> SUFFICES ASSUME peer' = "waiting"
                   PROVE  served' % IbdBatchSize = 0 /\ chunkCount' < served'
        BY DEF WindowOpen
      <3>1. peer = "waiting" /\ ~RequestNext
        BY <2>1
      <3>2. served % IbdBatchSize = 0 /\ chunkCount < served
        BY <1>2, <3>1 DEF WindowOpen
      <3>3. chunkCount' # served
        BY <3>1, <3>2 DEF RequestNext
      <3> QED
        BY <1>1, <1>3, <2>1, <3>2, <3>3
    <2>7. AttemptInOrder' /\ ImportLeaves'
      BY <1>1, <1>2, <2>1, <2>4, <2>5, <2>6 DEF AttemptInOrder, Receiving, ImportLeaves
    <2>8. deltas' \in [Point -> Nat] /\ outputs' \subseteq Point /\ chunkCount' \in 0..MaxPoint
      <3>1. deltas' \in [Point -> Nat]
        BY <2>4, UtxoSets DEF AttemptExact
      <3>2. outputs' \subseteq Point
        BY <1>3, <2>2, <2>3
      <3>3. chunkCount' \in 0..MaxPoint
        BY <2>1, <2>2, Constants
      <3> QED
        BY <3>1, <3>2, <3>3
    <2>9. peer' \in {"off", "open", "asked", "serving", "waiting", "chatting", "silent"}
      BY <1>1, <2>1 DEF ImportTypeOK
    <2> QED
      BY <1>1, <1>2, <1>3, <1>4, <2>1, <2>3, <2>7, <2>8, <2>9, ImportStepSound DEF ImportTypeOK
  <1>8. CASE OnDone
    <2>1. /\ inbox[1].payload = "Done" /\ ipc' = "idle" /\ completed' = TRUE /\ peer' = "off"
          /\ Statement(UpdateBalancesAbsolute, UNCHANGED balances)
          /\ UNCHANGED <<chunkCount, deltas, outputs>>
      BY <1>4, <1>8 DEF OnDone, Received
    <2>2. chunkCount = target
      <3>1. inbox[1].payload # "Chunk"
        BY <2>1
      <3>2. n = 0
        BY <1>5, <3>1
      <3>3. served = target
        BY <1>2, <1>4, <2>1, <3>2 DEF InFlight
      <3> QED
        BY <1>3, <3>2, <3>3
    <2>3. /\ spoiled' \in BOOLEAN
          /\ ~spoiled' => ~spoiled /\ UpdateBalancesAbsolute
          /\ UpdateBalancesAbsolute \/ balances' = balances
          /\ dbFaults' \in 0..MaxDbFaults
      <3>1. dbFaults' = dbFaults \/ DbFault
        BY <2>1 DEF Statement
      <3>2. dbFaults' \in 0..MaxDbFaults
        BY <1>3, <3>1, DbFaultCounted
      <3>3. /\ spoiled' \in BOOLEAN
            /\ ~spoiled' => ~spoiled /\ UpdateBalancesAbsolute
            /\ UpdateBalancesAbsolute \/ balances' = balances
        BY <1>3, <2>1, Zenon DEF Statement
      <3> QED
        BY <3>2, <3>3
    <2>4. UpdateBalancesAbsolute => balances' \in [Point -> Nat]
      BY <1>1, <1>3 DEF UpdateBalancesAbsolute, ImportTypeOK
    <2>5. ~spoiled' => balances' = UtxoSetAt(target) /\ 1..target \subseteq outputs
      <3> SUFFICES ASSUME ~spoiled' PROVE balances' = UtxoSetAt(target) /\ 1..target \subseteq outputs
        OBVIOUS
      <3>1. balances = None /\ 1..target \subseteq outputs /\ deltas = UtxoSetAt(target)
        BY <1>2, <2>2, <2>3 DEF AttemptExact
      <3> QED
        BY <2>3, <3>1 DEF UpdateBalancesAbsolute, UtxoSetAt, None
    <2>6. AttemptInOrder' /\ ImportLeaves'
      BY <1>1, <2>1, <2>5 DEF AttemptInOrder, Receiving, ImportLeaves
    <2> QED
      BY <1>1, <1>2, <1>3, <1>4, <2>1, <2>3, <2>4, <2>6, ImportStepSound DEF ImportTypeOK
  <1> QED
    BY <1>6, <1>7, <1>8

\* A message is taken, and its answer, if it has one, is sent or not.
LEMMA MessageSound ==
  ASSUME Sound, ImportStep, OnRequestAddresses \/ OnChunk \/ OnDone
  PROVE  Sound'
  <1>1. CASE inbox' = Tail(inbox) /\ UNCHANGED peerFaults
    BY <1>1, ImportMessageSound
  <1>2. CASE FailAttempt /\ PeerFault /\ Received("RequestAddresses")
    BY <1>2, FailAttemptSound DEF Received, Receiving
  <1>3. CASE OnChunk /\ EndAttempt /\ PeerFault
    BY <1>3, ChunkUnanswered
  <1> QED
    BY <1>1, <1>2, <1>3 DEF OnRequestAddresses, OnChunk, OnDone
-----------------------------------------------------------------------------
\* A step of the start leaves the attempt as it is.
LEMMA AttemptKept ==
  ASSUME AttemptInOrder, ImportTypeOK, UNCHANGED <<importVars, outputs, balances>>,
         ipc # "idle" => spc' \in {"rebuild", "import"}
  PROVE  AttemptInOrder'
  <1>1. UNCHANGED <<ipc, target, completed, chunkCount, deltas, inbox, peer, served, spoiled,
                    balances, outputs>>
    BY DEF importVars, attemptVars
  <1>2. (Receiving' <=> Receiving)
    BY <1>1 DEF Receiving
  <1>3. (InFlight => InFlight') /\ (WindowOpen => WindowOpen') /\ (AttemptExact => AttemptExact')
    BY <1>1 DEF InFlight, WindowOpen, AttemptExact
  <1> QED
    BY <1>1, <1>2, <1>3 DEF AttemptInOrder

\* The importer is idle unless it was called.
LEMMA IdleOutside ==
  ASSUME AttemptInOrder, spc \notin {"rebuild", "import"} \/ ipc = "idle"
  PROVE  ipc = "idle" /\ peer = "off" /\ ~Receiving
  BY DEF AttemptInOrder, Receiving

\* The importer stays idle.
LEMMA IdleStays ==
  ASSUME AttemptInOrder, spc \notin {"rebuild", "import"} \/ ipc = "idle",
         ipc' = ipc, peer' = peer
  PROVE  AttemptInOrder'
  BY IdleOutside DEF AttemptInOrder, Receiving

\* The node answers.
LEMMA GetBlockDagInfoSound == Sound /\ GetBlockDagInfo => Sound'
  <1> SUFFICES ASSUME Sound, GetBlockDagInfo PROVE Sound'
    OBVIOUS
  <1>1. /\ TypeOK /\ ImportTypeOK /\ AttemptInOrder /\ ImportLeaves /\ StartInOrder
        /\ spc = "dag" /\ spc' \in {"decide", "stopped"}
        /\ UNCHANGED <<balances, importVars, saved, checkpoint, candidate, update, utxoImport, web>>
        /\ UNCHANGED <<pruningPoint, outputs, stopping, tip, legacy, restarts>>
        /\ \/ spc' = "decide" /\ dagPruning' = pruningPoint /\ dagTip' = tip
           \/ spc' = "stopped" /\ UNCHANGED <<dagPruning, dagTip>>
    BY DEF Sound, StartupSound, TypeOK, GetBlockDagInfo, StartFrame
  <1>2. ipc = "idle"
    BY <1>1, IdleOutside
  <1>3. AttemptInOrder'
    BY <1>1, <1>2, AttemptKept
  <1>4. ImportTypeOK'
    BY <1>1 DEF ImportTypeOK, importVars, attemptVars
  <1>5. TypeOK'
    BY <1>1, <1>4 DEF TypeOK, ImportTypeOK
  <1>6. ImportLeaves'
    BY <1>1 DEF ImportLeaves
  <1>7. StartInOrder'
    <2>1. dagTip' <= tip'
      <3>1. CASE dagTip' = tip
        <4>1. tip \in Nat
          BY <1>1, Constants DEF TypeOK
        <4> QED
          BY <1>1, <3>1, <4>1
      <3>2. CASE dagTip' = dagTip
        BY <1>1, <3>2 DEF StartInOrder
      <3> QED
        BY <1>1, <3>1, <3>2
    <2>2. UNCHANGED spoiled
      BY <1>1 DEF importVars
    <2> QED
      BY <1>1, <2>1, <2>2 DEF StartInOrder, BalancesFollow, MustRebuild, TooOld
  <1> QED
    BY <1>3, <1>5, <1>6, <1>7 DEF Sound, StartupSound

\* The decision.
LEMMA DecideSound == Sound /\ Decide => Sound'
  <1> SUFFICES ASSUME Sound, Decide PROVE Sound'
    OBVIOUS
  <1>1. /\ TypeOK /\ ImportTypeOK /\ AttemptInOrder /\ ImportLeaves /\ StartInOrder
        /\ spc = "decide" /\ utxoImport' = ForceUtxoImport
        /\ UNCHANGED <<saved, dagPruning, dagTip, checkpoint, candidate, update, web>>
        /\ UNCHANGED <<pruningPoint, outputs, stopping, tip, legacy, restarts>>
    BY DEF Sound, StartupSound, TypeOK, Decide, StartFrame
  <1>2. ipc = "idle" /\ peer = "off"
    BY <1>1, IdleOutside
  <1>3. utxoImport' \in BOOLEAN
    BY <1>1, StartupAssumption
  <1>4. dagTip' <= tip'
    BY <1>1 DEF StartInOrder
  <1>5. PICK loaded \in Point \cup {NoPoint} :
          /\ LoadBlockCheckpoint(loaded)
          /\ \E lastBlue \in BlueScores(loaded), currentBlue \in BlueScores(dagTip) :
               IF ForceBalanceRebuild \/ loaded = NoPoint \/ TooOld(lastBlue, currentBlue)
               THEN /\ balances' = None
                    /\ StartImport(dagPruning)
                    /\ spoiled' = FALSE
                    /\ spc' = "rebuild"
               ELSE /\ spc' = "select"
                    /\ spoiled' = (spoiled \/ MustRebuild(dagTip))
                    /\ UNCHANGED <<balances, ipc, target, completed, attemptVars, peerFaults>>
    BY DEF Decide
  <1>6. dbFaults' \in 0..MaxDbFaults
    BY <1>1, <1>5, DbFaultCounted DEF LoadBlockCheckpoint, ImportTypeOK
  <1>7. CASE /\ balances' = None
             /\ StartImport(dagPruning)
             /\ spoiled' = FALSE
             /\ spc' = "rebuild"
    <2>1. /\ balances' = None /\ spoiled' = FALSE /\ spc' = "rebuild"
          /\ ipc' = "connect" /\ target' = dagPruning /\ completed' = FALSE
          /\ UNCHANGED <<chunkCount, deltas, inbox, peer, served, peerFaults>>
      BY <1>7 DEF StartImport, attemptVars
    <2>2. ImportTypeOK'
      BY <1>1, <1>6, <2>1, UtxoSets DEF ImportTypeOK, TypeOK
    <2>3. TypeOK'
      BY <1>1, <1>3, <2>1, <2>2 DEF TypeOK
    <2>4. AttemptInOrder' /\ ImportLeaves'
      BY <1>2, <2>1 DEF AttemptInOrder, Receiving, ImportLeaves
    <2>5. StartInOrder'
      BY <1>1, <1>4, <2>1 DEF StartInOrder, BalancesFollow
    <2> QED
      BY <2>3, <2>4, <2>5 DEF Sound, StartupSound
  <1>8. CASE /\ spc' = "select"
             /\ spoiled' = (spoiled \/ MustRebuild(dagTip))
             /\ UNCHANGED <<balances, ipc, target, completed, attemptVars, peerFaults>>
    <2>1. UNCHANGED <<ipc, target, completed, chunkCount, deltas, inbox, peer, served, peerFaults,
                      balances>>
      BY <1>8 DEF attemptVars
    <2>2. AttemptInOrder'
      BY <1>1, <2>1, IdleStays
    <2>3. spoiled' \in BOOLEAN /\ (~spoiled' => ~spoiled /\ ~MustRebuild(dagTip))
      BY <1>8
    <2>4. ImportTypeOK'
      BY <1>1, <1>6, <2>1, <2>3 DEF ImportTypeOK
    <2>5. TypeOK'
      BY <1>1, <1>3, <1>8, <2>4 DEF TypeOK
    <2>6. ImportLeaves'
      BY <1>8 DEF ImportLeaves
    <2>7. StartInOrder'
      <3> SUFFICES ASSUME P2pAddress, IgnoreCheckpoint = "none", ~ForceUtxoImport, ~spoiled'
                   PROVE  BalancesFollow'
        BY <1>1, <1>4, <1>8 DEF StartInOrder
      <3>1. saved # NoPoint /\ balances = UtxoSetAt(saved)
        BY <1>1, <2>3 DEF StartInOrder, BalancesFollow, MustRebuild
      <3> QED
        BY <1>1, <1>8, <2>1, <3>1 DEF BalancesFollow
    <2> QED
      BY <2>2, <2>5, <2>6, <2>7 DEF Sound, StartupSound
  <1> QED
    BY <1>5, <1>7, <1>8

\* The rebuild is over.
LEMMA FinishRebuildSound == Sound /\ FinishRebuild => Sound'
  <1> SUFFICES ASSUME Sound, FinishRebuild PROVE Sound'
    OBVIOUS
  <1>1. /\ TypeOK /\ ImportTypeOK /\ AttemptInOrder /\ ImportLeaves /\ StartInOrder
        /\ spc = "rebuild" /\ ipc = "idle" /\ utxoImport' = FALSE /\ spc' = "select"
        /\ Statement(saved' = dagPruning, UNCHANGED saved)
        /\ UNCHANGED <<balances, ipc, target, completed, attemptVars, peerFaults,
                       dagPruning, dagTip, checkpoint, candidate, update, web>>
        /\ UNCHANGED <<pruningPoint, outputs, stopping, tip, legacy, restarts>>
    BY DEF Sound, StartupSound, TypeOK, FinishRebuild, StartFrame
  <1>2. peer = "off"
    BY <1>1, IdleOutside
  <1>3. /\ spoiled' \in BOOLEAN
        /\ ~spoiled' => ~spoiled /\ saved' = dagPruning
        /\ saved' = dagPruning \/ saved' = saved
        /\ dbFaults' \in 0..MaxDbFaults
    <2>1. dbFaults' = dbFaults \/ DbFault
      BY <1>1 DEF Statement
    <2>2. dbFaults' \in 0..MaxDbFaults
      BY <1>1, <2>1, DbFaultCounted DEF ImportTypeOK
    <2>3. /\ spoiled' \in BOOLEAN
          /\ ~spoiled' => ~spoiled /\ saved' = dagPruning
          /\ saved' = dagPruning \/ saved' = saved
      BY <1>1, Zenon DEF Statement, ImportTypeOK
    <2> QED
      BY <2>2, <2>3
  <1>4. ImportTypeOK'
    BY <1>1, <1>3 DEF ImportTypeOK, attemptVars
  <1>5. TypeOK'
    <2>1. saved' \in Point \cup {NoPoint} /\ legacy' \in Point \cup {NoPoint}
      BY <1>1, <1>3 DEF TypeOK
    <2>2. {dagPruning', dagTip', checkpoint', candidate'} \subseteq Point
      BY <1>1 DEF TypeOK
    <2>3. /\ tip' \in Point /\ update' \in {"none", "done", "failed"} /\ restarts' \in 0..MaxRestarts
          /\ web' \in {"off", "spawned", "listening", "deaf", "stopped"}
      BY <1>1 DEF TypeOK
    <2> QED
      BY <1>1, <1>4, <2>1, <2>2, <2>3 DEF TypeOK
  <1>6. AttemptInOrder' /\ ImportLeaves'
    BY <1>1, <1>2 DEF AttemptInOrder, Receiving, ImportLeaves, attemptVars
  <1>7. StartInOrder'
    <2> SUFFICES ASSUME P2pAddress, IgnoreCheckpoint = "none", ~ForceUtxoImport, ~spoiled'
                 PROVE  BalancesFollow'
      BY <1>1 DEF StartInOrder
    <2>1. saved' = dagPruning /\ target = dagPruning /\ balances = UtxoSetAt(target)
      BY <1>1, <1>3 DEF StartInOrder, BalancesFollow, ImportLeaves
    <2>2. saved' # NoPoint
      BY <1>1, <2>1, Constants DEF TypeOK, NoPoint
    <2> QED
      BY <1>1, <2>1, <2>2 DEF BalancesFollow
  <1> QED
    BY <1>5, <1>6, <1>7 DEF Sound, StartupSound

\* The checkpoint to resume from.
LEMMA SelectCheckpointSound == Sound /\ SelectCheckpoint => Sound'
  <1> SUFFICES ASSUME Sound, SelectCheckpoint PROVE Sound'
    OBVIOUS
  <1>1. /\ TypeOK /\ ImportTypeOK /\ AttemptInOrder /\ StartInOrder
        /\ spc = "select" /\ spc' = "save" /\ candidate' = checkpoint'
        /\ UNCHANGED <<balances, ipc, target, completed, attemptVars, peerFaults,
                       saved, dagPruning, dagTip, update, web>>
        /\ UNCHANGED <<pruningPoint, outputs, stopping, tip, legacy, restarts>>
    BY DEF Sound, StartupSound, TypeOK, SelectCheckpoint, StartFrame
  <1> DEFINE Import(loaded) == IgnoreCheckpoint = "none" /\ loaded = NoPoint
  <1>2. PICK loaded \in Point \cup {NoPoint} :
          /\ LoadBlockCheckpoint(loaded)
          /\ checkpoint' = ResumePoint(loaded)
          /\ utxoImport' = IF Import(loaded) THEN ~DisableInitialUtxoImport ELSE utxoImport
          /\ spoiled' = (spoiled \/ (loaded # saved /\ ~(Import(loaded) /\ utxoImport')))
    BY DEF SelectCheckpoint
  <1>3. UNCHANGED <<chunkCount, deltas, inbox, peer, served>>
    BY <1>1 DEF attemptVars
  <1>4. AttemptInOrder' /\ ImportLeaves'
    BY <1>1, <1>3, IdleStays DEF ImportLeaves
  <1>5. dbFaults' \in 0..MaxDbFaults
    BY <1>1, <1>2, DbFaultCounted DEF LoadBlockCheckpoint, ImportTypeOK
  <1>6. checkpoint' \in Point
    BY <1>1, <1>2 DEF ResumePoint, TypeOK
  <1>7. utxoImport' \in BOOLEAN
    BY <1>1, <1>2, StartupAssumption DEF TypeOK
  <1>8. spoiled' \in BOOLEAN /\ (~spoiled' => ~spoiled)
    BY <1>2
  <1>9. ImportTypeOK'
    BY <1>1, <1>3, <1>5, <1>8 DEF ImportTypeOK
  <1>10. TypeOK'
    BY <1>1, <1>6, <1>7, <1>9 DEF TypeOK
  <1>11. StartInOrder'
    <2> SUFFICES ASSUME P2pAddress, IgnoreCheckpoint = "none", ~ForceUtxoImport, ~spoiled'
                 PROVE  BalancesFollow'
      BY <1>1 DEF StartInOrder
    <2>1. saved # NoPoint /\ balances = UtxoSetAt(saved) /\ ~utxoImport
      BY <1>1, <1>8 DEF StartInOrder, BalancesFollow
    <2>2. loaded = saved \/ (loaded = NoPoint /\ utxoImport')
      BY <1>2
    <2>3. IF utxoImport' THEN checkpoint' = dagPruning ELSE checkpoint' = saved
      BY <1>2, <2>1, <2>2 DEF ResumePoint
    <2> QED
      BY <1>1, <2>1, <2>3 DEF BalancesFollow
  <1> QED
    BY <1>4, <1>10, <1>11 DEF Sound, StartupSound

\* The tasks are spawned, or an import is called first.
LEMMA SaveInitialCheckpointSound == Sound /\ SaveInitialCheckpoint => Sound'
  <1> SUFFICES ASSUME Sound, SaveInitialCheckpoint PROVE Sound'
    OBVIOUS
  <1>1. /\ TypeOK /\ ImportTypeOK /\ AttemptInOrder /\ StartInOrder
        /\ spc = "save" /\ web' = "spawned"
        /\ \/ saved' = checkpoint /\ UNCHANGED <<dbFaults, spoiled>>
           \/ DbFault /\ UNCHANGED saved /\ spoiled' = (spoiled \/ saved # checkpoint)
        /\ IF utxoImport
           THEN StartImport(dagPruning) /\ spc' = "import"
           ELSE UNCHANGED <<ipc, target, completed, attemptVars, peerFaults>> /\ spc' = "running"
        /\ UNCHANGED <<balances, dagPruning, dagTip, checkpoint, candidate, update, utxoImport>>
        /\ UNCHANGED <<pruningPoint, outputs, stopping, tip, legacy, restarts>>
    BY DEF Sound, StartupSound, TypeOK, SaveInitialCheckpoint, StartFrame
  <1>2. ipc = "idle" /\ peer = "off"
    BY <1>1, IdleOutside
  <1>3. UNCHANGED <<chunkCount, deltas, inbox, peer, served, peerFaults>>
    BY <1>1 DEF StartImport, attemptVars
  <1>4. \/ utxoImport /\ ipc' = "connect" /\ target' = dagPruning /\ completed' = FALSE
           /\ spc' = "import"
        \/ ~utxoImport /\ UNCHANGED <<ipc, target, completed>> /\ spc' = "running"
    BY <1>1 DEF StartImport
  <1>5. dbFaults' \in 0..MaxDbFaults
    BY <1>1, DbFaultCounted DEF ImportTypeOK
  <1>6. /\ spoiled' \in BOOLEAN
        /\ ~spoiled' => ~spoiled /\ saved' = checkpoint
    BY <1>1 DEF ImportTypeOK
  <1>7. ImportTypeOK'
    BY <1>1, <1>3, <1>4, <1>5, <1>6 DEF ImportTypeOK, TypeOK
  <1>8. TypeOK'
    BY <1>1, <1>4, <1>7 DEF TypeOK
  <1>9. AttemptInOrder' /\ ImportLeaves'
    BY <1>2, <1>3, <1>4 DEF AttemptInOrder, Receiving, ImportLeaves
  <1>10. StartInOrder'
    <2> SUFFICES ASSUME P2pAddress, IgnoreCheckpoint = "none", ~ForceUtxoImport, ~spoiled'
                 PROVE  BalancesFollow'
      BY <1>1, <1>4 DEF StartInOrder
    <2>1. /\ balances = UtxoSetAt(saved) /\ saved' = checkpoint
          /\ IF utxoImport THEN checkpoint = dagPruning ELSE checkpoint = saved
          /\ update = "none" /\ candidate = checkpoint
      BY <1>1, <1>6 DEF StartInOrder, BalancesFollow
    <2>2. candidate \in Nat
      BY <1>1, Constants DEF TypeOK
    <2> QED
      BY <1>1, <1>4, <2>1, <2>2 DEF BalancesFollow
  <1> QED
    BY <1>8, <1>9, <1>10 DEF Sound, StartupSound

\* The import is over, and the steps that only concern the web server.
LEMMA OtherStartSound ==
  ASSUME Sound, FinishImport \/ WebListen \/ WebShutdown \/ Stop
  PROVE  Sound'
  <1>1. /\ TypeOK /\ ImportTypeOK /\ AttemptInOrder /\ ImportLeaves /\ StartInOrder
        /\ UNCHANGED <<balances, importVars, saved, dagPruning, dagTip, checkpoint, candidate,
                       update, utxoImport>>
        /\ UNCHANGED <<pruningPoint, outputs, stopping, tip, legacy, restarts>>
        /\ web' \in {"off", "spawned", "listening", "deaf", "stopped"}
        /\ \/ spc = "import" /\ ipc = "idle" /\ spc' = "running"
           \/ spc = "running" /\ update = "none" /\ spc' = "stopped"
           \/ spc' = spc
    BY DEF Sound, StartupSound, TypeOK, FinishImport, WebListen, WebShutdown, Stop, StartFrame
  <1>2. ipc # "idle" => spc' \in {"rebuild", "import"}
    BY <1>1, IdleOutside DEF AttemptInOrder
  <1>3. AttemptInOrder'
    BY <1>1, <1>2, AttemptKept
  <1>4. UNCHANGED <<ipc, target, completed, spoiled>>
    BY <1>1 DEF importVars
  <1>5. ImportTypeOK'
    BY <1>1 DEF ImportTypeOK, importVars, attemptVars
  <1>6. TypeOK'
    BY <1>1, <1>5 DEF TypeOK
  <1>7. ImportLeaves'
    BY <1>1, <1>4 DEF ImportLeaves
  <1>8. StartInOrder'
    <2>1. CASE spc' = spc
      BY <1>1, <1>4, <2>1 DEF StartInOrder, BalancesFollow, MustRebuild, TooOld
    <2>2. CASE spc = "running" /\ update = "none" /\ spc' = "stopped"
      BY <1>1, <1>4, <2>2 DEF StartInOrder, BalancesFollow
    <2>3. CASE spc = "import" /\ ipc = "idle" /\ spc' = "running"
      <3> SUFFICES ASSUME P2pAddress, IgnoreCheckpoint = "none", ~ForceUtxoImport, ~spoiled'
                   PROVE  BalancesFollow'
        BY <1>1, <2>3 DEF StartInOrder
      <3>1. /\ checkpoint = saved /\ target = checkpoint /\ balances = UtxoSetAt(target)
            /\ checkpoint = candidate /\ update = "none"
        BY <1>1, <1>4, <2>3 DEF StartInOrder, BalancesFollow, ImportLeaves
      <3>2. candidate \in Nat
        BY <1>1, Constants DEF TypeOK
      <3> QED
        BY <1>1, <2>3, <3>1, <3>2 DEF BalancesFollow
    <2> QED
      BY <1>1, <2>1, <2>2, <2>3
  <1> QED
    BY <1>3, <1>6, <1>7, <1>8 DEF Sound, StartupSound
-----------------------------------------------------------------------------
\* A checkpoint that is too old stays so while the chain grows.
LEMMA TooOldStays ==
  ASSUME NEW p \in Nat, NEW t \in Nat, NEW u \in Nat, t <= u
  PROVE  TooOld(p, t) => TooOld(p, u)
  BY Constants DEF TooOld

\* The chain grows.
LEMMA NetworkSound == Sound /\ Network => Sound'
  <1> SUFFICES ASSUME Sound, Network PROVE Sound'
    OBVIOUS
  <1>1. /\ TypeOK /\ ImportTypeOK /\ AttemptInOrder /\ ImportLeaves /\ StartInOrder
        /\ UNCHANGED <<balances, outputs, stopping, importVars, legacy, startVars, restarts>>
    BY DEF Sound, StartupSound, TypeOK, Network
  <1>2. tip' \in Point /\ pruningPoint' \in Point /\ tip <= tip'
    <2>1. tip \in 1..MaxPoint /\ pruningPoint \in 1..MaxPoint /\ MaxPoint \in Nat
      BY <1>1, Constants DEF TypeOK, ImportTypeOK, Point
    <2>2. CASE tip < MaxPoint /\ tip' = tip + 1 /\ UNCHANGED pruningPoint
      BY <2>1, <2>2 DEF Point
    <2>3. CASE pruningPoint < tip /\ pruningPoint' = pruningPoint + 1 /\ UNCHANGED tip
      BY <2>1, <2>3 DEF Point
    <2> QED
      BY <2>2, <2>3 DEF Network
  <1>3. UNCHANGED <<spc, saved, dagPruning, dagTip, checkpoint, candidate, update, utxoImport, web,
                    target, spoiled, ipc, completed>>
    BY <1>1 DEF startVars, importVars
  <1>4. AttemptInOrder'
    BY <1>1, <1>3, AttemptKept DEF AttemptInOrder
  <1>5. ImportTypeOK'
    BY <1>1, <1>2 DEF ImportTypeOK, importVars, attemptVars
  <1>6. TypeOK'
    BY <1>1, <1>2, <1>3, <1>5 DEF TypeOK
  <1>7. ImportLeaves'
    BY <1>1, <1>3 DEF ImportLeaves
  <1>8. StartInOrder'
    <2>1. /\ tip \in Nat /\ tip' \in Nat /\ dagTip \in Nat /\ saved \in Nat
          /\ RebuildThreshold \in Nat
      BY <1>1, <1>2, Constants DEF TypeOK, NoPoint
    <2>2. MustRebuild(tip) => MustRebuild(tip')
      BY <1>2, <2>1, TooOldStays DEF MustRebuild
    <2>3. dagTip' <= tip'
      BY <1>1, <1>2, <1>3, <2>1 DEF StartInOrder
    <2>4. BalancesFollow => BalancesFollow'
      <3>1. /\ MustRebuild(tip)' = MustRebuild(tip')
            /\ MustRebuild(dagTip)' = MustRebuild(dagTip)
        BY <1>3 DEF MustRebuild, TooOld
      <3> QED
        BY <1>1, <1>3, <2>2, <3>1 DEF BalancesFollow
    <2> QED
      BY <1>1, <1>3, <2>3, <2>4 DEF StartInOrder
  <1> QED
    BY <1>4, <1>6, <1>7, <1>8 DEF Sound, StartupSound

\* The running tasks take the balances to the candidate, ...
LEMMA UpdateBalancesSound == Sound /\ UpdateBalances => Sound'
  <1> SUFFICES ASSUME Sound, UpdateBalances PROVE Sound'
    OBVIOUS
  <1>1. /\ TypeOK /\ ImportTypeOK /\ AttemptInOrder /\ ImportLeaves /\ StartInOrder
        /\ spc = "running" /\ spc' = spc /\ update = "none" /\ candidate' \in Ahead
        /\ \/ balances' = WithChanges(checkpoint, candidate') /\ update' = "done" /\ UNCHANGED dbFaults
           \/ DbFault /\ UNCHANGED balances /\ update' = "failed"
        /\ UNCHANGED <<ipc, target, completed, attemptVars, peerFaults, spoiled, saved,
                       dagPruning, dagTip, checkpoint, utxoImport, web>>
        /\ UNCHANGED <<pruningPoint, outputs, stopping, tip, legacy, restarts>>
    BY DEF Sound, StartupSound, TypeOK, UpdateBalances, StartFrame
  <1>2. UNCHANGED <<chunkCount, deltas, inbox, peer, served>>
    BY <1>1 DEF attemptVars
  <1>3. AttemptInOrder' /\ ImportLeaves'
    BY <1>1, <1>2, IdleStays DEF ImportLeaves
  <1>4. candidate \in Point /\ candidate' \in Point /\ checkpoint \in Point /\ candidate < candidate'
    BY <1>1, Constants DEF Ahead, TypeOK, Point
  <1>5. balances' \in [Point -> Nat] /\ update' \in {"done", "failed"}
    <2>1. balances \in [Point -> Nat]
      BY <1>1 DEF ImportTypeOK
    <2>2. WithChanges(checkpoint, candidate') \in [Point -> Nat]
      BY <2>1 DEF WithChanges
    <2> QED
      BY <1>1, <2>1, <2>2
  <1>6. dbFaults' \in 0..MaxDbFaults
    BY <1>1, DbFaultCounted DEF ImportTypeOK
  <1>7. ImportTypeOK'
    BY <1>1, <1>2, <1>5, <1>6 DEF ImportTypeOK
  <1>8. TypeOK'
    BY <1>1, <1>4, <1>5, <1>7 DEF TypeOK
  <1>9. StartInOrder'
    <2> SUFFICES ASSUME P2pAddress, IgnoreCheckpoint = "none", ~ForceUtxoImport, ~spoiled'
                 PROVE  BalancesFollow'
      BY <1>1 DEF StartInOrder
    <2>1. checkpoint = saved /\ checkpoint <= candidate /\ balances = UtxoSetAt(saved)
      BY <1>1 DEF StartInOrder, BalancesFollow
    <2>2. checkpoint < candidate'
      BY <1>4, <2>1, Constants
    <2>3. balances' = WithChanges(checkpoint, candidate') => balances' = UtxoSetAt(candidate')
      BY <1>4, <2>1, <2>2, Constants DEF UtxoSetAt, WithChanges
    <2>4. /\ update' = "done" => balances' = UtxoSetAt(candidate')
          /\ update' # "done" => balances' = UtxoSetAt(saved')
      BY <1>1, <2>1, <2>3
    <2>5. checkpoint <= candidate'
      BY <1>4, <2>2, Constants
    <2> QED
      BY <1>1, <2>1, <2>4, <2>5 DEF BalancesFollow
  <1> QED
    BY <1>3, <1>8, <1>9 DEF Sound, StartupSound

\* ... and save it.
LEMMA SaveCheckpointSound == Sound /\ SaveCheckpoint => Sound'
  <1> SUFFICES ASSUME Sound, SaveCheckpoint PROVE Sound'
    OBVIOUS
  <1>1. /\ TypeOK /\ ImportTypeOK /\ AttemptInOrder /\ ImportLeaves /\ StartInOrder
        /\ spc = "running" /\ spc' = spc /\ update # "none" /\ update' = "none"
        /\ \/ /\ saved' = candidate
              /\ checkpoint' = candidate
              /\ spoiled' = (spoiled \/ update = "failed")
              /\ UNCHANGED dbFaults
           \/ /\ DbFault
              /\ UNCHANGED <<saved, checkpoint>>
              /\ spoiled' = (spoiled \/ update = "done")
        /\ UNCHANGED <<balances, ipc, target, completed, attemptVars, peerFaults,
                       dagPruning, dagTip, candidate, utxoImport, web>>
        /\ UNCHANGED <<pruningPoint, outputs, stopping, tip, legacy, restarts>>
    BY DEF Sound, StartupSound, TypeOK, SaveCheckpoint, StartFrame
  <1>2. UNCHANGED <<chunkCount, deltas, inbox, peer, served>>
    BY <1>1 DEF attemptVars
  <1>3. AttemptInOrder' /\ ImportLeaves'
    BY <1>1, <1>2, IdleStays DEF ImportLeaves
  <1>4. dbFaults' \in 0..MaxDbFaults
    BY <1>1, DbFaultCounted DEF ImportTypeOK
  <1>5. spoiled' \in BOOLEAN /\ update \in {"done", "failed"}
    BY <1>1 DEF TypeOK
  <1>6. ImportTypeOK'
    BY <1>1, <1>2, <1>4, <1>5 DEF ImportTypeOK
  <1>7. TypeOK'
    BY <1>1, <1>6 DEF TypeOK
  <1>8. StartInOrder'
    <2> SUFFICES ASSUME P2pAddress, IgnoreCheckpoint = "none", ~ForceUtxoImport, ~spoiled'
                 PROVE  BalancesFollow'
      BY <1>1 DEF StartInOrder
    <2>1. ~spoiled
      BY <1>1
    <2>2. /\ checkpoint = saved /\ checkpoint <= candidate
          /\ update = "done" => balances = UtxoSetAt(candidate)
          /\ update # "done" => balances = UtxoSetAt(saved)
      BY <1>1, <2>1 DEF StartInOrder, BalancesFollow
    <2>3. candidate \in Nat
      BY <1>1, Constants DEF TypeOK
    <2>4. checkpoint' = saved' /\ checkpoint' <= candidate /\ balances = UtxoSetAt(saved')
      BY <1>1, <1>5, <2>2, <2>3
    <2> QED
      BY <1>1, <2>4 DEF BalancesFollow
  <1> QED
    BY <1>3, <1>7, <1>8 DEF Sound, StartupSound

\* A signal only raises a flag.
LEMMA SignalSound == Sound /\ Signal => Sound'
  <1> SUFFICES ASSUME Sound, Signal PROVE Sound'
    OBVIOUS
  <1>1. /\ TypeOK /\ ImportTypeOK /\ AttemptInOrder /\ ImportLeaves /\ StartInOrder
        /\ stopping' = TRUE
        /\ UNCHANGED <<pruningPoint, balances, outputs, importVars, tip, legacy, startVars,
                       restarts>>
    BY DEF Sound, StartupSound, TypeOK, Signal
  <1>2. UNCHANGED <<spc, saved, dagPruning, dagTip, checkpoint, candidate, update, utxoImport, web,
                    target, spoiled, ipc, completed>>
    BY <1>1 DEF startVars, importVars
  <1>3. AttemptInOrder'
    BY <1>1, <1>2, AttemptKept DEF AttemptInOrder
  <1>4. ImportTypeOK'
    BY <1>1 DEF ImportTypeOK, importVars, attemptVars
  <1>5. TypeOK'
    BY <1>1, <1>2, <1>4 DEF TypeOK
  <1>6. ImportLeaves'
    BY <1>1, <1>2 DEF ImportLeaves
  <1>7. StartInOrder'
    BY <1>1, <1>2 DEF StartInOrder, BalancesFollow, MustRebuild, TooOld
  <1> QED
    BY <1>3, <1>5, <1>6, <1>7 DEF Sound, StartupSound

\* The process is started again, from whatever point it had come to.
LEMMA RestartSound == Sound /\ Restart => Sound'
  <1> SUFFICES ASSUME Sound, Restart PROVE Sound'
    OBVIOUS
  <1>1. /\ TypeOK /\ ImportTypeOK /\ StartInOrder
        /\ restarts < MaxRestarts /\ restarts' = restarts + 1
        /\ stopping' = FALSE /\ spc' = "dag" /\ web' = "off" /\ ipc' = "idle"
        /\ dagPruning' = 1 /\ dagTip' = 1 /\ checkpoint' = 1 /\ candidate' = 1
        /\ update' = "none" /\ utxoImport' = FALSE /\ target' = 1
        /\ completed' = FALSE /\ chunkCount' = 0 /\ deltas' = None /\ inbox' = <<>>
        /\ peer' = "off" /\ served' = 0
        /\ spoiled' = (spoiled \/ KilledMidway)
        /\ UNCHANGED <<pruningPoint, balances, outputs, tip, legacy, saved, peerFaults, dbFaults>>
    BY DEF Sound, StartupSound, TypeOK, Restart
  <1>2. restarts' \in 0..MaxRestarts
    BY <1>1, Constants DEF TypeOK
  <1>3. spoiled' \in BOOLEAN
    BY <1>1 DEF ImportTypeOK
  <1>4. ImportTypeOK'
    <2>1. <<>> \in Seq(Message) /\ 0 \in 0..MaxPoint /\ None \in [Point -> Nat]
      BY Constants, UtxoSets, NothingInFlight
    <2>2. /\ pruningPoint' \in Point /\ balances' \in [Point -> Nat] /\ outputs' \subseteq Point
          /\ target' \in Point /\ peerFaults' \in 0..MaxPeerFaults
          /\ dbFaults' \in 0..MaxDbFaults
      BY <1>1, Constants DEF ImportTypeOK
    <2> QED
      BY <1>1, <1>3, <2>1, <2>2 DEF ImportTypeOK
  <1>5. TypeOK'
    BY <1>1, <1>2, <1>4, Constants DEF TypeOK
  <1>6. AttemptInOrder' /\ ImportLeaves'
    BY <1>1 DEF AttemptInOrder, Receiving, ImportLeaves
  <1>7. StartInOrder'
    <2>1. dagTip' <= tip' /\ 0 \in Nat /\ tip \in Nat
      BY <1>1, Constants DEF TypeOK
    <2> SUFFICES ASSUME P2pAddress, IgnoreCheckpoint = "none", ~ForceUtxoImport, ~spoiled'
                 PROVE  balances = UtxoSetAt(saved) \/ MustRebuild(tip)
      BY <1>1, <2>1 DEF StartInOrder, BalancesFollow, MustRebuild, TooOld
    <2>2. BalancesFollow /\ ~KilledMidway
      BY <1>1, <1>3 DEF StartInOrder
    <2>3. /\ tip \in Nat /\ dagTip \in Nat /\ saved \in Nat /\ RebuildThreshold \in Nat
          /\ dagTip <= tip
      BY <1>1, Constants DEF TypeOK, NoPoint, StartInOrder
    <2>4. MustRebuild(dagTip) => MustRebuild(tip)
      BY <2>3 DEF MustRebuild, TooOld
    <2>5. spc \in {"dag", "decide", "rebuild", "select", "save", "import", "running", "stopped"}
      BY <1>1 DEF TypeOK
    <2> QED
      BY <2>2, <2>4, <2>5 DEF BalancesFollow, KilledMidway
  <1> QED
    BY <1>5, <1>6, <1>7 DEF Sound, StartupSound

\* Nothing happens.
LEMMA StutterSound == Sound /\ UNCHANGED vars => Sound'
  <1> SUFFICES ASSUME Sound, UNCHANGED vars PROVE Sound'
    OBVIOUS
  <1>1. /\ TypeOK /\ ImportTypeOK /\ AttemptInOrder /\ ImportLeaves /\ StartInOrder
        /\ UNCHANGED <<pruningPoint, balances, outputs, stopping, importVars, tip, legacy, startVars,
                       restarts>>
    BY DEF Sound, StartupSound, TypeOK, vars
  <1>2. UNCHANGED <<spc, saved, dagPruning, dagTip, checkpoint, candidate, update, utxoImport, web,
                    target, spoiled, ipc, completed>>
    BY <1>1 DEF startVars, importVars
  <1>3. AttemptInOrder'
    BY <1>1, <1>2, AttemptKept DEF AttemptInOrder
  <1>4. ImportTypeOK'
    BY <1>1 DEF ImportTypeOK, importVars, attemptVars
  <1>5. TypeOK'
    BY <1>1, <1>2, <1>4 DEF TypeOK
  <1>6. ImportLeaves'
    BY <1>1, <1>2 DEF ImportLeaves
  <1>7. StartInOrder'
    BY <1>1, <1>2 DEF StartInOrder, BalancesFollow, MustRebuild, TooOld
  <1> QED
    BY <1>3, <1>5, <1>6, <1>7 DEF Sound, StartupSound

\* Every step preserves the invariant.
LEMMA NextSound == Sound /\ [Next]_vars => Sound'
  <1> SUFFICES ASSUME Sound, [Next]_vars PROVE Sound'
    OBVIOUS
  <1>1. ASSUME StartWork PROVE Sound'
    BY <1>1, GetBlockDagInfoSound, DecideSound, FinishRebuildSound, SelectCheckpointSound,
       SaveInitialCheckpointSound, SaveCheckpointSound, OtherStartSound DEF StartWork
  <1>2. ASSUME ImportStep PROVE Sound'
    <2>1. CASE OnRequestAddresses \/ OnChunk \/ OnDone
      BY <1>2, <2>1, MessageSound
    <2> QED
      BY <1>2, <2>1, ImportControlSound DEF ImportStep, ImportWork
  <1>3. ASSUME Quiescent \/ UNCHANGED vars PROVE Sound'
    BY <1>3, StutterSound DEF Quiescent
  <1> QED
    BY <1>1, <1>2, <1>3, NetworkSound, PeerSound, UpdateBalancesSound, SignalSound, RestartSound DEF Next
-----------------------------------------------------------------------------
\* The types of the start and of the importer, and the invariant.
THEOREM StartupInvariantHolds == Spec => [](TypeOK /\ StartupSound)
  <1>1. Spec => []Sound
    BY InitSound, NextSound, PTL DEF Spec
  <1>2. Sound => TypeOK /\ StartupSound
    BY DEF Sound
  <1> QED
    BY <1>1, <1>2, PTL

\* Every variable of the start and of the importer has its type, for every
\* number of faults and restarts.
THEOREM StartupTypeCorrect == Spec => []TypeOK
  BY StartupInvariantHolds, PTL

\* The peer never waits for a request that the importer has no reason to send,
\* whatever the number of chunks and the size of a batch: counting chunks is
\* enough to know what the peer waits for (IBD_BATCH_SIZE).
THEOREM PeerNeverForgotten == Spec => []NoWindowStall
  <1>1. TypeOK /\ StartupSound => NoWindowStall
    <2> SUFFICES ASSUME TypeOK, StartupSound, peer = "waiting", ipc \in {"head", "recv"}
                 PROVE  inbox # <<>>
      BY DEF NoWindowStall
    <2>1. InFlight /\ WindowOpen
      BY DEF StartupSound, AttemptInOrder, Receiving
    <2>2. served \in Nat /\ chunkCount \in Nat
      BY Constants DEF TypeOK, ImportTypeOK
    <2>3. Len(inbox) = served - chunkCount /\ chunkCount < served
      BY <2>1 DEF InFlight, WindowOpen
    <2>4. Len(inbox) # 0
      BY <2>2, <2>3
    <2> QED
      BY <2>4, NothingInFlight
  <1> QED
    BY <1>1, StartupInvariantHolds, PTL

\* However many attempts an import takes, one that completes without a failed
\* statement counts every output exactly once (persist_utxos_chunk,
\* update_balances_absolute).
THEOREM ImportIsExact == Spec => []ImportExact
  <1>1. TypeOK /\ StartupSound => ImportExact
    BY DEF StartupSound, ImportLeaves, ImportExact
  <1> QED
    BY <1>1, StartupInvariantHolds, PTL

\* When the tasks begin, and after each of their saves, the balances are those of
\* the UTXO set at the checkpoint, except after the failures and kills that
\* BalancesMatchCheckpoint names (main.rs, start_processing; checkpoint.rs, the
\* update of the balances and the save).
THEOREM BalancesFitCheckpoint == Spec => []BalancesMatchCheckpoint
  <1>1. TypeOK /\ StartupSound => BalancesMatchCheckpoint
    BY DEF StartupSound, StartInOrder, BalancesFollow, BalancesMatchCheckpoint, BalancesFit
  <1> QED
    BY <1>1, StartupInvariantHolds, PTL
=============================================================================
