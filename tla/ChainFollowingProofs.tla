------------------------ MODULE ChainFollowingProofs ------------------------
(***************************************************************************)
(* The tables of the virtual chain processor follow the selected chain     *)
(* through every reorg, for every block DAG, every moment at which the     *)
(* node grows, every tip distance and every chunking of the statements.    *)
(***************************************************************************)
EXTENDS ChainFollowing, TypeProofs, WellFoundedInduction

\* A set of blocks has one with the most blue work: among the blocks with
\* the fewest blocks above them.
LEMMA MostBlueWork ==
  ASSUME NEW S \in SUBSET Block, S # {}
  PROVE  \E b \in S : \A c \in S : BlueWork[c] <= BlueWork[b]
  <1> DEFINE Above(b) == {c \in S : BlueWork[b] < BlueWork[c]}
             R == OpToRel(<, Nat)
             counts == {Cardinality(Above(b)) : b \in S}
  <1>1. \A b \in Block : BlueWork[b] \in Nat
    BY ChainAssumption
  <1>2. IsFiniteSet(S)
    BY ConsensusAssumption, FS_Subset
  <1>3. \A b \in S : IsFiniteSet(Above(b))
    BY <1>2, FS_Subset
  <1>4. counts \subseteq Nat /\ counts # {}
    BY <1>3, FS_CardinalityType
  <1>5. IsWellFoundedOn(R, Nat)
    BY NatLessThanWellFounded
  <1>6. \A i, j \in Nat : <<i, j>> \in R <=> i < j
    BY DEF OpToRel
  <1> HIDE DEF R, counts
  <1>7. PICK n \in counts : \A m \in counts : <<m, n>> \notin R
    BY <1>4, <1>5, WFMin
  <1>8. PICK b \in S : n = Cardinality(Above(b))
    BY <1>7 DEF counts
  <1>9. ASSUME NEW c \in S, BlueWork[b] < BlueWork[c]
        PROVE  FALSE
    <2>1. Above(c) \subseteq Above(b) /\ c \in Above(b) /\ c \notin Above(c)
      BY <1>1, <1>9
    <2>2. Cardinality(Above(c)) < Cardinality(Above(b))
      <3> DEFINE A == Above(b)
                 C == Above(c)
      <3>1. IsFiniteSet(A) /\ C \subseteq A /\ C # A
        BY <1>3, <2>1
      <3> HIDE DEF A, C
      <3>2. Cardinality(C) < Cardinality(A)
        <4>1. Cardinality(C) <= Cardinality(A) /\ (Cardinality(C) = Cardinality(A) => C = A)
          BY <3>1, FS_Subset
        <4>2. Cardinality(C) \in Nat /\ Cardinality(A) \in Nat
          BY <3>1, FS_Subset, FS_CardinalityType
        <4> QED
          BY <3>1, <4>1, <4>2
      <3> QED
        BY <3>2 DEF A, C
    <2>3. Cardinality(Above(c)) \in counts
      BY DEF counts
    <2> QED
      BY <1>4, <1>6, <1>7, <1>8, <2>2, <2>3
  <1> QED
    BY <1>1, <1>9

\* So the node has a virtual selected parent.
LEMMA SinkKnown ==
  ASSUME StoreTypeOK, Start \in known
  PROVE  /\ Sink \in known
         /\ \A c \in known : BlueWork[c] <= BlueWork[Sink]
  <1>1. known \in SUBSET Block /\ known # {}
    BY DEF StoreTypeOK
  <1>2. \E b \in known : \A c \in known : BlueWork[c] <= BlueWork[b]
    BY <1>1, MostBlueWork
  <1> QED
    BY <1>2 DEF Sink

\* The blocks of a chain in the order of a response: what is processed up to
\* position n is the part of the chain of s[n] that the other chain lacks.
LEMMA ResponseFollowsChain ==
  ASSUME NEW from \in Block, NEW sink \in Block, NEW s \in TopologicalSeqs,
         NEW n \in 1..Len(s),
         Range(s) = {b \in SelChain[sink] \ SelChain[from] :
                       BlueScore[sink] - BlueScore[b] >= MinConfirmations}
  PROVE  /\ s[n] \in SelChain[sink] \ SelChain[from]
         /\ BlueScore[sink] - BlueScore[s[n]] >= MinConfirmations
         /\ Range(SubSeq(s, 1, n)) = SelChain[s[n]] \ SelChain[from]
         /\ SelChain[s[n]] \cap SelChain[from] = SelChain[sink] \cap SelChain[from]
  <1> DEFINE last == s[n]
             done == {s[i] : i \in 1..n}
  <1>1. /\ s \in Seq(Block) /\ Len(s) \in Nat /\ DOMAIN s = 1..Len(s)
        /\ Range(s) = {s[i] : i \in 1..Len(s)}
        /\ \A i \in 1..Len(s) : s[i] \in Block
    BY ResponseType, LenProperties, RangeEquality, ElementOfSeq
  <1>2. \A i, j \in 1..Len(s) : i < j => s[i] # s[j] /\ s[j] \notin Past[s[i]]
    BY <1>1 DEF TopologicalSeqs
  <1>3. Range(SubSeq(s, 1, n)) = done
    <2>1. \A i \in 1..n : s[i] \in Block
      BY <1>1
    <2>2. /\ SubSeq(s, 1, n) \in Seq(Block)
          /\ Len(SubSeq(s, 1, n)) = n
          /\ \A i \in 1..n : SubSeq(s, 1, n)[i] = s[i]
      BY <1>1, <2>1, SubSeqProperties
    <2> DEFINE u == SubSeq(s, 1, n)
    <2>3. Range(u) = {u[i] : i \in 1..Len(u)}
      BY <2>2, RangeEquality
    <2> QED
      BY <2>2, <2>3
  <1>4. /\ last \in SelChain[sink] \ SelChain[from] /\ last \in Block
        /\ BlueScore[sink] - BlueScore[last] >= MinConfirmations
    BY <1>1
  <1>5. /\ \A b \in Block : /\ b \in SelChain[b]
                            /\ SelChain[b] \in SUBSET Block
                            /\ SelChain[b] \subseteq Past[b] \cup {b}
                            /\ \A c \in SelChain[b] : SelChain[c] \subseteq SelChain[b]
                            /\ \A c, d \in SelChain[b] : c \in SelChain[d] \/ d \in SelChain[c]
                            /\ BlueScore[b] \in Nat
                            /\ \A c \in SelChain[b] \ {b} : BlueScore[c] < BlueScore[b]
        /\ MinConfirmations \in Nat
    BY ChainAssumption
  \* What comes before the last block is on its chain, ...
  <1>6. ASSUME NEW i \in 1..n
        PROVE  s[i] \in SelChain[last] \ SelChain[from]
    <2>1. s[i] \in SelChain[sink] \ SelChain[from] /\ i \in 1..Len(s) /\ s[i] \in Block
      BY <1>1
    <2>2. CASE i = n
      BY <1>4, <1>5, <2>2
    <2>3. CASE i < n
      <3>1. last # s[i] /\ last \notin Past[s[i]]
        BY <1>2, <2>1, <2>3
      <3>2. last \notin SelChain[s[i]]
        BY <1>5, <2>1, <3>1
      <3> QED
        BY <1>4, <1>5, <2>1, <3>2
    <2> QED
      BY <2>2, <2>3
  \* ... and nothing of its chain comes later.
  <1>7. ASSUME NEW d \in SelChain[last] \ SelChain[from]
        PROVE  d \in done
    <2>1. d \in SelChain[sink] /\ d \in Block
      BY <1>4, <1>5
    <2>2. BlueScore[d] <= BlueScore[last]
      BY <1>4, <1>5, <2>1
    <2>3. BlueScore[sink] - BlueScore[d] >= MinConfirmations
      BY <1>4, <1>5, <2>1, <2>2
    <2>4. PICK j \in 1..Len(s) : d = s[j]
      BY <1>1, <2>1, <2>3
    <2>5. ~(n < j)
      <3>1. d = last \/ d \in Past[last]
        BY <1>4, <1>5
      <3> QED
        BY <1>2, <2>4, <3>1
    <2> QED
      BY <1>1, <2>4, <2>5
  <1>8. SelChain[last] \cap SelChain[from] = SelChain[sink] \cap SelChain[from]
    <2>1. SelChain[last] \subseteq SelChain[sink]
      BY <1>4, <1>5
    <2>2. ASSUME NEW d \in SelChain[sink] \cap SelChain[from]
          PROVE  d \in SelChain[last]
      <3>1. last \notin SelChain[d]
        BY <1>4, <1>5
      <3> QED
        BY <1>4, <1>5, <3>1
    <2> QED
      BY <2>1, <2>2
  <1> QED
    BY <1>3, <1>4, <1>6, <1>7, <1>8

\* The response a round works on, as it arrives.
LEMMA PollResponse ==
  ASSUME TypeOK, Start \in known, PollVirtualChain, vpc' = "wait"
  PROVE  /\ vcpRemoved' = SelChain[startHash] \ SelChain[Sink]
         /\ LastAccepting' \in SelChain[Sink] \ SelChain[startHash]
         /\ BlueScore[Sink] - BlueScore[LastAccepting'] >= MinConfirmations
         /\ Range(Accepted)' = SelChain[LastAccepting'] \ SelChain[startHash]
         /\ SelChain[LastAccepting'] \cap SelChain[startHash]
              = SelChain[Sink] \cap SelChain[startHash]
  <1>1. PICK added \in AddedChainBlocks(startHash) :
          /\ Len(added) > tipDistance
          /\ vcpRemoved' = RemovedChainBlocks(startHash)
          /\ vcpAdded' = added
    BY DEF PollVirtualChain
  <1>2. startHash \in Block /\ Sink \in Block /\ tipDistance \in Nat /\ UNCHANGED tipDistance
    BY SinkKnown DEF TypeOK, VcpTypeOK, StoreTypeOK, PollVirtualChain
  <1>3. /\ added \in TopologicalSeqs
        /\ Range(added) = {b \in SelChain[Sink] \ SelChain[startHash] :
                             BlueScore[Sink] - BlueScore[b] >= MinConfirmations}
        /\ Len(added) \in Nat
    BY ResponseType, LenProperties DEF AddedChainBlocks
  <1> DEFINE n == Len(added) - tipDistance
  <1>4. n \in 1..Len(added) /\ LastAccepting' = added[n] /\ Range(Accepted)' = Range(SubSeq(added, 1, n))
    BY <1>1, <1>2, <1>3 DEF LastAccepting, Accepted
  <1> HIDE DEF n
  <1> QED
    BY <1>1, <1>2, <1>3, <1>4, ResponseFollowsChain DEF RemovedChainBlocks

\* It leads from the chain of start_hash to the chain of its last block.
LEMMA PollFits ==
  ASSUME TypeOK, Start \in known, PollVirtualChain
  PROVE  ResponseFits'
  <1>1. vpc' \in {"poll", "wait"} /\ UNCHANGED startHash
    BY DEF PollVirtualChain
  <1>2. CASE vpc' = "poll"
    BY <1>2 DEF ResponseFits, Round
  <1>3. CASE vpc' = "wait"
    <2> DEFINE from == SelChain[startHash]
               to == SelChain[LastAccepting']
    <2>1. /\ vcpRemoved' = from \ SelChain[Sink]
          /\ Range(Accepted)' = to \ from
          /\ to \cap from = SelChain[Sink] \cap from
      BY <1>3, PollResponse
    <2>2. Start \in from
      BY ChainAssumption DEF TypeOK, VcpTypeOK
    <2>3. TrackedChain(LastAccepting)' = to \ {Start} /\ KeptChain' = (from \ {Start}) \ vcpRemoved'
      BY <1>1 DEF TrackedChain, KeptChain
    <2> QED
      BY <2>1, <2>2, <2>3 DEF ResponseFits
  <1> QED
    BY <1>1, <1>2, <1>3

\* Rows and blocks correspond.
LEMMA RowsOfBlocks ==
  ASSUME NEW S, NEW row
  PROVE  row \in AcceptanceRows(S) <=> \E c \in S : row \in Accepts[c] \X {c}
  BY DEF AcceptanceRows

LEMMA RowsMonotone ==
  ASSUME NEW S, NEW T, S \subseteq T
  PROVE  AcceptanceRows(S) \subseteq AcceptanceRows(T)
  BY DEF AcceptanceRows

\* A block that has rows is one of those the rows are of.
LEMMA RowBlock ==
  ASSUME NEW S, NEW row \in AcceptanceRows(S)
  PROVE  /\ row[2] \in S
         /\ row[1] \in Accepts[row[2]]
         /\ row = <<row[1], row[2]>>
  BY DEF AcceptanceRows

\* The step of the virtual chain processor on the acceptance rows: removal,
LEMMA RemoveFollows ==
  ASSUME TypeOK, AcceptancesFollow, RemoveChainBlocks
  PROVE  AcceptancesFollow'
  <1> DEFINE before == AcceptanceRows(TrackedChain(startHash))
             kept == AcceptanceRows(KeptChain)
             after == AcceptanceRows(KeptChain \cup Range(Accepted))
  <1>1. /\ vpc = "remove" /\ vpc' \in {"remove", "accept"}
        /\ UNCHANGED <<startHash, vcpRemoved, vcpAdded, tipDistance>>
    BY DEF RemoveChainBlocks
  <1>2. kept \subseteq acceptances /\ acceptances \subseteq before
    BY <1>1 DEF AcceptancesFollow
  <1>3. before' = before /\ kept' = kept /\ after' = after
    BY <1>1 DEF TrackedChain, KeptChain, Accepted
  <1>4. CASE vpc' = "remove"
    <2>1. PICK chunk \in SUBSET Stale : acceptances' = {row \in acceptances : row[2] \notin chunk}
      BY <1>1, <1>4 DEF RemoveChainBlocks, DeleteAcceptances
    <2>2. chunk \subseteq vcpRemoved
      BY DEF Stale, WithAcceptanceRows
    <2>3. kept \subseteq acceptances'
      <3> SUFFICES ASSUME NEW row \in kept PROVE row \in acceptances'
        OBVIOUS
      <3>1. row[2] \in KeptChain
        BY RowBlock
      <3> QED
        BY <1>2, <2>1, <2>2, <3>1 DEF KeptChain
    <2>4. acceptances' \subseteq before
      BY <1>2, <2>1
    <2> QED
      BY <1>3, <1>4, <2>3, <2>4 DEF AcceptancesFollow
  <1>5. CASE vpc' = "accept"
    <2>1. Stale = {} /\ UNCHANGED acceptances
      BY <1>1, <1>5 DEF RemoveChainBlocks
    <2>2. acceptances \subseteq kept
      <3> SUFFICES ASSUME NEW row \in acceptances PROVE row \in kept
        OBVIOUS
      <3>1. /\ row[2] \in TrackedChain(startHash)
            /\ row[1] \in Accepts[row[2]]
            /\ row = <<row[1], row[2]>>
        BY <1>2, RowBlock
      <3>2. row[1] \in Tx
        BY DEF TypeOK, StoreTypeOK
      <3>3. row[2] \notin vcpRemoved
        BY <2>1, <3>1, <3>2 DEF Stale, WithAcceptanceRows
      <3>4. row[2] \in KeptChain
        BY <3>1, <3>3 DEF KeptChain
      <3> QED
        BY <3>1, <3>4 DEF AcceptanceRows
    <2>3. kept \subseteq after
      BY RowsMonotone
    <2> QED
      BY <1>2, <1>3, <1>5, <2>1, <2>2, <2>3 DEF AcceptancesFollow
  <1> QED
    BY <1>1, <1>4, <1>5

\* ... and insertion: a transaction the conflict keeps out is one the same
\* chain block accepted before.
LEMMA AcceptFollows ==
  ASSUME TypeOK, ResponseFits, AcceptancesFollow, AcceptTransactions
  PROVE  AcceptancesFollow'
  <1> DEFINE kept == AcceptanceRows(KeptChain)
             chain == KeptChain \cup Range(Accepted)
             after == AcceptanceRows(chain)
             offered == AcceptanceRows(Range(Accepted))
  <1>1. /\ vpc = "accept" /\ vpc' \in {"accept", "push"}
        /\ UNCHANGED <<startHash, vcpRemoved, vcpAdded, tipDistance>>
    BY DEF AcceptTransactions
  <1>2. PICK chunk \in SUBSET NewAcceptances :
          /\ acceptances' = acceptances \cup chunk
          /\ vpc' = IF NewAcceptances \subseteq chunk THEN "push" ELSE "accept"
    BY DEF AcceptTransactions
  <1>3. kept \subseteq acceptances /\ acceptances \subseteq after
    BY <1>1 DEF AcceptancesFollow
  <1>4. NewAcceptances = {row \in offered : \A old \in acceptances : old[1] # row[1]}
    BY DEF NewAcceptances, Unmarked, AcceptanceRows
  <1>5. offered \subseteq after /\ after = kept \cup offered
    BY DEF AcceptanceRows
  <1>6. acceptances' \subseteq after /\ kept \subseteq acceptances'
    BY <1>2, <1>3, <1>4, <1>5
  <1>7. kept' = kept /\ after' = after
    BY <1>1 DEF TrackedChain, KeptChain, Accepted
  <1>8. CASE vpc' = "accept"
    BY <1>6, <1>7, <1>8 DEF AcceptancesFollow
  <1>9. CASE vpc' = "push"
    <2>1. NewAcceptances \subseteq acceptances'
      BY <1>2, <1>9
    <2>2. ASSUME NEW row \in offered
          PROVE  row \in acceptances'
      <3>1. CASE row \in NewAcceptances
        BY <2>1, <3>1
      <3>2. CASE row \notin NewAcceptances
        <4>1. PICK old \in acceptances : old[1] = row[1]
          BY <1>4, <3>2
        <4>2. /\ old[2] \in chain /\ old[1] \in Accepts[old[2]] /\ old = <<old[1], old[2]>>
              /\ row[2] \in chain /\ row[1] \in Accepts[row[2]] /\ row = <<row[1], row[2]>>
          BY <1>3, <1>5, RowBlock
        <4>3. chain = TrackedChain(LastAccepting) /\ LastAccepting \in Block
          BY <1>1, AcceptedType DEF ResponseFits, Round, TypeOK
        <4>4. old[2] = row[2]
          BY <4>1, <4>2, <4>3, ChainAssumption DEF TrackedChain
        <4> QED
          BY <1>2, <4>1, <4>2, <4>4
      <3> QED
        BY <3>1, <3>2
    <2> QED
      BY <1>5, <1>6, <1>7, <1>9, <2>2 DEF AcceptancesFollow
  <1> QED
    BY <1>1, <1>8, <1>9

\* The same steps on the chain block markers.
LEMMA RemoveMarkers ==
  ASSUME TypeOK, ChainRowsFollow, RemoveChainBlocks
  PROVE  ChainRowsFollow'
  <1>1. /\ vpc = "remove" /\ vpc' \in {"remove", "accept"}
        /\ UNCHANGED <<startHash, vcpRemoved, vcpAdded, tipDistance>>
        /\ chainRows \in [Block -> Nat]
    BY DEF RemoveChainBlocks, TypeOK, StoreTypeOK
  <1>2. \A b \in Block : /\ b \in KeptChain => chainRows[b] = 1
                         /\ b \notin TrackedChain(startHash) => chainRows[b] = 0
    BY <1>1 DEF ChainRowsFollow
  <1>3. UNCHANGED <<TrackedChain(startHash), KeptChain>>
    BY <1>1 DEF TrackedChain, KeptChain
  <1>4. CASE vpc' = "remove"
    <2>1. PICK chunk \in SUBSET Stale :
            chainRows' = [b \in Block |-> IF b \in chunk THEN 0 ELSE chainRows[b]]
      BY <1>1, <1>4 DEF RemoveChainBlocks, DeleteAcceptances
    <2>2. chunk \cap KeptChain = {}
      BY DEF Stale, WithAcceptanceRows, KeptChain
    <2>3. \A b \in Block : /\ b \in KeptChain => chainRows'[b] = 1
                           /\ b \notin TrackedChain(startHash) => chainRows'[b] = 0
      BY <1>2, <2>1, <2>2
    <2> QED
      BY <1>3, <1>4, <2>3 DEF ChainRowsFollow
  <1>5. CASE vpc' = "accept"
    <2>1. Stale = {} /\ UNCHANGED chainRows
      BY <1>1, <1>5 DEF RemoveChainBlocks
    <2>2. \A b \in Block : b \in vcpRemoved => chainRows[b] = 0
      BY <1>1, <2>1 DEF Stale, WithAcceptanceRows
    <2>3. \A b \in Block : chainRows[b] = IF b \in KeptChain THEN 1 ELSE 0
      BY <1>2, <2>2 DEF KeptChain
    <2>4. chainRows = MarkersOf(KeptChain)
      BY <1>1, <2>3 DEF MarkersOf
    <2> QED
      BY <1>3, <1>5, <2>1, <2>4 DEF ChainRowsFollow, MarkersOf
  <1> QED
    BY <1>1, <1>4, <1>5

LEMMA AddMarkers ==
  ASSUME TypeOK, ResponseFits, ChainRowsFollow, AddChainBlocks
  PROVE  ChainRowsFollow'
  <1>1. /\ vpc = "accept" /\ vpc' = "push"
        /\ UNCHANGED <<startHash, vcpRemoved, vcpAdded, tipDistance>>
        /\ chainRows' = [b \in Block |->
             IF b \in Range(Accepted) THEN chainRows[b] + 1 ELSE chainRows[b]]
    BY DEF AddChainBlocks
  <1>2. chainRows = MarkersOf(KeptChain) /\ KeptChain \cap Range(Accepted) = {}
    BY <1>1 DEF ChainRowsFollow, ResponseFits, Round
  <1>3. UNCHANGED <<KeptChain, Range(Accepted)>>
    BY <1>1 DEF TrackedChain, KeptChain, Accepted
  <1>4. chainRows' = MarkersOf(KeptChain \cup Range(Accepted))
    BY <1>1, <1>2 DEF MarkersOf
  <1> QED
    BY <1>1, <1>3, <1>4 DEF ChainRowsFollow, MarkersOf

\* A step of the virtual chain processor: a round that began exact stays
\* between the two chains and ends on the second.
LEMMA VcpKeepsFollowed ==
  ASSUME TypeOK, Start \in known, ChainFollowed, VcpStep
  PROVE  ChainFollowed'
  <1>1. /\ startVcp /\ startVcp' /\ ResponseFits
        /\ DisableTransactionAcceptance => ChainRowsFollow
        /\ ~DisableTransactionAcceptance => AcceptancesFollow
    BY DEF ChainFollowed, VcpStep, VcpFrame
  <1>2. ASSUME ResponseFits',
               DisableTransactionAcceptance => ChainRowsFollow',
               ~DisableTransactionAcceptance => AcceptancesFollow'
        PROVE  ChainFollowed'
    BY <1>1, <1>2 DEF ChainFollowed
  <1>3. CASE PollVirtualChain
    <2>1. /\ vpc = "poll" /\ vpc' \in {"poll", "wait"}
          /\ UNCHANGED <<startHash, acceptances, chainRows>>
      BY <1>3 DEF PollVirtualChain
    <2>2. AcceptancesFollow => AcceptancesFollow'
      BY <2>1 DEF AcceptancesFollow, AcceptanceRows, TrackedChain
    <2>3. ChainRowsFollow => ChainRowsFollow'
      BY <2>1 DEF ChainRowsFollow, MarkersOf, TrackedChain
    <2> QED
      BY <1>1, <1>2, <1>3, <2>2, <2>3, PollFits
  \* The other steps work on the same response.
  <1>4. ASSUME UNCHANGED <<startHash, vcpRemoved, vcpAdded, tipDistance>>,
               vpc \in Round
        PROVE  ResponseFits'
    <2>1. UNCHANGED <<KeptChain, Range(Accepted), TrackedChain(LastAccepting)>>
      BY <1>4 DEF KeptChain, Accepted, TrackedChain, LastAccepting
    <2> QED
      BY <1>1, <1>4, <2>1 DEF ResponseFits
  <1>5. CASE CatchUp \/ WaitLonger \/ VcpExit
    <2>1. /\ vpc \in {"poll", "wait", "behind"}
          /\ vpc' \in {"wait", "behind", "remove", "exited"}
          /\ vpc = "poll" => vpc' = "exited"
          /\ UNCHANGED <<startHash, vcpRemoved, vcpAdded, tipDistance, acceptances, chainRows>>
      BY <1>5 DEF CatchUp, WaitLonger, VcpExit
    <2>2. UNCHANGED <<KeptChain, TrackedChain(startHash)>> /\ KeptChain \subseteq TrackedChain(startHash)
      BY <2>1 DEF KeptChain, TrackedChain
    <2>3. ResponseFits'
      BY <1>4, <2>1 DEF Round, ResponseFits
    <2>4. ASSUME AcceptancesFollow PROVE AcceptancesFollow'
      <3>1. acceptances = AcceptanceRows(TrackedChain(startHash))
        BY <2>1, <2>4 DEF AcceptancesFollow
      <3>2. AcceptanceRows(KeptChain) \subseteq AcceptanceRows(TrackedChain(startHash))
        BY <2>2, RowsMonotone
      <3> QED
        BY <2>1, <2>2, <3>1, <3>2 DEF AcceptancesFollow, AcceptanceRows
    <2>5. ASSUME ChainRowsFollow PROVE ChainRowsFollow'
      <3>1. chainRows = MarkersOf(TrackedChain(startHash))
        BY <2>1, <2>5 DEF ChainRowsFollow
      <3> QED
        BY <2>1, <2>2, <3>1 DEF ChainRowsFollow, MarkersOf
    <2> QED
      BY <1>1, <1>2, <2>3, <2>4, <2>5
  <1>6. CASE RemoveChainBlocks
    <2>1. ResponseFits'
      BY <1>4, <1>6 DEF RemoveChainBlocks, Round
    <2> QED
      BY <1>1, <1>2, <1>6, <2>1, RemoveFollows, RemoveMarkers
  <1>7. CASE AcceptTransactions
    <2>1. ResponseFits' /\ ~DisableTransactionAcceptance
      BY <1>4, <1>7 DEF AcceptTransactions, Round
    <2> QED
      BY <1>1, <1>2, <1>7, <2>1, AcceptFollows
  <1>8. CASE AddChainBlocks
    <2>1. ResponseFits' /\ DisableTransactionAcceptance
      BY <1>4, <1>8 DEF AddChainBlocks, Round
    <2> QED
      BY <1>1, <1>2, <1>8, <2>1, AddMarkers
  <1>9. CASE PushVcpCheckpoint
    <2>1. /\ vpc = "push" /\ vpc' = "poll"
          /\ startHash' = LastAccepting
          /\ UNCHANGED <<acceptances, chainRows>>
      BY <1>9 DEF PushVcpCheckpoint
    <2>2. TrackedChain(startHash)' = KeptChain \cup Range(Accepted)
      BY <1>1, <2>1 DEF ResponseFits, Round, TrackedChain
    <2>3. AcceptancesFollow => AcceptancesFollow'
      BY <2>1, <2>2 DEF AcceptancesFollow, AcceptanceRows
    <2>4. ChainRowsFollow => ChainRowsFollow'
      BY <2>1, <2>2 DEF ChainRowsFollow, MarkersOf
    <2>5. ResponseFits'
      BY <2>1 DEF ResponseFits, Round
    <2> QED
      BY <1>1, <1>2, <2>3, <2>4, <2>5
  <1> QED
    BY <1>3, <1>5, <1>6, <1>7, <1>8, <1>9 DEF VcpStep, VcpNext

\* A step that leaves the virtual chain processor and its tables alone.
LEMMA FollowedFrame ==
  ASSUME ChainFollowed, UNCHANGED <<vcpVars, startVcp, acceptances, chainRows>>
  PROVE  ChainFollowed'
  <1>1. UNCHANGED <<KeptChain, Range(Accepted), TrackedChain(LastAccepting),
                    TrackedChain(startHash), vpc>>
    BY DEF vcpVars, KeptChain, Accepted, TrackedChain, LastAccepting
  <1>2. ResponseFits' /\ startVcp'
    BY <1>1 DEF ChainFollowed, ResponseFits
  <1>3. AcceptancesFollow => AcceptancesFollow'
    BY <1>1 DEF AcceptancesFollow, AcceptanceRows
  <1>4. ChainRowsFollow => ChainRowsFollow'
    BY <1>1 DEF ChainRowsFollow, MarkersOf
  <1> QED
    BY <1>2, <1>3, <1>4 DEF ChainFollowed

\* Once the start is given, the block processor leaves the acceptances alone
\* and never takes the start back.
LEMMA BlockProcAfterStart ==
  ASSUME startVcp, BlockProcStep
  PROVE  UNCHANGED <<vcpVars, startVcp, acceptances, chainRows>>
  <1>1. ~Clearing
    BY DEF Clearing
  <1> QED
    BY <1>1 DEF BlockProcStep, BlockProcFrame, BlockProcNext, PopBlock, InsertBlocks,
                InsertBlockParents, ClearAcceptances, FinishCommit, PushBlockCheckpoint,
                BlockProcExit

\* Every step but a restart keeps the tables on the chain.
LEMMA NextFollows ==
  ASSUME TypeOK, Start \in known, ChainFollowed, [Next]_vars
  PROVE  ChainFollowed' \/ Restart
  <1>1. CASE VcpStep
    BY <1>1, VcpKeepsFollowed
  <1>2. CASE BlockProcStep
    BY <1>2, BlockProcAfterStart, FollowedFrame DEF ChainFollowed
  <1>3. CASE ~VcpStep /\ ~BlockProcStep /\ ~Restart
    <2>1. UNCHANGED <<vcpVars, startVcp, acceptances, chainRows>>
      BY <1>3 DEF Next, NodeStep, FetcherStep, FetcherFrame, TxProcStep, TxProcFrame,
                  CheckpointStep, CheckpointFrame, Signal, Terminated, vars, durable, tables,
                  shared
    <2> QED
      BY <2>1, FollowedFrame
  <1> QED
    BY <1>1, <1>2, <1>3

\* The node always has the pruning point.
LEMMA StartKnown == Spec => [](Start \in known)
  <1>1. Init => Start \in known
    BY ConsensusAssumption DEF Init, ConsensusInit
  <1>2. Start \in known /\ [Next]_vars => (Start \in known)'
    BY DEF Next, NodeStep, AddBlock, FetcherStep, FetcherFrame, BlockProcStep, BlockProcFrame,
           TxProcStep, TxProcFrame, VcpStep, VcpFrame, CheckpointStep, CheckpointFrame, Signal,
           Restart, Terminated, vars
  <1> QED
    BY <1>1, <1>2, PTL DEF Spec

\* A step within the first run of the process.
LEMMA FirstRunStep ==
  ASSUME TypeOK, [Next]_vars, restarts' = 0
  PROVE  restarts = 0 /\ ~Restart
  <1>1. CASE Restart
    BY <1>1 DEF Restart, TypeOK
  <1>2. CASE ~Restart
    BY <1>2 DEF Next, NodeStep, FetcherStep, FetcherFrame, BlockProcStep, BlockProcFrame,
                TxProcStep, TxProcFrame, VcpStep, VcpFrame, CheckpointStep, CheckpointFrame,
                Signal, Terminated, vars
  <1> QED
    BY <1>1, <1>2

\* Before the start is given there is nothing to clear, and the first round
\* begins at the pruning point.
LEMMA NextFirstRun ==
  TypeOK /\ Start \in known /\ FirstRunFollows /\ [Next]_vars => FirstRunFollows'
  <1> SUFFICES ASSUME TypeOK, Start \in known, FirstRunFollows, [Next]_vars, restarts' = 0
               PROVE  NotStarted' \/ ChainFollowed'
    BY DEF FirstRunFollows
  <1>1. restarts = 0 /\ ~Restart
    BY FirstRunStep
  <1>2. CASE ChainFollowed
    BY <1>1, <1>2, NextFollows
  <1>3. CASE NotStarted
    <2>1. /\ ~startVcp /\ startHash = Start /\ vpc \notin Round
          /\ acceptances = {} /\ chainRows = MarkersOf({})
      BY <1>3 DEF NotStarted
    <2>2. \A hashes \in SUBSET Block : WithAcceptanceRows(hashes) = {}
      BY <2>1 DEF WithAcceptanceRows, MarkersOf
    <2>3. CASE VcpStep
      <3>1. UNCHANGED <<startVcp, startHash, acceptances, chainRows>> /\ vpc' \notin Round
        BY <2>1, <2>3 DEF VcpStep, VcpFrame, VcpNext, PollVirtualChain, CatchUp, WaitLonger,
                          RemoveChainBlocks, AcceptTransactions, AddChainBlocks,
                          PushVcpCheckpoint, VcpExit, Round
      <3> QED
        BY <2>1, <3>1 DEF NotStarted, MarkersOf
    <2>4. CASE BlockProcStep
      <3>1. UNCHANGED <<acceptances, chainRows, startHash, vpc>>
        <4>1. UNCHANGED <<startHash, vpc>>
          BY <2>4 DEF BlockProcStep, BlockProcFrame, vcpVars
        <4>2. blockBatch \in Seq(Block) /\ (bpc = "clear" => blockBatch # <<>>)
          BY DEF TypeOK, BlockProcTypeOK
        <4>3. bpc = "clear" => ToClear \in SUBSET Block
          <5>1. bpc = "clear" => Tail(blockBatch) \in Seq(Block)
            BY <4>2, Popped
          <5> QED
            BY <4>2, <5>1, RangeOfSeq DEF ToClear
        <4>4. ~ClearAcceptances
          <5> SUFFICES ASSUME ClearAcceptances PROVE FALSE
            OBVIOUS
          <5>1. WithAcceptanceRows(ToClear) = {}
            BY <2>2, <4>3 DEF ClearAcceptances
          <5>2. PICK chunk \in (SUBSET WithAcceptanceRows(ToClear)) \ {{}} :
                  DeleteAcceptances(chunk)
            BY DEF ClearAcceptances
          <5>3. chunk # {} /\ \A b \in chunk : b \in WithAcceptanceRows(ToClear)
            BY <5>2
          <5>4. chunk = {}
            BY <5>1, <5>3
          <5> QED
            BY <5>3, <5>4
        <4> QED
          BY <2>4, <4>1, <4>4
             DEF BlockProcStep, BlockProcNext, PopBlock, InsertBlocks, InsertBlockParents,
                 FinishCommit, PushBlockCheckpoint, BlockProcExit
      <3>2. CASE ~startVcp'
        BY <2>1, <3>1, <3>2 DEF NotStarted, MarkersOf
      <3>3. CASE startVcp'
        <4>1. TrackedChain(Start) = {}
          BY ConsensusAssumption, ChainAssumption DEF TrackedChain
        <4>2. AcceptanceRows({}) = {}
          BY DEF AcceptanceRows
        <4>3. ResponseFits'
          BY <2>1, <3>1 DEF ResponseFits
        <4>4. vpc' \notin {"remove", "accept", "push"}
          BY <2>1, <3>1 DEF Round
        <4>5. TrackedChain(startHash)' = {}
          BY <2>1, <3>1, <4>1 DEF TrackedChain
        <4>6. AcceptancesFollow'
          BY <2>1, <3>1, <4>2, <4>4, <4>5 DEF AcceptancesFollow, AcceptanceRows
        <4>7. ChainRowsFollow'
          BY <2>1, <3>1, <4>4, <4>5 DEF ChainRowsFollow, MarkersOf
        <4> QED
          BY <3>3, <4>3, <4>6, <4>7 DEF ChainFollowed
      <3> QED
        BY <3>2, <3>3
    <2>5. CASE ~VcpStep /\ ~BlockProcStep
      <3>1. UNCHANGED <<vcpVars, startVcp, acceptances, chainRows>>
        BY <1>1, <2>5 DEF Next, NodeStep, FetcherStep, FetcherFrame, TxProcStep, TxProcFrame,
                          CheckpointStep, CheckpointFrame, Signal, Terminated, vars, durable,
                          tables, shared
      <3> QED
        BY <2>1, <3>1 DEF NotStarted, MarkersOf, vcpVars
    <2> QED
      BY <2>3, <2>4, <2>5
  <1> QED
    BY <1>1, <1>2, <1>3 DEF FirstRunFollows

\* Until the process is first killed, the tables of the virtual chain
\* processor are empty or follow the selected chain through every stage of
\* every round: the inductive invariant, for every value of the constants.
THEOREM FirstRunInvariant == Spec => []FirstRunFollows
  <1>1. Init => FirstRunFollows
    <2> SUFFICES ASSUME Init PROVE NotStarted
      BY DEF FirstRunFollows
    <2>1. vpc \notin Round
      BY DEF Init, VcpInit, Round
    <2> QED
      BY <2>1 DEF Init, SharedInit, StoreInit, VcpInit, NotStarted, MarkersOf
  <1> QED
    BY <1>1, NextFirstRun, StartKnown, TypeCorrect, PTL DEF Spec

\* Between two rounds the accepted transactions are exactly those of the
\* selected chain up to start_hash: however often and however deep the chain
\* is reorganised, whenever the node grows during a round, no row is stale
\* and none is missing.
THEOREM AcceptancesFollowChain == Spec => [](restarts = 0 => AcceptancesExact)
  <1>1. FirstRunFollows => (restarts = 0 => AcceptancesExact)
    BY DEF FirstRunFollows, NotStarted, ChainFollowed, AcceptancesFollow, AcceptancesExact,
           AcceptanceRows, ChainAcceptances
  <1> QED
    BY <1>1, FirstRunInvariant, PTL

\* The same for the chain block markers of --disable=transaction_acceptance,
\* which no conflict keeps from being doubled.
THEOREM ChainRowsFollowChain == Spec => [](restarts = 0 => ChainRowsExact)
  <1>1. FirstRunFollows => (restarts = 0 => ChainRowsExact)
    BY DEF FirstRunFollows, NotStarted, ChainFollowed, ChainRowsFollow, ChainRowsExact, MarkersOf
  <1> QED
    BY <1>1, FirstRunInvariant, PTL

\* Also after any number of restarts: once the tables follow the chain, they
\* do so until the process ends.
THEOREM RoundsKeepFollowing == Spec => StaysFollowed
  <1>1. TypeOK /\ Start \in known /\ [Next]_vars
          => [ChainFollowed => ChainFollowed' \/ Restart]_vars
    BY NextFollows
  <1> QED
    BY <1>1, StartKnown, TypeCorrect, PTL DEF Spec, StaysFollowed
=============================================================================
