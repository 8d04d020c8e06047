--------------------------- MODULE ChainFollowing ---------------------------
(***************************************************************************)
(* How the virtual chain processor follows the selected chain through      *)
(* reorgs: the inductive invariant behind AcceptancesExact and             *)
(* ChainRowsExact.                                                         *)
(*                                                                         *)
(* A round takes the tables from the chain of start_hash to the chain of   *)
(* the last block it processes.  The response is taken at one moment, the  *)
(* rows are removed and added chunk by chunk while the node goes on, and   *)
(* every stage of the round leaves the tables between two known sets.      *)
(***************************************************************************)
EXTENDS Indexer

\* The acceptance rows of a set of chain blocks.
AcceptanceRows(blocks) == UNION {Accepts[c] \X {c} : c \in blocks}

\* Of the chain the tables are at, the part the response keeps.
KeptChain == TrackedChain(startHash) \ vcpRemoved

Round == {"wait", "behind", "remove", "accept", "push"}

\* The response leads from the chain of start_hash to the chain of the last
\* block that is processed, wherever the tip distance cuts it.
ResponseFits ==
  vpc \in Round =>
    /\ TrackedChain(LastAccepting) = KeptChain \cup Range(Accepted)
    /\ KeptChain \cap Range(Accepted) = {}

\* The acceptance rows, stage by stage.
AcceptancesFollow ==
  LET before == AcceptanceRows(TrackedChain(startHash))
      kept == AcceptanceRows(KeptChain)
      after == AcceptanceRows(KeptChain \cup Range(Accepted))
  IN  /\ vpc \in {"poll", "wait", "behind", "exited"} => acceptances = before
      /\ vpc = "remove" => kept \subseteq acceptances /\ acceptances \subseteq before
      /\ vpc = "accept" => kept \subseteq acceptances /\ acceptances \subseteq after
      /\ vpc = "push" => acceptances = after

\* The chain block markers, stage by stage.  They never conflict, so a block
\* must have none when it is added.
MarkersOf(blocks) == [b \in Block |-> IF b \in blocks THEN 1 ELSE 0]

ChainRowsFollow ==
  /\ vpc \in {"poll", "wait", "behind", "exited"} =>
       chainRows = MarkersOf(TrackedChain(startHash))
  /\ vpc = "remove" =>
       \A b \in Block : /\ b \in KeptChain => chainRows[b] = 1
                        /\ b \notin TrackedChain(startHash) => chainRows[b] = 0
  /\ vpc = "accept" => chainRows = MarkersOf(KeptChain)
  /\ vpc = "push" => chainRows = MarkersOf(KeptChain \cup Range(Accepted))

\* The tables follow the chain.
ChainFollowed ==
  /\ startVcp
  /\ ResponseFits
  /\ IF DisableTransactionAcceptance THEN ChainRowsFollow ELSE AcceptancesFollow

\* The virtual chain processor was not given the start yet, and there is
\* nothing in its tables.
NotStarted ==
  /\ ~startVcp
  /\ startHash = Start
  /\ vpc \notin Round
  /\ acceptances = {}
  /\ chainRows = MarkersOf({})

\* The invariant, until the process is first killed.
FirstRunFollows == restarts = 0 => NotStarted \/ ChainFollowed

\* Once the tables follow the chain they do so until the process ends,
\* whatever the tasks, the node and the signal do: a round that began exact
\* ends exact, on the chain of the block it offers as checkpoint
\* (process_virtual_chain.rs, the body of the loop).
StaysFollowed == [][ChainFollowed => ChainFollowed' \/ Restart]_vars
=============================================================================
