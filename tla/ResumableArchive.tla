-------------------------- MODULE ResumableArchive --------------------------
(***************************************************************************)
(* What the indexer promises about transactions, whatever happens inside:  *)
(* blocks are archived and stay so, and there is a checkpoint from which   *)
(* it can be continued, because all that is before it is archived.  How    *)
(* blocks travel, in which order tasks report them and when the process is *)
(* killed and started again cannot be seen here.                           *)
(***************************************************************************)
CONSTANTS
  Block,        \* the blocks
  Start,        \* the block to begin with
  Past          \* Past[b]: the blocks before b

VARIABLES
  archived,     \* blocks whose transactions are stored
  checkpoint,   \* where to continue
  forced        \* the promise was given up: a checkpoint was saved unconfirmed

vars == <<archived, checkpoint, forced>>

\* Blocks without transactions need no archiving.
Init ==
  /\ archived \subseteq Block
  /\ checkpoint = Start
  /\ forced = FALSE

\* More blocks are archived.
Archive ==
  /\ archived \subseteq archived'
  /\ archived' \subseteq Block
  /\ UNCHANGED <<checkpoint, forced>>

\* The checkpoint moves to a block that has everything before it archived.
MoveCheckpoint ==
  /\ checkpoint' \in Block
  /\ Past[checkpoint'] \subseteq archived \/ forced
  /\ UNCHANGED <<archived, forced>>

\* After too long a time without a confirmation the promise is given up.
GiveUp ==
  /\ forced' = TRUE
  /\ UNCHANGED <<archived, checkpoint>>

Next == Archive \/ MoveCheckpoint \/ GiveUp

Spec == Init /\ [][Next]_vars
=============================================================================
