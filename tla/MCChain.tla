------------------------------ MODULE MCChain ------------------------------
(***************************************************************************)
(* A chain s <- a <- b <- c, and its prefixes of three and two blocks.     *)
(* Blocks s and a carry a transaction each; as in the DAG, the next chain  *)
(* block accepts it.                                                       *)
(***************************************************************************)
EXTENDS TxDurability, CheckpointOrder

MCTx == {"t1", "t2"}

MCBlock == {"s", "a", "b"}
MCKnown == {"s", "a"}
MCPast == [s |-> {}, a |-> {"s"}, b |-> {"s", "a"}]
MCSelChain == [s |-> {"s"}, a |-> {"s", "a"}, b |-> {"s", "a", "b"}]
MCScore == [s |-> 0, a |-> 1, b |-> 2]
MCTxsOf == [s |-> {"t1"}, a |-> {"t2"}, b |-> {}]
MCAccepts == [s |-> {}, a |-> {"t1"}, b |-> {"t2"}]

MCBlock2 == {"s", "a"}
MCPast2 == [s |-> {}, a |-> {"s"}]
MCSelChain2 == [s |-> {"s"}, a |-> {"s", "a"}]
MCScore2 == [s |-> 0, a |-> 1]
MCTxsOf2 == [s |-> {}, a |-> {"t1"}]
MCAccepts2 == [s |-> {}, a |-> {}]

MCBlock4 == MCBlock \cup {"c"}
MCPast4 == [s |-> {}, a |-> {"s"}, b |-> {"s", "a"}, c |-> {"s", "a", "b"}]
MCSelChain4 == [s |-> {"s"}, a |-> {"s", "a"}, b |-> {"s", "a", "b"}, c |-> MCBlock4]
MCScore4 == [s |-> 0, a |-> 1, b |-> 2, c |-> 3]
MCTxsOf4 == [s |-> {"t1"}, a |-> {"t2"}, b |-> {}, c |-> {}]
MCAccepts4 == [s |-> {}, a |-> {"t1"}, b |-> {"t2"}, c |-> {}]
=============================================================================
