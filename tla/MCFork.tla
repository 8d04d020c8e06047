------------------------------- MODULE MCFork -------------------------------
(***************************************************************************)
(* Two branches on the pruning point s: x1 <- x2 and y1.  Blue work makes  *)
(* x1, then y1, then x2 the sink as the node receives them, so the chain   *)
(* is reorganised twice.  Both x1 and y1 accept the transaction of s.      *)
(***************************************************************************)
EXTENDS ChainFollowing

MCBlock == {"s", "x1", "y1", "x2"}
MCTx == {"t1", "t2"}
MCPast == [s |-> {}, x1 |-> {"s"}, y1 |-> {"s"}, x2 |-> {"s", "x1"}]
MCSelChain == [s |-> {"s"}, x1 |-> {"s", "x1"}, y1 |-> {"s", "y1"},
               x2 |-> {"s", "x1", "x2"}]
MCBlueWork == [s |-> 0, x1 |-> 1, y1 |-> 2, x2 |-> 3]
MCBlueScore == [s |-> 0, x1 |-> 1, y1 |-> 1, x2 |-> 2]
MCTxsOf == [s |-> {"t1"}, x1 |-> {"t2"}, y1 |-> {}, x2 |-> {}]
MCAccepts == [s |-> {}, x1 |-> {"t1"}, y1 |-> {"t1"}, x2 |-> {"t2"}]
MCKnown == {"s", "x1"}
=============================================================================
