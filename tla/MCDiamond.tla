----------------------------- MODULE MCDiamond -----------------------------
(***************************************************************************)
(* A diamond: the pruning point s, two parallel blocks a and b, and c that *)
(* merges them (selected parent b).  Transaction t1 is in both a and b.    *)
(***************************************************************************)
EXTENDS TxDurability, BlockDurability

MCBlock == {"s", "a", "b", "c"}
MCTx == {"t1"}
MCPast == [s |-> {}, a |-> {"s"}, b |-> {"s"}, c |-> {"s", "a", "b"}]
MCSelChain == [s |-> {"s"}, a |-> {"s", "a"}, b |-> {"s", "b"}, c |-> {"s", "b", "c"}]
MCBlueWork == [s |-> 0, a |-> 1, b |-> 2, c |-> 3]
MCBlueScore == [s |-> 0, a |-> 1, b |-> 1, c |-> 3]
MCTxsOf == [s |-> {}, a |-> {"t1"}, b |-> {"t1"}, c |-> {}]
MCAccepts == [s |-> {}, a |-> {}, b |-> {}, c |-> {"t1"}]
=============================================================================
