---------------------------- MODULE MCRetention ----------------------------
(***************************************************************************)
(* Payments: t1 pays o1 and o2, t3 spends one of them or, where there is a *)
(* t2 in between, what t2 made of it; r also spends o2 but is never        *)
(* accepted.  o2 and o4 stay unspent.  Blocks come at uneven intervals.    *)
(***************************************************************************)
EXTENDS RetentionInvariant

MCOutpoint == {"o1", "o2", "o3", "o4", "or"}

\* Three transactions, of which t3 waits for its acceptance while the others
\* expire.
MCTx == {"t1", "t3", "r"}
MCTimestamp == <<1, 2, 4, 4>>
MCBlockOf == [t1 |-> 1, t3 |-> 2, r |-> 1]
MCAcceptedBy == [t1 |-> 2, t3 |-> 4, r |-> MaxPoint + 1]
MCOutputsOf == [t1 |-> {"o1", "o2"}, t3 |-> {"o4"}, r |-> {"or"}]
MCSpendsOf == [t1 |-> {}, t3 |-> {"o1"}, r |-> {"o2"}]

\* A chain of three payments, all of them accepted before they expire.
MCTxPaid == {"t1", "t2", "t3"}
MCTimestampPaid == <<1, 2, 4, 6>>
MCBlockOfPaid == [t1 |-> 1, t2 |-> 1, t3 |-> 2]
MCAcceptedByPaid == [t1 |-> 2, t2 |-> 2, t3 |-> 3]
MCOutputsOfPaid == [t1 |-> {"o1", "o2"}, t2 |-> {"o3"}, t3 |-> {"o4"}]
MCSpendsOfPaid == [t1 |-> {}, t2 |-> {"o1"}, t3 |-> {"o3"}]
=============================================================================
