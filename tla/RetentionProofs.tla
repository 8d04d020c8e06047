-------------------------- MODULE RetentionProofs --------------------------
(***************************************************************************)
(* The pruner deletes nothing that is needed, for every ledger, retention, *)
(* batch size, choice of rows by the database and number of restarts.      *)
(***************************************************************************)
EXTENDS RetentionInvariant, FiniteSetTheorems, TLAPS

Sound == TypeOK /\ RetentionSound

\* The constants.
LEMMA Constants ==
  /\ MaxPoint \in Nat \ {0} /\ PruneBatchSize \in Nat \ {0}
  /\ MergeDelay \in Nat /\ CatchUp \in Nat /\ MaxTime \in Nat /\ MaxFaults \in Nat
  /\ 1 \in Point /\ \A k \in Point : k \in Nat \ {0} /\ k <= MaxPoint
  /\ NoPoint = 0 /\ Never = MaxPoint + 1
  BY PrunerAssumption, RetentionAssumption DEF Point, NoPoint, Never

\* Timestamps grow along the chain.
LEMMA Timestamps ==
  /\ \A k \in Point : Timestamp[k] \in Nat
  /\ \A j, k \in Point : j <= k => Timestamp[j] <= Timestamp[k]
  BY PrunerAssumption

\* The transactions and their outputs.
LEMMA Ledger ==
  /\ \A t \in Tx : /\ BlockOf[t] \in Point /\ BlockOf[t] \in Nat
                   /\ BlockTime[t] = Timestamp[BlockOf[t]] /\ BlockTime[t] \in Nat
                   /\ AcceptedBy[t] \in Nat /\ AcceptedBy[t] <= Never
                   /\ AcceptedBy[t] # Never =>
                        /\ AcceptedBy[t] \in Point
                        /\ BlockOf[t] <= AcceptedBy[t]
                        /\ Timestamp[AcceptedBy[t]] <= BlockTime[t] + MergeDelay
                   /\ OutputsOf[t] \subseteq Outpoint
  /\ NoTx \notin Tx
  <1> SUFFICES ASSUME NEW t \in Tx
               PROVE  /\ BlockOf[t] \in Point /\ BlockOf[t] \in Nat
                      /\ BlockTime[t] = Timestamp[BlockOf[t]] /\ BlockTime[t] \in Nat
                      /\ AcceptedBy[t] \in Nat /\ AcceptedBy[t] <= Never
                      /\ AcceptedBy[t] # Never =>
                           /\ AcceptedBy[t] \in Point
                           /\ BlockOf[t] <= AcceptedBy[t]
                           /\ Timestamp[AcceptedBy[t]] <= BlockTime[t] + MergeDelay
                      /\ OutputsOf[t] \subseteq Outpoint
    BY PrunerAssumption
  <1>1. BlockOf[t] \in Point /\ BlockOf[t] \in Nat
    BY PrunerAssumption, Constants
  <1>2. AcceptedBy[t] \in 2..Never
    BY LedgerAssumption
  <1>3. OutputsOf[t] \subseteq Outpoint
    BY PrunerAssumption
  <1>4. AcceptedBy[t] \in Nat /\ AcceptedBy[t] <= Never
    BY <1>2, Constants
  <1>5. BlockTime[t] = Timestamp[BlockOf[t]] /\ BlockTime[t] \in Nat
    BY <1>1, Timestamps DEF BlockTime
  <1>6. ASSUME AcceptedBy[t] # Never
        PROVE  /\ AcceptedBy[t] \in Point
               /\ BlockOf[t] <= AcceptedBy[t]
               /\ Timestamp[AcceptedBy[t]] <= BlockTime[t] + MergeDelay
    <2>1. AcceptedBy[t] \in 1..MaxPoint
      BY <1>2, <1>6, Constants
    <2>2. BlockOf[t] <= AcceptedBy[t] /\ Timestamp[AcceptedBy[t]] <= BlockTime[t] + MergeDelay
      BY <1>6, LedgerAssumption
    <2> QED
      BY <2>1, <2>2 DEF Point
  <1> QED
    BY <1>1, <1>3, <1>4, <1>5, <1>6

\* The retention of an enabled step is a number, and rows that refer to a block
\* are not kept longer than the block.
LEMMA Ages ==
  /\ \A step \in PruneStep : Enabled(step) => Age(step) \in Nat
  /\ ~ExcludeBlockTimestamp /\ Enabled("blocks") =>
       /\ Enabled("block_parent") => Age("block_parent") <= Age("blocks")
       /\ Enabled("blocks_transactions") => Age("blocks_transactions") <= Age("blocks")
  <1>1. /\ Resolved["block_parent"] \in Retentions
        /\ Resolved["blocks_transactions"] \in Retentions
        /\ Resolved["blocks"] \in Retentions
        /\ Resolved["transactions_acceptances"] \in Retentions
        /\ Resolved["transactions"] \in Retentions
        /\ Resolved["addresses_transactions"] \in Retentions
    BY PrunerAssumption DEF Resolved, Resolve
  <1>2. \A step \in PruneStep : Resolved[step] \in Retentions
    BY <1>1 DEF PruneStep, Table
  <1>3. \A step \in PruneStep : Enabled(step) => Resolved[step] \in Nat
    BY <1>2 DEF Enabled, Retentions
  <1>4. \A m \in Nat, n \in Retentions : /\ Shorter(m, n) \in Nat
                                         /\ Shorter(m, n) <= m
                                         /\ n \in Nat => Shorter(m, n) <= n
    BY PrunerAssumption DEF Shorter, Retentions
  <1>5. ASSUME NEW step \in PruneStep, Enabled(step)
        PROVE  Age(step) \in Nat
    BY <1>1, <1>3, <1>4, <1>5 DEF Age
  <1>6. ASSUME ~ExcludeBlockTimestamp, Enabled("blocks"),
               NEW step \in {"block_parent", "blocks_transactions"}, Enabled(step)
        PROVE  Age(step) <= Age("blocks")
    <2>1. Resolved["blocks"] \in Nat /\ Resolved[step] \in Nat
      BY <1>3, <1>6 DEF PruneStep, Table
    <2>2. Age(step) = Shorter(Resolved[step], Resolved["blocks"]) /\ Age("blocks") = Resolved["blocks"]
      BY <1>6 DEF Age
    <2> QED
      BY <1>1, <1>4, <2>1, <2>2
  <1> QED
    BY <1>5, <1>6

\* A batch holds rows that match, and none only if none matches.
LEMMA BatchOf ==
  ASSUME NEW matching, IsFiniteSet(matching), NEW batch \in Batches(matching)
  PROVE  batch \subseteq matching /\ (batch = {} => matching = {})
  <1>1. batch \subseteq matching /\ Cardinality(batch) = Min({PruneBatchSize, Cardinality(matching)})
    BY DEF Batches
  <1>2. ASSUME batch = {} PROVE matching = {}
    <2>1. Cardinality(matching) \in Nat /\ Cardinality({}) = 0
      BY FS_CardinalityType, FS_EmptySet
    <2>2. Min({PruneBatchSize, Cardinality(matching)}) = 0
      BY <1>1, <1>2, <2>1
    <2>3. \E x \in {PruneBatchSize, Cardinality(matching)} :
            \A y \in {PruneBatchSize, Cardinality(matching)} : x <= y
      BY <2>1, Constants
    <2>4. Min({PruneBatchSize, Cardinality(matching)}) \in {PruneBatchSize, Cardinality(matching)}
      BY <2>3, Zenon DEF Min
    <2>5. Cardinality(matching) = 0
      BY <2>2, <2>4, Constants
    <2> QED
      BY <2>5, FS_EmptySet
  <1> QED
    BY <1>1, <1>2

\* Whatever is selected from a table of rows is finite.
LEMMA FiniteTables ==
  /\ IsFiniteSet(Point)
  /\ IsFiniteSet(Point \X Tx)
  <1>1. IsFiniteSet(1..MaxPoint)
    BY Constants, FS_Interval
  <1>2. IsFiniteSet(Tx)
    BY PrunerAssumption
  <1> QED
    BY <1>1, <1>2, FS_Product DEF Point
-----------------------------------------------------------------------------
\* The tables of rows are well typed.
RowsTyped ==
  /\ rows = [table \in Table |-> rows[table]]
  /\ \A table \in Table : rows[table] \subseteq Row[table]

\* The tables one by one.
LEMMA TableRows ==
  ASSUME RowsTyped
  PROVE  /\ rows["block_parent"] \subseteq Point
         /\ rows["blocks_transactions"] \subseteq Point \X Tx
         /\ rows["blocks"] \subseteq Point
         /\ rows["transactions_acceptances"] \subseteq (Tx \cup {NoTx}) \X Point
         /\ rows["addresses_transactions"] \subseteq Tx
  BY DEF RowsTyped, Table, Row

\* One table changes.
LEMMA OneTable ==
  ASSUME RowsTyped, NEW table \in Table, NEW S \in SUBSET Row[table],
         rows' = [rows EXCEPT ![table] = S]
  PROVE  /\ RowsTyped'
         /\ rows'[table] = S
         /\ \A other \in Table \ {table} : rows'[other] = rows[other]
  <1>1. /\ rows'[table] = S
        /\ \A other \in Table \ {table} : rows'[other] = rows[other]
        /\ rows' = [other \in Table |-> rows'[other]]
    BY DEF RowsTyped
  <1>2. \A other \in Table : rows'[other] \subseteq Row[other]
    BY <1>1 DEF RowsTyped
  <1> QED
    BY <1>1, <1>2 DEF RowsTyped

\* The rows a step may delete are finitely many.
LEMMA ExpiredRows ==
  ASSUME RowsTyped, NEW step \in Table
  PROVE  Expired(step) \subseteq rows[step] /\ IsFiniteSet(Expired(step))
  <1>1. Expired(step) \subseteq rows[step]
    BY DEF Expired, OldBlocks, Table
  <1>2. IsFiniteSet(rows[step])
    <2>1. IsFiniteSet(Tx \cup {NoTx}) /\ IsFiniteSet(Tx)
      BY PrunerAssumption, FS_AddElement
    <2>2. IsFiniteSet((Tx \cup {NoTx}) \X Point)
      BY <2>1, FiniteTables, FS_Product
    <2>3. Row[step] \in {Point, Point \X Tx, (Tx \cup {NoTx}) \X Point, Tx}
      BY DEF Row, Table
    <2>4. IsFiniteSet(Row[step])
      BY <2>1, <2>2, <2>3, FiniteTables
    <2> QED
      BY <2>4, FS_Subset DEF RowsTyped
  <1> QED
    BY <1>1, <1>2, FS_Subset
-----------------------------------------------------------------------------
\* What each of the steps that write to the tables does to them.
LEMMA BlockStored ==
  ASSUME TypeOK, TasksInOrder, StoreBlock
  PROVE  /\ RowsTyped'
         /\ stored + 1 \in Point
         /\ rows'["blocks"] = rows["blocks"] \cup {stored + 1}
         /\ rows'["transactions_acceptances"] \subseteq rows["transactions_acceptances"]
         /\ \A row \in rows["transactions_acceptances"] :
              row[2] <= followed => row \in rows'["transactions_acceptances"]
         /\ \A table \in {"block_parent", "blocks_transactions", "addresses_transactions"} :
              rows'[table] = rows[table]
  <1> DEFINE k == stored + 1
             S == rows["blocks"] \cup {k}
             T == IF k > followed THEN {row \in rows["transactions_acceptances"] : row[2] # k}
                  ELSE rows["transactions_acceptances"]
  <1>1. RowsTyped /\ stored \in Nat /\ followed \in Nat
    BY Constants DEF TypeOK, PrunerTypeOK, RowsTyped
  <1>2. k \in Point
    BY <1>1, Constants DEF StoreBlock, Found, Point
  <1>3. rows' = [rows EXCEPT !["blocks"] = S, !["transactions_acceptances"] = T]
    BY DEF StoreBlock
  <1>4. S \in SUBSET Row["blocks"] /\ T \in SUBSET Row["transactions_acceptances"]
    BY <1>1, <1>2, TableRows DEF Row
  <1>5. \A row \in rows["transactions_acceptances"] : row[2] <= followed => row \in T
    BY <1>1
  <1>6. T \subseteq rows["transactions_acceptances"]
    OBVIOUS
  <1> HIDE DEF S, T
  <1>7. /\ RowsTyped'
        /\ rows'["blocks"] = S /\ rows'["transactions_acceptances"] = T
        /\ \A other \in Table \ {"blocks", "transactions_acceptances"} : rows'[other] = rows[other]
    <2>1. /\ "blocks" \in Table /\ "transactions_acceptances" \in Table
          /\ "blocks" # "transactions_acceptances"
      BY DEF Table
    <2>2. /\ rows'["blocks"] = S
          /\ rows'["transactions_acceptances"] = T
          /\ \A other \in Table \ {"blocks", "transactions_acceptances"} :
               rows'[other] = rows[other]
          /\ rows' = [other \in Table |-> rows'[other]]
      BY <1>1, <1>3, <2>1 DEF RowsTyped
    <2>3. \A other \in Table : rows'[other] \subseteq Row[other]
      BY <1>1, <1>4, <2>2 DEF RowsTyped
    <2> QED
      BY <2>2, <2>3 DEF RowsTyped
  <1> QED
    BY <1>2, <1>5, <1>6, <1>7 DEF S, Table

LEMMA ParentsStored ==
  ASSUME TypeOK, TasksInOrder, StoreParents
  PROVE  /\ RowsTyped'
         /\ stored \in Point
         /\ rows'["block_parent"] = rows["block_parent"] \cup {stored}
         /\ \A table \in Table \ {"block_parent"} : rows'[table] = rows[table]
  <1>1. RowsTyped /\ stored \in Point \cup {NoPoint} /\ stored \in Nat /\ storedParents \in Nat
    BY Constants DEF TypeOK, PrunerTypeOK, RowsTyped
  <1>2. stored \in Point
    BY <1>1, Constants DEF StoreParents
  <1>3. rows["block_parent"] \cup {stored} \in SUBSET Row["block_parent"]
    BY <1>1, <1>2, TableRows DEF Row
  <1>4. rows' = [rows EXCEPT !["block_parent"] = rows["block_parent"] \cup {stored}]
    BY DEF StoreParents
  <1> QED
    BY <1>1, <1>2, <1>3, <1>4, OneTable DEF Table

LEMMA TransactionsStored ==
  ASSUME TypeOK, TasksInOrder, StoreTransactions
  PROVE  /\ RowsTyped'
         /\ storedTxs + 1 \in Point
         /\ rows'["blocks_transactions"] =
              rows["blocks_transactions"] \cup ({storedTxs + 1} \X TxsIn(storedTxs + 1))
         /\ \A table \in {"block_parent", "blocks", "transactions_acceptances"} :
              rows'[table] = rows[table]
         /\ transactions' = transactions \cup TxsIn(storedTxs + 1)
         /\ inputs' = inputs \cup TxsIn(storedTxs + 1)
         /\ outputs' = outputs \cup UNION {OutputsOf[t] : t \in TxsIn(storedTxs + 1)}
         /\ TxsIn(storedTxs + 1) \subseteq Tx
  <1> DEFINE k == storedTxs + 1
             S == rows["blocks_transactions"] \cup ({k} \X TxsIn(k))
             T == rows["addresses_transactions"] \cup TxsIn(k)
  <1>1. RowsTyped /\ storedTxs \in Nat
    BY Constants DEF TypeOK, PrunerTypeOK, RowsTyped
  <1>2. k \in Point
    BY <1>1, Constants DEF StoreTransactions, Found, Point
  <1>3. TxsIn(k) \subseteq Tx
    BY DEF TxsIn
  <1>4. rows' = [rows EXCEPT !["blocks_transactions"] = S, !["addresses_transactions"] = T]
    BY DEF StoreTransactions
  <1>5. S \in SUBSET Row["blocks_transactions"] /\ T \in SUBSET Row["addresses_transactions"]
    BY <1>1, <1>2, <1>3, TableRows DEF Row
  <1> HIDE DEF S, T
  <1>6. /\ RowsTyped'
        /\ rows'["blocks_transactions"] = S
        /\ \A other \in Table \ {"blocks_transactions", "addresses_transactions"} :
             rows'[other] = rows[other]
    <2>1. /\ "blocks_transactions" \in Table /\ "addresses_transactions" \in Table
          /\ "blocks_transactions" # "addresses_transactions"
      BY DEF Table
    <2>2. /\ rows'["blocks_transactions"] = S
          /\ rows'["addresses_transactions"] = T
          /\ \A other \in Table \ {"blocks_transactions", "addresses_transactions"} :
               rows'[other] = rows[other]
          /\ rows' = [other \in Table |-> rows'[other]]
      BY <1>1, <1>4, <2>1 DEF RowsTyped
    <2>3. \A other \in Table : rows'[other] \subseteq Row[other]
      BY <1>1, <1>5, <2>2 DEF RowsTyped
    <2> QED
      BY <2>2, <2>3 DEF RowsTyped
  <1>7. \A table \in {"block_parent", "blocks", "transactions_acceptances"} :
          rows'[table] = rows[table]
    BY <1>6 DEF Table
  <1>8. /\ transactions' = transactions \cup TxsIn(k) /\ inputs' = inputs \cup TxsIn(k)
        /\ outputs' = outputs \cup UNION {OutputsOf[t] : t \in TxsIn(k)}
    BY DEF StoreTransactions
  <1> QED
    BY <1>2, <1>3, <1>6, <1>7, <1>8 DEF S

LEMMA AcceptancesStored ==
  ASSUME TypeOK, TasksInOrder, Follow
  PROVE  /\ RowsTyped'
         /\ followed + 1 \in Point
         /\ rows'["transactions_acceptances"] =
              rows["transactions_acceptances"] \cup
                ((IF DisableTransactionAcceptance
                  THEN {NoTx} ELSE {t \in Tx : AcceptedBy[t] = followed + 1}) \X {followed + 1})
         /\ \A table \in Table \ {"transactions_acceptances"} : rows'[table] = rows[table]
  <1> DEFINE k == followed + 1
             accepted == IF DisableTransactionAcceptance
                         THEN {NoTx} ELSE {t \in Tx : AcceptedBy[t] = k}
             S == rows["transactions_acceptances"] \cup (accepted \X {k})
  <1>1. RowsTyped /\ followed \in Nat
    BY Constants DEF TypeOK, PrunerTypeOK, RowsTyped
  <1>2. k \in Point
    BY <1>1, Constants DEF Follow, Found, Point
  <1>3. rows' = [rows EXCEPT !["transactions_acceptances"] = S]
    BY DEF Follow
  <1>4. S \in SUBSET Row["transactions_acceptances"]
    BY <1>1, <1>2, TableRows DEF Row
  <1> HIDE DEF S
  <1>5. /\ RowsTyped' /\ rows'["transactions_acceptances"] = S
        /\ \A table \in Table \ {"transactions_acceptances"} : rows'[table] = rows[table]
    BY <1>1, <1>3, <1>4, OneTable DEF Table
  <1> QED
    BY <1>2, <1>5 DEF S

LEMMA RowsPruned ==
  ASSUME TypeOK, PruneRows
  PROVE  /\ RowsTyped'
         /\ ppc \in Table /\ inStep
         /\ UNCHANGED <<transactions, inputs, outputs, startTime>>
         /\ \A table \in Table \ {ppc} : rows'[table] = rows[table]
         /\ rows'[ppc] \subseteq rows[ppc]
         /\ \A row \in rows[ppc] : row \notin Expired(ppc) => row \in rows'[ppc]
         /\ \/ UNCHANGED <<ppc, inStep>>
            \/ /\ Expired(ppc) = {}
               /\ ppc' = Successor[ppc]
               /\ inStep' = FALSE
  <1>1. RowsTyped
    BY DEF TypeOK, PrunerTypeOK, RowsTyped
  <1>2. PICK batch \in Batches(Expired(ppc)) :
          /\ rows' = [rows EXCEPT ![ppc] = rows[ppc] \ batch]
          /\ AfterBatch(batch)
    BY DEF PruneRows
  <1>3. ppc \in Table /\ inStep /\ UNCHANGED <<transactions, inputs, outputs>>
    BY DEF PruneRows
  <1>4. batch \subseteq Expired(ppc) /\ (batch = {} => Expired(ppc) = {})
    BY <1>1, <1>2, <1>3, BatchOf, ExpiredRows
  <1>5. rows[ppc] \ batch \in SUBSET Row[ppc]
    BY <1>1, <1>3 DEF RowsTyped
  <1>6. /\ RowsTyped'
        /\ rows'[ppc] = rows[ppc] \ batch
        /\ \A table \in Table \ {ppc} : rows'[table] = rows[table]
    BY <1>1, <1>2, <1>3, <1>5, OneTable
  <1>7. /\ UNCHANGED startTime
        /\ \/ UNCHANGED <<ppc, inStep>>
           \/ batch = {} /\ ppc' = Successor[ppc] /\ inStep' = FALSE
    BY <1>2 DEF AfterBatch, NextStep
  <1> QED
    BY <1>3, <1>4, <1>6, <1>7

LEMMA TransactionsPruned ==
  ASSUME TypeOK, PruneTransactions
  PROVE  /\ ppc = "transactions" /\ inStep
         /\ UNCHANGED startTime
         /\ \/ UNCHANGED <<ppc, inStep>>
            \/ ppc' = Successor[ppc] /\ inStep' = FALSE
         /\ RowsTyped'
         /\ \A table \in Table \ {"transactions_acceptances"} : rows'[table] = rows[table]
         /\ \E expired \in SUBSET {t \in transactions : BlockTime[t] < Cutoff(ppc)} :
              LET spent == SpentBy(expired)
                  left == (outputs \ RejectedOutputs(expired)) \ spent
              IN  /\ transactions' = transactions \ expired
                  /\ inputs' = inputs \ expired
                  /\ outputs' = left
                  /\ rows'["transactions_acceptances"] =
                       {row \in rows["transactions_acceptances"] : row[1] \notin FullySpent(spent, left)}
  <1>1. RowsTyped
    BY DEF TypeOK, PrunerTypeOK, RowsTyped
  <1> DEFINE old == {t \in transactions : BlockTime[t] < Cutoff(ppc)}
  <1>2. PICK expired \in Batches(old) :
          LET spent == SpentBy(expired)
              left == (outputs \ RejectedOutputs(expired)) \ spent
          IN  /\ transactions' = transactions \ expired
              /\ inputs' = inputs \ expired
              /\ outputs' = left
              /\ rows' = [rows EXCEPT !["transactions_acceptances"] =
                            {row \in rows["transactions_acceptances"] :
                               row[1] \notin FullySpent(spent, left)}]
              /\ AfterBatch(expired)
    BY DEF PruneTransactions
  <1>3. expired \in SUBSET old
    BY <1>2 DEF Batches
  <1> DEFINE left == (outputs \ RejectedOutputs(expired)) \ SpentBy(expired)
             S == {row \in rows["transactions_acceptances"] :
                     row[1] \notin FullySpent(SpentBy(expired), left)}
  <1>4. /\ transactions' = transactions \ expired /\ inputs' = inputs \ expired
        /\ outputs' = left
        /\ rows' = [rows EXCEPT !["transactions_acceptances"] = S]
        /\ AfterBatch(expired)
    BY <1>2
  <1>5. S \in SUBSET Row["transactions_acceptances"]
    BY <1>1, TableRows DEF Row
  <1>6. /\ RowsTyped'
        /\ rows'["transactions_acceptances"] = S
        /\ \A table \in Table \ {"transactions_acceptances"} : rows'[table] = rows[table]
    <2> HIDE DEF S
    <2> QED
      BY <1>1, <1>4, <1>5, OneTable DEF Table
  <1>7. /\ UNCHANGED startTime
        /\ UNCHANGED <<ppc, inStep>> \/ (ppc' = Successor[ppc] /\ inStep' = FALSE)
    BY <1>4 DEF AfterBatch, NextStep
  <1>8. ppc = "transactions" /\ inStep
    BY DEF PruneTransactions
  <1>9. \E e \in SUBSET old :
          LET spent == SpentBy(e)
              left_ == (outputs \ RejectedOutputs(e)) \ spent
          IN  /\ transactions' = transactions \ e
              /\ inputs' = inputs \ e
              /\ outputs' = left_
              /\ rows'["transactions_acceptances"] =
                   {row \in rows["transactions_acceptances"] : row[1] \notin FullySpent(spent, left_)}
    BY <1>3, <1>4, <1>6
  <1> QED
    BY <1>6, <1>7, <1>8, <1>9
-----------------------------------------------------------------------------
\* The initial states.
LEMMA InitSound == Init => Sound
  <1> SUFFICES ASSUME Init PROVE Sound
    OBVIOUS
  <1> USE Constants
  <1>1. \A table \in Table : rows[table] = {}
    BY DEF Init
  <1>2. TypeOK
    BY <1>1, Timestamps DEF Init, PrunerInit, TypeOK, PrunerTypeOK
  <1>3. TasksInOrder /\ StepInOrder
    BY DEF Init, PrunerInit, TasksInOrder, StepInOrder
  <1>4. BlocksHeld /\ AcceptancesTrue
    BY <1>1 DEF Init, BlocksHeld, AcceptancesTrue, Table
  <1>5. RecentHeld /\ TxsHeld /\ OutputsHeld /\ AcceptancesHeld
    BY Ledger, LedgerAssumption DEF Init, RecentHeld, TxsHeld, OutputsHeld, AcceptancesHeld
  <1>6. NoOrphanRows /\ ReferrersPruned
    BY <1>1 DEF Init, PrunerInit, NoOrphanRows, ReferrersPruned, Table
  <1> QED
    BY <1>2, <1>3, <1>4, <1>5, <1>6 DEF Sound, RetentionSound, LedgerHeld, RowsInOrder
-----------------------------------------------------------------------------
\* The pruner goes from step to step.
LEMMA Successors ==
  \A step \in PruneStep : Successor[step] \in PruneStep \cup {"done"}
  BY DEF Successor, PruneStep, Table

\* A new candidate lies above the checkpoint.
LEMMA Later ==
  ASSUME NEW m \in Nat, NEW n \in Nat, NEW k \in Int, Max({m, n}) + 1 <= k
  PROVE  m < k
  <1>1. \E x \in {m, n} : \A y \in {m, n} : x >= y
    OBVIOUS
  <1>2. Max({m, n}) \in {m, n} /\ \A y \in {m, n} : Max({m, n}) >= y
    BY <1>1, Zenon DEF Max
  <1> QED
    BY <1>2

\* Types.
LEMMA TypeKept == TypeOK /\ TasksInOrder /\ [Next]_vars => TypeOK'
  <1> SUFFICES ASSUME TypeOK, TasksInOrder, [Next]_vars PROVE TypeOK'
    OBVIOUS
  <1> USE Constants
  <1>1. /\ RowsTyped /\ now \in Nat /\ {followed, saved} \subseteq Point
        /\ {stored, storedParents, storedTxs} \subseteq Point \cup {NoPoint}
        /\ metricsCheckpoint \in Point \cup {NoPoint} /\ startTime \in Nat
        /\ transactions \subseteq Tx /\ inputs \subseteq Tx /\ outputs \subseteq Outpoint
        /\ ppc \in PruneStep \cup {"done", "idle"} /\ inStep \in BOOLEAN
        /\ faults \in Nat /\ stepFailed \in BOOLEAN /\ shutdown \in BOOLEAN
        /\ lapses \subseteq Lapse
    BY DEF TypeOK, PrunerTypeOK, RowsTyped
  <1>2. ASSUME UNCHANGED rows PROVE RowsTyped'
    BY <1>1, <1>2 DEF RowsTyped
  <1>20. ASSUME RowsTyped', transactions' \subseteq Tx, inputs' \subseteq Tx, outputs' \subseteq Outpoint,
                UNCHANGED <<metricsCheckpoint, shutdown, pruneVars, now, followed, saved, faults,
                            stepFailed, lapses>>,
                {stored', storedParents', storedTxs'} \subseteq Point \cup {NoPoint}
         PROVE  TypeOK'
    BY <1>1, <1>20 DEF pruneVars, TypeOK, PrunerTypeOK, RowsTyped
  <1>3. CASE Tick
    <2>1. now' \in Nat
      BY <1>1, <1>3 DEF Tick
    <2> QED
      BY <1>1, <1>2, <1>3, <2>1 DEF Tick, pruned, pruneVars, TypeOK, PrunerTypeOK, RowsTyped
  <1>4. CASE StoreBlock
    <2>1. RowsTyped' /\ stored' \in Point
      BY <1>4, BlockStored DEF StoreBlock
    <2> QED
      BY <1>1, <1>4, <1>20, <2>1 DEF StoreBlock
  <1>5. CASE StoreParents
    BY <1>1, <1>5, ParentsStored DEF StoreParents, pruneVars, TypeOK, PrunerTypeOK, RowsTyped
  <1>6. CASE StoreTransactions
    <2>1. UNION {OutputsOf[t] : t \in TxsIn(storedTxs + 1)} \subseteq Outpoint
      BY <1>6, TransactionsStored, Ledger
    <2>2. /\ RowsTyped' /\ transactions' \subseteq Tx /\ inputs' \subseteq Tx
          /\ outputs' \subseteq Outpoint
      BY <1>1, <1>6, <2>1, TransactionsStored
    <2>3. storedTxs' \in Point
      BY <1>6, TransactionsStored DEF StoreTransactions
    <2> QED
      BY <1>1, <1>6, <1>20, <2>2, <2>3 DEF StoreTransactions
  <1>7. CASE Follow
    BY <1>1, <1>7, AcceptancesStored DEF Follow, pruneVars, TypeOK, PrunerTypeOK, RowsTyped
  <1>8. CASE SaveCheckpoint
    <2>1. PICK k \in Max({saved, metricsCheckpoint}) + 1 .. followed :
            /\ metricsCheckpoint' = k
            /\ \/ /\ saved' = k
                  /\ lapses' = lapses \cup {l \in {"early"} : k > storedTxs \/ k > storedParents}
                  /\ UNCHANGED faults
               \/ Fault /\ UNCHANGED <<saved, lapses>>
      BY <1>8 DEF SaveCheckpoint
    <2>2. saved < k /\ k \in Point
      BY <1>1, <2>1, Later DEF Point
    <2>3. saved' \in Point /\ metricsCheckpoint' \in Point /\ faults' \in Nat
      BY <1>1, <2>1, <2>2 DEF Fault
    <2>4. lapses' \subseteq Lapse
      BY <1>1, <2>1 DEF Lapse
    <2> QED
      BY <1>1, <1>2, <1>8, <2>3, <2>4
         DEF SaveCheckpoint, pruned, pruneVars, TypeOK, PrunerTypeOK, RowsTyped
  <1>9. CASE PruneStarts
    <2>1. "block_parent" \in PruneStep /\ lapses' \subseteq Lapse
      BY <1>1, <1>9 DEF PruneStep, Table, PruneStarts, Lapse
    <2> QED
      BY <1>1, <1>2, <1>9, <2>1
         DEF PruneStarts, StartPrune, TasksFrame, taskVars, TypeOK, PrunerTypeOK, RowsTyped
  <1>10. CASE PruneProceeds
    <2>1. /\ UNCHANGED <<metricsCheckpoint, shutdown, now, stored, storedParents, storedTxs,
                         followed, saved, faults, stepFailed>>
          /\ PruneWork /\ lapses' \subseteq Lapse
      BY <1>1, <1>10 DEF PruneProceeds, TasksFrame, taskVars, StepLapses, Lapse
    <2>2. ASSUME RowsTyped', transactions' \subseteq Tx, inputs' \subseteq Tx, outputs' \subseteq Outpoint,
                 ppc' \in PruneStep \cup {"done", "idle"}, inStep' \in BOOLEAN, UNCHANGED startTime
          PROVE  TypeOK'
      BY <1>1, <2>1, <2>2 DEF TypeOK, PrunerTypeOK, RowsTyped
    <2>3. CASE BeginStep
      BY <1>1, <1>2, <2>2, <2>3 DEF BeginStep
    <2>4. CASE SkipStep
      BY <1>1, <1>2, <2>2, <2>4, Successors DEF SkipStep, NextStep
    <2>5. CASE PruneRows
      BY <1>1, <2>2, <2>5, RowsPruned, Successors DEF PruneStep
    <2>6. CASE PruneTransactions
      BY <1>1, <2>2, <2>6, TransactionsPruned, Successors DEF PruneStep
    <2>7. CASE FinishPrune
      BY <1>1, <1>2, <2>2, <2>7 DEF FinishPrune
    <2>8. CASE ReturnOnShutdown
      BY <1>1, <1>2, <2>2, <2>8 DEF ReturnOnShutdown
    <2> QED
      BY <2>1, <2>3, <2>4, <2>5, <2>6, <2>7, <2>8 DEF PruneWork
  <1>11. CASE PruneStepFails
    <2>1. /\ RowsTyped' /\ ppc' \in PruneStep \cup {"done"} /\ inStep' = FALSE /\ stepFailed' = TRUE
          /\ UNCHANGED <<transactions, inputs, outputs, startTime, lapses>>
      BY <1>2, <1>11, Successors DEF PruneStepFails, FailStep, NextStep
    <2>2. UNCHANGED <<metricsCheckpoint, shutdown, now, stored, storedParents, storedTxs,
                      followed, saved>>
      BY <1>11 DEF PruneStepFails, TasksFrame, taskVars
    <2>3. faults' \in Nat
      BY <1>1, <1>11 DEF PruneStepFails, Fault
    <2> QED
      BY <1>1, <2>1, <2>2, <2>3 DEF TypeOK, PrunerTypeOK, RowsTyped
  <1>12. CASE Signal
    BY <1>1, <1>2, <1>12 DEF Signal, pruned, pruneVars, taskVars, TypeOK, PrunerTypeOK, RowsTyped
  <1>13. CASE Restart
    <2>1. Behind \in Point \cup {NoPoint}
      BY <1>1 DEF Behind, Point
    <2>2. /\ RowsTyped' /\ UNCHANGED <<transactions, inputs, outputs, now, saved, stepFailed, lapses>>
          /\ faults' \in Nat /\ shutdown' = FALSE /\ metricsCheckpoint' \in {saved, NoPoint}
          /\ ppc' = "idle" /\ inStep' = FALSE /\ startTime' = 0 /\ followed' = saved
          /\ stored' = Behind /\ storedParents' = Behind /\ storedTxs' = Behind
      BY <1>1, <1>2, <1>13 DEF Restart, Fault, pruned
    <2> QED
      BY <1>1, <2>1, <2>2 DEF TypeOK, PrunerTypeOK, RowsTyped
  <1>14. CASE Stopped \/ UNCHANGED vars
    BY <1>1, <1>2, <1>14 DEF Stopped, vars, pruned, pruneVars, taskVars, TypeOK, PrunerTypeOK, RowsTyped
  <1> QED
    BY <1>3, <1>4, <1>5, <1>6, <1>7, <1>8, <1>9, <1>10, <1>11, <1>12, <1>13, <1>14 DEF Next

\* What a step of the pruner leaves alone.
LEMMA PruneFrame ==
  ASSUME PruneProceeds \/ PruneStepFails
  PROVE  UNCHANGED <<metricsCheckpoint, shutdown, now, stored, storedParents, storedTxs,
                     followed, saved, startTime>>
  BY DEF PruneProceeds, PruneStepFails, TasksFrame, taskVars, PruneWork, BeginStep, SkipStep,
         PruneRows, PruneTransactions, AfterBatch, FinishPrune, ReturnOnShutdown, FailStep, NextStep

\* What was noted stays noted.
LEMMA LapsesGrow == [Next]_vars => lapses \subseteq lapses'
  <1> SUFFICES ASSUME [Next]_vars PROVE lapses \subseteq lapses'
    OBVIOUS
  <1>1. CASE SaveCheckpoint
    BY <1>1 DEF SaveCheckpoint
  <1>2. CASE PruneStarts \/ PruneProceeds \/ PruneStepFails
    BY <1>2 DEF PruneStarts, PruneProceeds, PruneStepFails
  <1>3. CASE Tick \/ StoreBlock \/ StoreParents \/ StoreTransactions \/ Follow \/ Signal \/ Restart
    BY <1>3 DEF Tick, StoreBlock, StoreParents, StoreTransactions, Follow, Signal, Restart
  <1>4. CASE Stopped \/ UNCHANGED vars
    BY <1>4 DEF Stopped, vars
  <1> QED
    BY <1>1, <1>2, <1>3, <1>4 DEF Next

\* A save, or the attempt.
LEMMA Saved ==
  ASSUME TypeOK, SaveCheckpoint
  PROVE  /\ UNCHANGED <<pruned, pruneVars, now, stored, storedParents, storedTxs, followed>>
         /\ \/ UNCHANGED <<saved, lapses>>
            \/ /\ saved < saved' /\ saved' <= followed
               /\ "early" \notin lapses' => saved' <= storedTxs /\ saved' <= storedParents
  <1>1. /\ saved \in Nat /\ metricsCheckpoint \in Nat /\ followed \in Nat
        /\ storedTxs \in Nat /\ storedParents \in Nat
    BY Constants DEF TypeOK, PrunerTypeOK
  <1>2. PICK k \in Max({saved, metricsCheckpoint}) + 1 .. followed :
          \/ /\ saved' = k
             /\ lapses' = lapses \cup {l \in {"early"} : k > storedTxs \/ k > storedParents}
          \/ UNCHANGED <<saved, lapses>>
    BY DEF SaveCheckpoint
  <1>3. k \in Int /\ saved < k /\ k <= followed
    BY <1>1, <1>2, Later
  <1>4. UNCHANGED <<pruned, pruneVars, now, stored, storedParents, storedTxs, followed>>
    BY DEF SaveCheckpoint
  <1>5. ASSUME saved' = k,
               lapses' = lapses \cup {l \in {"early"} : k > storedTxs \/ k > storedParents},
               "early" \notin lapses'
        PROVE  k <= storedTxs /\ k <= storedParents
    BY <1>1, <1>3, <1>5
  <1> QED
    BY <1>2, <1>3, <1>4, <1>5

\* How far the tasks are.
LEMMA TasksKept == TypeOK /\ TasksInOrder /\ [Next]_vars => TasksInOrder'
  <1> SUFFICES ASSUME TypeOK, TasksInOrder, [Next]_vars PROVE TasksInOrder'
    OBVIOUS
  <1>1. /\ followed \in Nat /\ saved \in Nat \ {0} /\ stored \in Nat
        /\ storedParents \in Nat /\ storedTxs \in Nat
    BY Constants DEF TypeOK
  <1>2. CASE Tick
    BY <1>1, <1>2 DEF Tick, TasksInOrder
  <1>3. CASE StoreBlock
    BY <1>1, <1>3 DEF StoreBlock, TasksInOrder
  <1>4. CASE StoreParents
    BY <1>1, <1>4 DEF StoreParents, TasksInOrder
  <1>5. CASE StoreTransactions
    BY <1>1, <1>5 DEF StoreTransactions, TasksInOrder
  <1>6. CASE Follow
    BY <1>1, <1>6 DEF Follow, TasksInOrder
  <1>7. CASE SaveCheckpoint
    <2>1. CASE UNCHANGED <<saved, lapses>>
      BY <1>7, <2>1, Saved DEF TasksInOrder
    <2>2. CASE ~UNCHANGED <<saved, lapses>>
      <3>1. /\ saved < saved' /\ saved' <= followed
            /\ stored' = stored /\ storedParents' = storedParents
            /\ storedTxs' = storedTxs /\ followed' = followed
            /\ "early" \notin lapses' => saved' <= storedTxs /\ saved' <= storedParents
        BY <1>7, <2>2, Saved
      <3>2. saved' \in Nat
        BY <1>7, TypeKept, Constants DEF TypeOK, Next
      <3>3. saved' <= followed' /\ storedParents' <= stored'
        BY <3>1 DEF TasksInOrder
      <3>4. "early" \notin lapses' => saved' - 1 <= storedParents' /\ saved' - 1 <= storedTxs'
        <4> SUFFICES ASSUME "early" \notin lapses'
                     PROVE  saved' - 1 <= storedParents' /\ saved' - 1 <= storedTxs'
          OBVIOUS
        <4>1. saved' <= storedTxs' /\ saved' <= storedParents'
          BY <3>1
        <4>2. storedTxs' \in Nat /\ storedParents' \in Nat
          BY <1>1, <3>1
        <4>3. \A m, n \in Nat : m <= n => m - 1 <= n
          OBVIOUS
        <4> QED
          BY <3>2, <4>1, <4>2, <4>3
      <3> QED
        BY <3>3, <3>4 DEF TasksInOrder
    <2> QED
      BY <2>1, <2>2
  <1>8. CASE PruneStarts
    BY <1>1, <1>8, LapsesGrow DEF PruneStarts, TasksFrame, taskVars, TasksInOrder
  <1>9. CASE PruneProceeds \/ PruneStepFails
    BY <1>1, <1>9, PruneFrame, LapsesGrow DEF TasksInOrder
  <1>10. CASE Signal
    BY <1>1, <1>10 DEF Signal, taskVars, TasksInOrder
  <1>11. CASE Restart
    BY <1>1, <1>11, Constants DEF Restart, Behind, TasksInOrder
  <1>12. CASE Stopped \/ UNCHANGED vars
    BY <1>1, <1>12 DEF Stopped, vars, taskVars, TasksInOrder
  <1> QED
    BY <1>2, <1>3, <1>4, <1>5, <1>6, <1>7, <1>8, <1>9, <1>10, <1>11, <1>12 DEF Next

\* The cutoff of an enabled step is a number.
LEMMA Cutoffs ==
  ASSUME TypeOK
  PROVE  /\ \A step \in PruneStep : Enabled(step) => Cutoff(step) \in Int
         /\ Enabled("blocks") => Cutoff("blocks") \in Int
  <1>1. startTime \in Nat
    BY DEF TypeOK, PrunerTypeOK
  <1>2. \A step \in PruneStep : Enabled(step) => Age(step) \in Nat
    BY Ages
  <1> QED
    BY <1>1, <1>2 DEF Cutoff, PruneStep, Table

\* The saved checkpoint does not go back.
LEMMA SavedGrows ==
  ASSUME TypeOK, TypeOK', [Next]_vars
  PROVE  /\ saved <= saved'
         /\ Timestamp[saved] \in Nat /\ Timestamp[saved]' \in Nat
         /\ Timestamp[saved] <= Timestamp[saved]'
  <1>1. saved \in Point /\ saved' \in Point /\ saved \in Nat
    BY Constants DEF TypeOK
  <1>2. saved <= saved'
    <2>1. CASE SaveCheckpoint
      BY <1>1, <2>1, Saved
    <2>2. CASE ~SaveCheckpoint
      <3>1. saved' = saved
        BY <2>2 DEF Next, Tick, StoreBlock, StoreParents, StoreTransactions, Follow, PruneStarts,
           PruneProceeds, PruneStepFails, TasksFrame, taskVars, Signal, Restart, Stopped, vars
      <3> QED
        BY <1>1, <3>1
    <2> QED
      BY <2>1, <2>2
  <1> QED
    BY <1>1, <1>2, Timestamps

\* The step the pruner is in.
LEMMA StepKept == TypeOK /\ TypeOK' /\ StepInOrder /\ [Next]_vars => StepInOrder'
  <1> SUFFICES ASSUME TypeOK, TypeOK', StepInOrder, [Next]_vars
               PROVE  StepInOrder'
    OBVIOUS
  <1> DEFINE T == Timestamp[saved]
  <1>1. /\ T \in Nat /\ T' \in Nat /\ T <= T' /\ lapses \subseteq lapses'
        /\ \A step \in PruneStep : Enabled(step) => Cutoff(step) \in Int
        /\ Enabled("blocks") => Cutoff("blocks") \in Int
    BY Cutoffs, SavedGrows, LapsesGrow
  <1>2. "transactions" \in PruneStep /\ MergeDelay \in Nat
    BY Constants DEF PruneStep
  <1>3. ASSUME UNCHANGED startTime
        PROVE  \A step \in PruneStep : Cutoff(step)' = Cutoff(step)
    BY <1>3 DEF Cutoff
  <1> HIDE DEF T
  \* A run goes on.
  <1>4. ASSUME UNCHANGED startTime, ppc # "idle", Enabled("blocks"), "behind" \notin lapses'
        PROVE  Cutoff("blocks")' <= T'
    <2>1. Cutoff("blocks")' = Cutoff("blocks")
      BY <1>3, <1>4 DEF PruneStep, Table
    <2>2. Cutoff("blocks") <= T
      BY <1>1, <1>4 DEF StepInOrder, T
    <2> QED
      BY <1>1, <1>4, <2>1, <2>2
  \* So does a step.
  <1>5. ASSUME UNCHANGED <<startTime, ppc, inStep>>
        PROVE  StepInOrder'
    <2>1. ASSUME inStep, ppc = "transactions"
          PROVE  /\ Enabled("transactions") /\ Cutoff("transactions") \in Int
                 /\ Cutoff("transactions")' = Cutoff("transactions")
                 /\ "unsaved" \notin lapses => Cutoff("transactions") < T
                 /\ "narrow" \notin lapses => Cutoff("transactions") + MergeDelay <= T
      BY <1>1, <1>2, <1>3, <1>5, <2>1 DEF StepInOrder, T
    <2>2. ASSUME inStep, ppc = "transactions"
          PROVE  /\ "unsaved" \notin lapses' => Cutoff("transactions")' < T'
                 /\ "narrow" \notin lapses' => Cutoff("transactions")' + MergeDelay <= T'
      BY <1>1, <1>2, <2>1, <2>2
    <2>3. inStep => ppc \in PruneStep /\ Enabled(ppc)
      BY DEF StepInOrder
    <2>4. ppc # "idle" /\ Enabled("blocks") /\ "behind" \notin lapses' => Cutoff("blocks")' <= T'
      BY <1>4, <1>5
    <2> QED
      BY <1>5, <2>2, <2>3, <2>4 DEF StepInOrder, T
  <1>6. ASSUME UNCHANGED startTime, ppc # "idle", ~inStep'
        PROVE  StepInOrder'
    BY <1>4, <1>6 DEF StepInOrder, T
  <1>7. CASE BeginStep /\ PruneProceeds
    <2>1. /\ ppc \in PruneStep /\ Enabled(ppc) /\ ~inStep /\ inStep' /\ UNCHANGED <<ppc, startTime>>
          /\ ppc = "transactions" => PruningPointIsPassed
          /\ lapses' = lapses \cup StepLapses /\ UNCHANGED saved
      BY <1>7, PruneFrame DEF BeginStep, PruneProceeds
    <2>2. ppc # "idle"
      BY <2>1 DEF PruneStep, Table
    <2>3. T' = T /\ Cutoff("transactions")' = Cutoff("transactions")
      BY <1>2, <1>3, <2>1 DEF T
    <2>4. ASSUME ppc = "transactions"
          PROVE  /\ "unsaved" \notin lapses' => Cutoff("transactions") < T
                 /\ "narrow" \notin lapses' => Cutoff("transactions") + MergeDelay <= T
      <3>1. Cutoff("transactions") \in Int
        BY <1>1, <1>2, <2>1, <2>4
      <3>2. metricsCheckpoint # NoPoint /\ Timestamp[metricsCheckpoint] > Cutoff("transactions")
        BY <2>1, <2>4 DEF PruningPointIsPassed
      <3>3. "unsaved" \notin lapses' => metricsCheckpoint = saved
        BY <2>1, <2>4, <3>2 DEF StepLapses
      <3>4. "narrow" \notin lapses' => ~(T < Cutoff("transactions") + MergeDelay)
        BY <2>1, <2>4 DEF StepLapses, T
      <3>5. "unsaved" \notin lapses' => T > Cutoff("transactions")
        BY <3>2, <3>3 DEF T
      <3> QED
        BY <1>1, <1>2, <3>1, <3>4, <3>5
    <2> QED
      BY <1>4, <2>1, <2>2, <2>3, <2>4 DEF StepInOrder, T
  <1>8. CASE Tick \/ StoreBlock \/ StoreParents \/ StoreTransactions \/ Follow \/ SaveCheckpoint
             \/ Signal \/ Stopped \/ UNCHANGED vars
    <2>1. UNCHANGED pruneVars
      BY <1>8 DEF Tick, StoreBlock, StoreParents, StoreTransactions, Follow, SaveCheckpoint, Signal,
         Stopped, vars
    <2> QED
      BY <1>5, <2>1 DEF pruneVars
  <1>9. CASE PruneStarts
    <2>1. ~inStep /\ ~inStep' /\ startTime' = now /\ UNCHANGED saved
          /\ lapses' = lapses \cup
               {l \in {"behind"} : Enabled("blocks") /\ Timestamp[saved] < now - Age("blocks")}
      BY <1>9 DEF PruneStarts, StartPrune, StepInOrder, PruneStep, Table, TasksFrame, taskVars
    <2>2. Enabled("blocks") => Age("blocks") \in Nat /\ now \in Nat
      BY Ages DEF PruneStep, Table, TypeOK
    <2>3. Cutoff("blocks")' = now - Age("blocks") /\ T' = T
      BY <2>1 DEF Cutoff, T
    <2>4. Enabled("blocks") /\ "behind" \notin lapses' => Cutoff("blocks")' <= T'
      BY <1>1, <2>1, <2>2, <2>3 DEF T
    <2> QED
      BY <2>1, <2>4 DEF StepInOrder, T
  <1>10. CASE PruneProceeds
    <2>1. UNCHANGED startTime /\ PruneWork
      BY <1>10, PruneFrame DEF PruneProceeds
    <2>2. ppc # "idle"
      BY <2>1 DEF PruneWork, BeginStep, SkipStep, PruneRows, PruneTransactions, FinishPrune,
         ReturnOnShutdown, PruneStep, Table
    <2>3. CASE SkipStep
      BY <1>6, <2>1, <2>2, <2>3 DEF SkipStep, NextStep
    <2>4. CASE PruneRows
      BY <1>5, <1>6, <2>1, <2>2, <2>4, RowsPruned
    <2>5. CASE PruneTransactions
      BY <1>5, <1>6, <2>1, <2>2, <2>5, TransactionsPruned
    <2>6. CASE FinishPrune
      <3>1. ~inStep'
        BY <2>6 DEF FinishPrune, StepInOrder, PruneStep, Table
      <3> QED
        BY <1>6, <2>1, <2>2, <3>1
    <2>7. CASE ReturnOnShutdown
      BY <1>6, <2>1, <2>2, <2>7 DEF ReturnOnShutdown
    <2> QED
      BY <1>7, <1>10, <2>1, <2>3, <2>4, <2>5, <2>6, <2>7 DEF PruneWork
  <1>11. CASE PruneStepFails
    <2>1. ppc # "idle" /\ ~inStep' /\ UNCHANGED startTime
      BY <1>11 DEF PruneStepFails, FailStep, NextStep, PruneStep, Table
    <2> QED
      BY <1>6, <2>1
  <1>12. CASE Restart
    BY <1>12 DEF Restart, StepInOrder
  <1> QED
    BY <1>8, <1>9, <1>10, <1>11, <1>12 DEF Next
-----------------------------------------------------------------------------
\* What is held, without the rows that only refer to blocks.
Held == BlocksHeld /\ RecentHeld /\ AcceptancesTrue /\ LedgerHeld

\* When the ledger matters.
Settling == ~DisableTransactionAcceptance /\ lapses \cap {"narrow", "early"} = {}

\* The numbers of the tasks.
LEMMA Counts ==
  ASSUME TypeOK
  PROVE  /\ now \in Nat /\ stored \in Nat /\ storedParents \in Nat /\ storedTxs \in Nat
         /\ followed \in Nat /\ saved \in Nat \ {0} /\ saved <= MaxPoint
         /\ saved \in Point /\ RowsTyped
  BY Constants DEF TypeOK, PrunerTypeOK, RowsTyped

\* What is spent stays spent.
LEMMA SpentLater ==
  ASSUME NEW j \in Nat, NEW k \in Nat, j <= k, NEW o
  PROVE  SpentAt(j, o) => SpentAt(k, o)
  BY Ledger DEF SpentAt

\* As the checkpoint advances, or the tasks begin again, less has to be held.
LEMMA HeldLonger ==
  ASSUME TypeOK, TypeOK', Held, UNCHANGED pruned, lapses \subseteq lapses',
         saved <= saved', followed' <= followed,
         stored' <= stored \/ stored' < saved',
         storedTxs' <= storedTxs \/ storedTxs' < saved',
         "early" \notin lapses' =>
           storedTxs' <= storedTxs /\ (UNCHANGED saved \/ saved' <= storedTxs)
  PROVE  Held'
  <1> USE Ledger
  <1>1. /\ saved \in Nat /\ saved' \in Nat /\ stored \in Nat /\ stored' \in Nat
        /\ storedTxs \in Nat /\ storedTxs' \in Nat /\ followed \in Nat /\ followed' \in Nat
    BY Constants DEF TypeOK
  <1>2. UNCHANGED <<rows, transactions, inputs, outputs>>
    BY DEF pruned
  <1>3. BlocksHeld'
    BY <1>1, <1>2 DEF Held, BlocksHeld
  <1>4. RecentHeld'
    BY <1>1, <1>2 DEF Held, RecentHeld
  <1>5. AcceptancesTrue'
    BY <1>2 DEF Held, AcceptancesTrue
  <1>6. ASSUME NEW o, SpentAt(saved, o) PROVE SpentAt(saved', o)
    BY <1>1, <1>6, SpentLater
  <1>7. ASSUME Settling' PROVE TxsHeld' /\ AcceptancesHeld' /\ OutputsHeld'
    <2>1. /\ TxsHeld /\ AcceptancesHeld /\ OutputsHeld
          /\ storedTxs' <= storedTxs /\ (UNCHANGED saved \/ saved' <= storedTxs)
      BY <1>7 DEF Held, LedgerHeld, Settling
    <2>2. TxsHeld'
      BY <1>1, <1>2, <2>1 DEF TxsHeld
    <2>3. AcceptancesHeld'
      BY <1>1, <1>2, <1>6, <2>1 DEF AcceptancesHeld
    <2>4. \A t \in Tx : /\ (BlockOf[t] <= storedTxs \/ AcceptedBy[t] <= saved)'
                         /\ AcceptedBy[t] # Never
                         => BlockOf[t] <= storedTxs \/ AcceptedBy[t] <= saved
      BY <1>1, <2>1
    <2>5. OutputsHeld'
      BY <1>1, <1>2, <1>6, <2>1, <2>4 DEF OutputsHeld
    <2> QED
      BY <2>2, <2>3, <2>5
  <1> QED
    BY <1>3, <1>4, <1>5, <1>7 DEF Held, LedgerHeld, Settling

\* The block processor adds a block and clears no acceptance below start_hash.
LEMMA StoreBlockHeld == TypeOK /\ TasksInOrder /\ Held /\ StoreBlock => Held'
  <1> SUFFICES ASSUME TypeOK, TasksInOrder, Held, StoreBlock PROVE Held'
    OBVIOUS
  <1>1. /\ UNCHANGED <<transactions, inputs, outputs, storedTxs, followed, saved, lapses>>
        /\ stored' = stored + 1
    BY DEF StoreBlock
  <1>2. BlocksHeld'
    BY <1>1, BlockStored, Counts DEF Held, BlocksHeld
  <1>3. RecentHeld' /\ (TxsHeld => TxsHeld') /\ (OutputsHeld => OutputsHeld')
    BY <1>1 DEF Held, RecentHeld, TxsHeld, OutputsHeld
  <1>4. AcceptancesTrue'
    BY BlockStored DEF Held, AcceptancesTrue
  <1>5. AcceptancesHeld => AcceptancesHeld'
    BY <1>1, BlockStored DEF AcceptancesHeld
  <1> QED
    BY <1>1, <1>2, <1>3, <1>4, <1>5 DEF Held, LedgerHeld

\* The transaction processor adds the rows of a block.
LEMMA StoreTransactionsHeld == TypeOK /\ TasksInOrder /\ Held /\ StoreTransactions => Held'
  <1> SUFFICES ASSUME TypeOK, TasksInOrder, Held, StoreTransactions PROVE Held'
    OBVIOUS
  <1>1. UNCHANGED <<stored, followed, saved, lapses>> /\ storedTxs' = storedTxs + 1
    BY DEF StoreTransactions
  <1>2. \A t \in Tx : BlockOf[t] <= storedTxs' => BlockOf[t] <= storedTxs \/ t \in TxsIn(storedTxs + 1)
    BY <1>1, Ledger, Counts DEF TxsIn
  <1>3. BlocksHeld' /\ AcceptancesTrue'
    BY <1>1, TransactionsStored DEF Held, BlocksHeld, AcceptancesTrue
  <1>4. TxsHeld => TxsHeld'
    BY <1>1, <1>2, TransactionsStored DEF TxsHeld
  <1>5. AcceptancesHeld => AcceptancesHeld'
    BY <1>1, TransactionsStored DEF AcceptancesHeld
  <1>6. OutputsHeld => OutputsHeld'
    BY <1>1, <1>2, TransactionsStored DEF OutputsHeld
  <1>7. RecentHeld'
    <2> SUFFICES ASSUME "unsaved" \notin lapses, NEW t \in Tx, BlockOf[t] \in saved .. storedTxs + 1
                 PROVE  t \in transactions' \cap inputs' /\ OutputsOf[t] \subseteq outputs'
      BY <1>1 DEF RecentHeld
    <2>1. BlockOf[t] \in saved .. storedTxs \/ t \in TxsIn(storedTxs + 1)
      BY Ledger, Counts DEF TxsIn
    <2>2. CASE BlockOf[t] \in saved .. storedTxs
      <3>1. t \in transactions \cap inputs /\ OutputsOf[t] \subseteq outputs
        BY <2>2 DEF Held, RecentHeld
      <3> QED
        BY <3>1, TransactionsStored
    <2>3. CASE t \in TxsIn(storedTxs + 1)
      BY <2>3, TransactionsStored
    <2> QED
      BY <2>1, <2>2, <2>3
  <1> QED
    BY <1>1, <1>3, <1>4, <1>5, <1>6, <1>7 DEF Held, LedgerHeld

\* The virtual chain processor adds the acceptances of a block.
LEMMA FollowHeld == TypeOK /\ TasksInOrder /\ Held /\ Follow => Held'
  <1> SUFFICES ASSUME TypeOK, TasksInOrder, Held, Follow PROVE Held'
    OBVIOUS
  <1> DEFINE k == followed + 1
             accepted == IF DisableTransactionAcceptance
                         THEN {NoTx} ELSE {t \in Tx : AcceptedBy[t] = k}
  <1>1. /\ UNCHANGED <<transactions, inputs, outputs, stored, storedTxs, saved, lapses>>
        /\ followed' = k
    BY DEF Follow
  <1>2. /\ rows'["transactions_acceptances"] = rows["transactions_acceptances"] \cup (accepted \X {k})
        /\ rows'["blocks"] = rows["blocks"]
    BY AcceptancesStored DEF Table
  <1>3. \A t \in accepted : t = NoTx \/ (t \in Tx /\ AcceptedBy[t] = k)
    OBVIOUS
  <1>4. ~DisableTransactionAcceptance => \A t \in Tx : AcceptedBy[t] = k => t \in accepted
    OBVIOUS
  <1> HIDE DEF accepted
  <1>5. BlocksHeld' /\ RecentHeld' /\ (TxsHeld => TxsHeld') /\ (OutputsHeld => OutputsHeld')
    BY <1>1, <1>2 DEF Held, BlocksHeld, RecentHeld, TxsHeld, OutputsHeld
  <1>6. AcceptancesTrue'
    BY <1>2, <1>3, Ledger DEF Held, AcceptancesTrue
  <1>7. ASSUME ~DisableTransactionAcceptance, AcceptancesHeld PROVE AcceptancesHeld'
    <2> SUFFICES ASSUME NEW t \in Tx, AcceptedBy[t] <= followed'
                 PROVE  \/ <<t, AcceptedBy[t]>> \in rows'["transactions_acceptances"]
                        \/ \A o \in OutputsOf[t] : SpentAt(saved, o)
      BY <1>1 DEF AcceptancesHeld
    <2>1. AcceptedBy[t] <= followed \/ AcceptedBy[t] = k
      BY <1>1, Ledger, Counts
    <2>2. CASE AcceptedBy[t] <= followed
      BY <1>2, <1>7, <2>2 DEF AcceptancesHeld
    <2>3. CASE AcceptedBy[t] = k
      BY <1>2, <1>4, <1>7, <2>3
    <2> QED
      BY <2>1, <2>2, <2>3
  <1> QED
    BY <1>1, <1>5, <1>6, <1>7 DEF Held, LedgerHeld

\* The steps that go by age delete no block the checkpoint has not passed and
\* no acceptance of a transaction.
LEMMA PruneRowsHeld ==
  TypeOK /\ TasksInOrder /\ StepInOrder /\ Held /\ PruneRows /\ PruneProceeds => Held'
  <1> SUFFICES ASSUME TypeOK, TasksInOrder, StepInOrder, Held, PruneRows, PruneProceeds PROVE Held'
    OBVIOUS
  <1>1. /\ UNCHANGED <<transactions, inputs, outputs, stored, storedTxs, followed, saved>>
        /\ lapses \subseteq lapses'
    BY RowsPruned, PruneFrame DEF PruneProceeds
  <1>2. ppc \in Table /\ Enabled(ppc)
    BY RowsPruned DEF StepInOrder
  <1>3. \A table \in Table : rows'[table] \subseteq rows[table]
    BY RowsPruned
  <1>4. BlocksHeld'
    <2>1. CASE ppc = "blocks" /\ "behind" \notin lapses'
      <3>1. Cutoff("blocks") <= Timestamp[saved] /\ Cutoff("blocks") \in Int
        BY <1>1, <1>2, <2>1, Cutoffs DEF StepInOrder
      <3>2. ASSUME NEW k \in saved .. stored
            PROVE  k \in rows["blocks"] /\ k \notin Expired("blocks")
        <4>1. k \in rows["blocks"]
          BY <1>1, <2>1 DEF Held, BlocksHeld
        <4>2. k \in Point /\ saved \in Point /\ saved <= k
          BY <4>1, Counts, TableRows
        <4>3. /\ Timestamp[saved] <= Timestamp[k]
              /\ Timestamp[saved] \in Nat /\ Timestamp[k] \in Nat
          BY <4>2, Timestamps
        <4>4. ~(Timestamp[k] < Cutoff("blocks"))
          BY <3>1, <4>3
        <4> QED
          BY <4>1, <4>4 DEF Expired, OldBlocks
      <3> QED
        BY <1>1, <2>1, <3>2, RowsPruned DEF BlocksHeld
    <2>2. CASE ppc # "blocks"
      BY <1>1, <2>2, RowsPruned DEF Held, BlocksHeld, Table
    <2>3. CASE "behind" \in lapses'
      BY <2>3 DEF BlocksHeld
    <2> QED
      BY <2>1, <2>2, <2>3
  <1>5. RecentHeld' /\ (TxsHeld => TxsHeld') /\ (OutputsHeld => OutputsHeld')
    BY <1>1 DEF Held, RecentHeld, TxsHeld, OutputsHeld
  <1>6. AcceptancesTrue'
    BY <1>3 DEF Held, AcceptancesTrue, Table
  <1>7. ~DisableTransactionAcceptance =>
          rows'["transactions_acceptances"] = rows["transactions_acceptances"]
    BY <1>2, RowsPruned DEF Enabled, Table
  <1>8. ~DisableTransactionAcceptance /\ AcceptancesHeld => AcceptancesHeld'
    BY <1>1, <1>7 DEF AcceptancesHeld
  <1> QED
    BY <1>1, <1>4, <1>5, <1>6, <1>8 DEF Held, LedgerHeld

\* Transactions the checkpoint has settled take with them outputs that are
\* spent, and acceptances of transactions that are spent altogether.
LEMMA PruneTransactionsHeld ==
  TypeOK /\ TasksInOrder /\ StepInOrder /\ Held /\ PruneTransactions /\ PruneProceeds => Held'
  <1> SUFFICES ASSUME TypeOK, TasksInOrder, StepInOrder, Held, PruneTransactions, PruneProceeds
               PROVE  Held'
    OBVIOUS
  <1>1. UNCHANGED <<stored, storedTxs, followed, saved>> /\ lapses \subseteq lapses'
    BY PruneFrame DEF PruneProceeds
  <1>2. /\ ppc = "transactions" /\ Cutoff("transactions") \in Int /\ Timestamp[saved] \in Nat
        /\ "unsaved" \notin lapses => Cutoff("transactions") < Timestamp[saved]
        /\ "narrow" \notin lapses => Cutoff("transactions") + MergeDelay <= Timestamp[saved]
    <2>1. ppc = "transactions" /\ inStep
      BY TransactionsPruned
    <2>2. Cutoff("transactions") \in Int
      BY <2>1, Cutoffs DEF StepInOrder, PruneStep
    <2>3. Timestamp[saved] \in Nat
      BY Counts, Timestamps
    <2> QED
      BY <2>1, <2>2, <2>3 DEF StepInOrder
  <1>3. PICK expired \in SUBSET {t \in transactions : BlockTime[t] < Cutoff(ppc)} :
          LET spent == SpentBy(expired)
              left == (outputs \ RejectedOutputs(expired)) \ spent
          IN  /\ transactions' = transactions \ expired
              /\ inputs' = inputs \ expired
              /\ outputs' = left
              /\ rows'["transactions_acceptances"] =
                   {row \in rows["transactions_acceptances"] : row[1] \notin FullySpent(spent, left)}
    BY TransactionsPruned
  <1> DEFINE spent == SpentBy(expired)
             left == (outputs \ RejectedOutputs(expired)) \ spent
  <1>4. /\ transactions' = transactions \ expired
        /\ inputs' = inputs \ expired
        /\ outputs' = left
        /\ rows'["transactions_acceptances"] =
             {row \in rows["transactions_acceptances"] : row[1] \notin FullySpent(spent, left)}
        /\ rows'["blocks"] = rows["blocks"]
    BY <1>3, TransactionsPruned DEF Table
  <1>5. /\ transactions \subseteq Tx /\ RowsTyped /\ saved \in Nat /\ saved \in Point
        /\ storedTxs \in Nat /\ followed \in Nat /\ saved <= followed /\ saved < Never
    BY Counts, Constants DEF TypeOK, PrunerTypeOK, TasksInOrder
  <1>6. \A t \in expired : t \in Tx /\ BlockTime[t] < Cutoff("transactions")
    BY <1>2, <1>5
  \* What is pruned is older than the checkpoint ...
  <1>61. ASSUME "unsaved" \notin lapses', NEW t \in expired PROVE BlockOf[t] < saved
    <2>1. Cutoff("transactions") < Timestamp[saved]
      BY <1>1, <1>2, <1>61
    <2>2. BlockTime[t] \in Nat /\ BlockTime[t] = Timestamp[BlockOf[t]] /\ BlockOf[t] \in Point
          /\ BlockTime[t] < Cutoff("transactions")
      BY <1>6, Ledger
    <2>3. ~(Timestamp[saved] <= Timestamp[BlockOf[t]])
      BY <1>2, <2>1, <2>2
    <2>4. ~(saved <= BlockOf[t])
      BY <1>5, <2>2, <2>3, Timestamps
    <2>5. BlockOf[t] \in Nat
      BY <2>2, Constants
    <2> QED
      BY <1>5, <2>4, <2>5
  \* ... and has been settled by it.
  <1>62. ASSUME "narrow" \notin lapses', NEW t \in expired, AcceptedBy[t] # Never
         PROVE  AcceptedBy[t] <= saved
    <2>1. Cutoff("transactions") + MergeDelay <= Timestamp[saved] /\ MergeDelay \in Nat
      BY <1>1, <1>2, <1>62, Constants
    <2>2. /\ BlockTime[t] \in Nat /\ BlockTime[t] < Cutoff("transactions")
          /\ AcceptedBy[t] \in Point /\ Timestamp[AcceptedBy[t]] <= BlockTime[t] + MergeDelay
      BY <1>6, <1>62, Ledger
    <2>3. Timestamp[AcceptedBy[t]] \in Nat
      BY <2>2, Timestamps
    <2>4. ~(Timestamp[saved] <= Timestamp[AcceptedBy[t]])
      BY <1>2, <2>1, <2>2, <2>3
    <2>5. ~(saved <= AcceptedBy[t])
      BY <1>5, <2>2, <2>4, Timestamps
    <2>6. AcceptedBy[t] \in Nat
      BY <2>2, Constants
    <2> QED
      BY <1>5, <2>5, <2>6
  <1>7. BlocksHeld'
    BY <1>1, <1>4 DEF Held, BlocksHeld
  <1>8. RecentHeld'
    <2> SUFFICES ASSUME "unsaved" \notin lapses', NEW t \in Tx, BlockOf[t] \in saved .. storedTxs
                 PROVE  t \in transactions' \cap inputs' /\ OutputsOf[t] \subseteq outputs'
      BY <1>1 DEF RecentHeld
    <2>1. t \in transactions \cap inputs /\ OutputsOf[t] \subseteq outputs
      BY <1>1 DEF Held, RecentHeld
    <2>2. t \notin expired
      BY <1>5, <1>61, Ledger
    <2>3. ASSUME NEW o \in OutputsOf[t], o \in spent PROVE FALSE
      <3>1. PICK u \in expired : o \in SpendsOf[u]
        BY <2>3 DEF SpentBy
      <3>2. BlockOf[t] <= BlockOf[u] /\ u \in Tx
        BY <1>6, <2>3, <3>1, LedgerAssumption
      <3> QED
        BY <1>5, <1>61, <3>1, <3>2, Ledger
    <2>4. ASSUME NEW o \in OutputsOf[t], o \in RejectedOutputs(expired) PROVE FALSE
      <3>1. PICK u \in expired : o \in OutputsOf[u]
        BY <2>4 DEF RejectedOutputs
      <3> QED
        BY <1>6, <2>2, <2>4, <3>1, PrunerAssumption
    <2> QED
      BY <1>4, <2>1, <2>2, <2>3, <2>4
  <1>9. AcceptancesTrue'
    BY <1>4 DEF Held, AcceptancesTrue
  <1>10. ASSUME Settling' PROVE TxsHeld' /\ AcceptancesHeld' /\ OutputsHeld'
    <2>1. /\ TxsHeld /\ AcceptancesHeld /\ OutputsHeld
          /\ "narrow" \notin lapses'
      BY <1>1, <1>10 DEF Held, LedgerHeld, Settling
    <2>11. \A t \in expired : AcceptedBy[t] # Never => AcceptedBy[t] <= saved
      BY <1>62, <2>1
    <2>12. TxsHeld'
      <3> SUFFICES ASSUME NEW t \in Tx, BlockOf[t] <= storedTxs, saved < AcceptedBy[t],
                          AcceptedBy[t] # Never
                   PROVE  t \in transactions' \cap inputs'
        BY <1>1 DEF TxsHeld
      <3>1. t \in transactions \cap inputs
        BY <2>1 DEF TxsHeld
      <3>2. t \notin expired
        BY <1>5, <2>11, Ledger
      <3> QED
        BY <1>4, <3>1, <3>2
    <2>2. ASSUME NEW t \in Tx, t \in Accepted PROVE AcceptedBy[t] # Never
      <3>1. PICK row \in rows["transactions_acceptances"] : row[1] = t
        BY <2>2 DEF Accepted
      <3>2. row[2] \in Point /\ row = <<t, row[2]>>
        BY <1>5, <3>1, TableRows
      <3>3. AcceptedBy[t] = row[2]
        BY <3>1, <3>2 DEF Held, AcceptancesTrue
      <3> QED
        BY <3>2, <3>3, Constants
    \* An output this deletes was spent.
    <2>3. \A o \in spent : SpentAt(saved, o)
      BY <1>6, <2>2, <2>11 DEF SpentBy, SpentAt
    <2>4. ASSUME NEW t \in Tx, NEW o \in OutputsOf[t], o \in outputs, AcceptedBy[t] # Never,
                 ~SpentAt(saved, o)
          PROVE  o \in left
      <3>1. o \notin spent
        BY <2>3, <2>4
      <3>2. o \notin RejectedOutputs(expired)
        <4> SUFFICES ASSUME NEW r \in expired \ Accepted, o \in OutputsOf[r] PROVE FALSE
          BY DEF RejectedOutputs
        <4>1. r = t
          BY <1>6, PrunerAssumption
        <4>2. AcceptedBy[t] <= followed
          BY <1>5, <2>4, <2>11, <4>1, Ledger
        <4>3. <<t, AcceptedBy[t]>> \in rows["transactions_acceptances"]
          BY <2>1, <2>4, <4>2 DEF AcceptancesHeld
        <4>4. t \in Accepted
          BY <4>3, Ledger DEF Accepted
        <4> QED
          BY <4>1, <4>4
      <3> QED
        BY <2>4, <3>1, <3>2
    <2>5. OutputsHeld'
      BY <1>1, <1>4, <2>1, <2>4 DEF OutputsHeld
    <2>6. AcceptancesHeld'
      <3> SUFFICES ASSUME NEW t \in Tx, AcceptedBy[t] <= followed,
                          <<t, AcceptedBy[t]>> \notin rows'["transactions_acceptances"],
                          NEW o \in OutputsOf[t], ~SpentAt(saved, o)
                   PROVE  FALSE
        BY <1>1 DEF AcceptancesHeld
      <3>1. <<t, AcceptedBy[t]>> \in rows["transactions_acceptances"]
        BY <2>1 DEF AcceptancesHeld
      <3>2. t \in FullySpent(spent, left)
        BY <1>4, <3>1
      <3>3. AcceptedBy[t] # Never
        BY <1>5, <3>1, TableRows, Constants
      <3>4. BlockOf[t] <= storedTxs \/ AcceptedBy[t] <= saved
        <4>1. PICK u \in expired \cap Accepted : OutputsOf[t] \cap SpendsOf[u] # {}
          BY <3>2 DEF FullySpent, SpentBy
        <4>2. u \in Tx /\ AcceptedBy[u] # Never /\ AcceptedBy[u] <= saved
          BY <1>6, <2>2, <2>11, <4>1
        <4>3. AcceptedBy[t] <= AcceptedBy[u]
          BY <4>1, <4>2, LedgerAssumption
        <4> QED
          BY <1>5, <4>2, <4>3, Ledger
      <3>5. o \in left
        BY <2>1, <2>4, <3>3, <3>4 DEF OutputsHeld
      <3> QED
        BY <3>2, <3>5 DEF FullySpent
    <2> QED
      BY <2>5, <2>6, <2>12
  <1> QED
    BY <1>7, <1>8, <1>9, <1>10 DEF Held, LedgerHeld, Settling
-----------------------------------------------------------------------------
\* NoOrphanRows while no step failed.
Referred ==
  /\ rows["block_parent"] \subseteq rows["blocks"]
  /\ \A row \in rows["blocks_transactions"] : row[1] <= stored => row[1] \in rows["blocks"]

\* Steps that write no row that refers to a block.
LEMMA RowsLonger ==
  ASSUME TypeOK, TypeOK', Referred, ReferrersPruned, stored' <= stored,
         \A table \in {"block_parent", "blocks_transactions", "blocks"} : rows'[table] = rows[table],
         \/ UNCHANGED <<ppc, startTime>>
         \/ ppc' \notin {"blocks_transactions", "blocks"}
         \/ ExcludeBlockTimestamp \/ ~Enabled("blocks")
  PROVE  Referred' /\ ReferrersPruned'
  <1>1. /\ stored \in Nat /\ stored' \in Nat
        /\ \A row \in rows["blocks_transactions"] : row[1] \in Nat
    BY Counts, TableRows, Constants DEF TypeOK
  <1>2. Referred'
    BY <1>1 DEF Referred
  <1>3. UNCHANGED startTime => Cutoff("blocks")' = Cutoff("blocks")
    BY DEF Cutoff
  <1>4. ReferrersPruned'
    BY <1>1, <1>3 DEF ReferrersPruned
  <1> QED
    BY <1>2, <1>4

\* The rows the tasks write refer to blocks that are stored and not too old.
LEMMA RowsWritten ==
  ASSUME TypeOK, TasksInOrder, StepInOrder, BlocksHeld, Referred, ReferrersPruned,
         lapses \cap {"behind", "early"} = {},
         StoreBlock \/ StoreParents \/ StoreTransactions \/ Follow
  PROVE  Referred' /\ ReferrersPruned'
  <1>1. /\ saved \in Nat /\ stored \in Nat /\ storedParents \in Nat /\ storedTxs \in Nat
        /\ saved - 1 <= storedParents /\ storedParents <= stored /\ saved - 1 <= storedTxs
        /\ \A row \in rows["blocks_transactions"] : row[1] \in Nat /\ row[1] \in Point
        /\ \A k \in rows["block_parent"] : k \in Nat
    BY Counts, TableRows, Constants DEF TasksInOrder
  <1>2. UNCHANGED <<ppc, startTime>> /\ Cutoff("blocks")' = Cutoff("blocks")
    BY DEF StoreBlock, StoreParents, StoreTransactions, Follow, pruneVars, Cutoff
  \* A block above the checkpoint is not too old.
  <1>3. ASSUME Enabled("blocks"), ppc # "idle", NEW k \in Point, saved <= k
        PROVE  Timestamp[k] >= Cutoff("blocks")
    <2>1. Cutoff("blocks") \in Int /\ Cutoff("blocks") <= Timestamp[saved]
      BY <1>3, Cutoffs DEF StepInOrder
    <2>2. /\ Timestamp[saved] \in Nat /\ Timestamp[k] \in Nat
          /\ Timestamp[saved] <= Timestamp[k]
      BY <1>3, Counts, Timestamps
    <2> QED
      BY <2>1, <2>2
  <1>4. CASE StoreBlock
    <2>1. stored' = stored + 1
      BY <1>4 DEF StoreBlock
    <2>2. \A k \in Nat : k <= stored' => k <= stored \/ k = stored + 1
      BY <1>1, <2>1
    <2>3. Referred'
      BY <1>1, <1>4, <2>2, BlockStored DEF Referred
    <2>4. stored + 1 \in Point /\ saved <= stored + 1
      BY <1>1, <1>4, BlockStored
    <2>5. ReferrersPruned'
      BY <1>1, <1>2, <1>3, <1>4, <2>2, <2>4, BlockStored DEF ReferrersPruned
    <2> QED
      BY <2>3, <2>5
  <1>5. CASE StoreParents
    <2>1. storedParents < stored /\ UNCHANGED stored
      BY <1>5 DEF StoreParents
    <2>2. stored \in rows["blocks"] /\ saved <= stored /\ stored \in Point
      BY <1>1, <1>5, <2>1, ParentsStored DEF BlocksHeld
    <2>3. /\ rows'["block_parent"] = rows["block_parent"] \cup {stored}
          /\ rows'["blocks"] = rows["blocks"]
          /\ rows'["blocks_transactions"] = rows["blocks_transactions"]
      BY <1>5, ParentsStored DEF Table
    <2>4. Referred'
      BY <2>1, <2>2, <2>3 DEF Referred
    <2>5. ReferrersPruned'
      BY <1>1, <1>2, <1>3, <2>1, <2>2, <2>3 DEF ReferrersPruned
    <2> QED
      BY <2>4, <2>5
  <1>6. CASE StoreTransactions
    <2>1. UNCHANGED stored
      BY <1>6 DEF StoreTransactions
    <2>2. /\ rows'["block_parent"] = rows["block_parent"] /\ rows'["blocks"] = rows["blocks"]
          /\ \A row \in rows'["blocks_transactions"] :
               row \in rows["blocks_transactions"] \/ row[1] = storedTxs + 1
      BY <1>6, TransactionsStored
    <2>3. storedTxs + 1 <= stored => storedTxs + 1 \in rows["blocks"]
      BY <1>1 DEF BlocksHeld
    <2>4. Referred'
      BY <2>1, <2>2, <2>3 DEF Referred
    <2>5. saved <= storedTxs + 1 /\ storedTxs + 1 \in Point
      BY <1>1, <1>6, TransactionsStored
    <2>6. ReferrersPruned'
      BY <1>1, <1>2, <1>3, <2>1, <2>2, <2>5 DEF ReferrersPruned
    <2> QED
      BY <2>4, <2>6
  <1>7. CASE Follow
    <2>1. UNCHANGED stored
      BY <1>7 DEF Follow
    <2>2. /\ rows'["block_parent"] = rows["block_parent"] /\ rows'["blocks"] = rows["blocks"]
          /\ rows'["blocks_transactions"] = rows["blocks_transactions"]
      BY <1>7, AcceptancesStored DEF Table
    <2> QED
      BY <1>2, <2>1, <2>2 DEF Referred, ReferrersPruned
  <1> QED
    BY <1>4, <1>5, <1>6, <1>7

\* Each step that goes by age leaves to the next what that one relies on.
LEMMA RowsPrunedInOrder ==
  ASSUME TypeOK, TasksInOrder, StepInOrder, Referred, ReferrersPruned, PrunedTogether,
         PruneRows, PruneProceeds
  PROVE  Referred' /\ ReferrersPruned'
  <1>1. /\ RowsTyped
        /\ \A row \in rows["blocks_transactions"] : row[1] \in Point /\ Timestamp[row[1]] \in Nat
        /\ \A k \in rows["block_parent"] : k \in Point /\ Timestamp[k] \in Nat
    BY Counts, TableRows, Timestamps
  <1>2. UNCHANGED <<stored, startTime>> /\ Cutoff("blocks")' = Cutoff("blocks")
    BY RowsPruned, PruneFrame DEF Cutoff
  <1>3. ppc \in Table /\ Enabled(ppc)
    BY RowsPruned DEF StepInOrder
  <1>4. \A table \in Table : rows'[table] \subseteq rows[table]
    BY RowsPruned
  <1>5. ~ExcludeBlockTimestamp /\ Enabled("blocks") =>
          /\ Enabled("block_parent") /\ Enabled("blocks_transactions")
          /\ Cutoff("blocks") \in Int
          /\ Cutoff("block_parent") \in Int /\ Cutoff("blocks") <= Cutoff("block_parent")
          /\ Cutoff("blocks_transactions") \in Int
          /\ Cutoff("blocks") <= Cutoff("blocks_transactions")
    <2> SUFFICES ASSUME ~ExcludeBlockTimestamp, Enabled("blocks")
                 PROVE  /\ Enabled("block_parent") /\ Enabled("blocks_transactions")
                        /\ Cutoff("blocks") \in Int
                        /\ Cutoff("block_parent") \in Int
                        /\ Cutoff("blocks") <= Cutoff("block_parent")
                        /\ Cutoff("blocks_transactions") \in Int
                        /\ Cutoff("blocks") <= Cutoff("blocks_transactions")
      OBVIOUS
    <2>1. Enabled("block_parent") /\ Enabled("blocks_transactions")
      BY DEF PrunedTogether
    <2>2. /\ Age("blocks") \in Nat /\ Age("block_parent") \in Nat
          /\ Age("blocks_transactions") \in Nat
          /\ Age("block_parent") <= Age("blocks") /\ Age("blocks_transactions") <= Age("blocks")
      BY <2>1, Ages DEF PruneStep, Table
    <2>3. startTime \in Nat
      BY DEF TypeOK, PrunerTypeOK
    <2> QED
      BY <2>1, <2>2, <2>3 DEF Cutoff
  <1>6. Referred'
    <2>1. CASE ppc = "blocks"
      <3>1. /\ rows'["block_parent"] = rows["block_parent"]
            /\ rows'["blocks_transactions"] = rows["blocks_transactions"]
            /\ \A k \in rows["blocks"] : k \notin Expired("blocks") => k \in rows'["blocks"]
        BY <2>1, RowsPruned DEF Table
      <3>2. CASE ExcludeBlockTimestamp
        <4>1. \A k \in rows["blocks"] : k \in rows'["blocks"]
          BY <3>1, <3>2 DEF Expired, OldBlocks
        <4> QED
          BY <1>2, <3>1, <4>1 DEF Referred
      <3>3. CASE ~ExcludeBlockTimestamp
        <4>1. \A k \in Point : Timestamp[k] >= Cutoff("blocks") => k \notin Expired("blocks")
          BY <1>3, <1>5, <2>1, <3>3, Timestamps DEF Expired, OldBlocks
        <4>2. /\ \A k \in rows["block_parent"] : Timestamp[k] >= Cutoff("blocks")
              /\ \A row \in rows["blocks_transactions"] : row[1] <= stored => Timestamp[row[1]] >= Cutoff("blocks")
          BY <1>3, <2>1, <3>3 DEF ReferrersPruned
        <4> QED
          BY <1>1, <1>2, <3>1, <4>1, <4>2 DEF Referred
      <3> QED
        BY <3>2, <3>3
    <2>2. CASE ppc # "blocks"
      <3>1. rows'["blocks"] = rows["blocks"]
        BY <2>2, RowsPruned DEF Table
      <3> QED
        BY <1>2, <1>4, <3>1 DEF Referred, Table
    <2> QED
      BY <2>1, <2>2
  <1>7. ReferrersPruned'
    <2> SUFFICES ASSUME ~ExcludeBlockTimestamp, Enabled("blocks")
                 PROVE  /\ ppc' \in {"blocks_transactions", "blocks"} =>
                             \A k \in rows'["block_parent"] : Timestamp[k] >= Cutoff("blocks")
                        /\ ppc' = "blocks" =>
                             \A row \in rows'["blocks_transactions"] :
                               row[1] <= stored => Timestamp[row[1]] >= Cutoff("blocks")
      BY <1>2 DEF ReferrersPruned
    <2>1. CASE UNCHANGED ppc
      BY <1>4, <2>1 DEF ReferrersPruned, Table
    <2>2. CASE Expired(ppc) = {} /\ ppc' = Successor[ppc]
      <3>1. ppc' = "blocks_transactions" => ppc = "block_parent"
        BY <1>3, <2>2 DEF Successor, Table
      <3>2. ppc' = "blocks" => ppc = "blocks_transactions"
        BY <1>3, <2>2 DEF Successor, Table
      <3>3. ppc = "block_parent" => \A k \in rows["block_parent"] : Timestamp[k] >= Cutoff("blocks")
        <4> SUFFICES ASSUME ppc = "block_parent", NEW k \in rows["block_parent"]
                     PROVE  Timestamp[k] >= Cutoff("blocks")
          OBVIOUS
        <4>1. k \in rows["blocks"] /\ Timestamp[k] \in Nat
          BY <1>1 DEF Referred
        <4>2. ~(Timestamp[k] < Cutoff("block_parent"))
          BY <2>2, <4>1 DEF Expired, OldBlocks
        <4> QED
          BY <1>5, <4>1, <4>2
      <3>4. ppc = "blocks_transactions" =>
              \A row \in rows["blocks_transactions"] : row[1] <= stored => Timestamp[row[1]] >= Cutoff("blocks")
        <4> SUFFICES ASSUME ppc = "blocks_transactions", NEW row \in rows["blocks_transactions"],
                            row[1] <= stored
                     PROVE  Timestamp[row[1]] >= Cutoff("blocks")
          OBVIOUS
        <4>1. row[1] \in rows["blocks"] /\ Timestamp[row[1]] \in Nat
          BY <1>1 DEF Referred
        <4>2. ~(Timestamp[row[1]] < Cutoff("blocks_transactions"))
          BY <2>2, <4>1 DEF Expired, OldBlocks
        <4> QED
          BY <1>5, <4>1, <4>2
      <3>5. ppc = "blocks_transactions" => \A k \in rows["block_parent"] : Timestamp[k] >= Cutoff("blocks")
        BY DEF ReferrersPruned
      <3> QED
        BY <1>4, <3>1, <3>2, <3>3, <3>4, <3>5 DEF Table
    <2> QED
      BY <2>1, <2>2, RowsPruned
  <1> QED
    BY <1>6, <1>7

\* Every step keeps the rows in order.
LEMMA RowsKept == Sound /\ TypeOK' /\ TasksInOrder' /\ [Next]_vars => RowsInOrder'
  <1> SUFFICES ASSUME Sound, TypeOK', TasksInOrder', [Next]_vars, ~stepFailed', PrunedTogether,
                      lapses' \cap {"behind", "early"} = {}
               PROVE  NoOrphanRows' /\ ReferrersPruned'
    BY DEF RowsInOrder, PrunedTogether
  <1>1. TypeOK /\ TasksInOrder /\ StepInOrder /\ BlocksHeld /\ stored \in Nat /\ stored' \in Nat
    <2>1. TypeOK /\ TasksInOrder /\ StepInOrder /\ BlocksHeld
      BY DEF Sound, RetentionSound
    <2>2. TypeOK => stored \in Nat
      BY Constants DEF TypeOK
    <2>3. TypeOK' => stored' \in Nat
      BY Constants DEF TypeOK
    <2> QED
      BY <2>1, <2>2, <2>3
  <1>2. ~stepFailed
    <2>1. CASE PruneStepFails
      BY <2>1 DEF PruneStepFails
    <2>2. CASE Tick \/ StoreBlock \/ StoreParents \/ StoreTransactions \/ Follow
               \/ SaveCheckpoint \/ PruneStarts \/ PruneProceeds \/ Signal \/ Restart
      BY <2>2 DEF Tick, StoreBlock, StoreParents, StoreTransactions, Follow, SaveCheckpoint,
         PruneStarts, PruneProceeds, Signal, Restart
    <2>3. CASE Stopped \/ UNCHANGED vars
      BY <2>3 DEF Stopped, vars
    <2> QED
      BY <2>1, <2>2, <2>3 DEF Next
  <1>20. lapses \cap {"behind", "early"} = {}
    BY LapsesGrow
  <1>3. Referred /\ ReferrersPruned
    BY <1>2, <1>20 DEF Sound, RetentionSound, RowsInOrder, NoOrphanRows, Referred
  <1> SUFFICES Referred' /\ ReferrersPruned'
    BY DEF Referred, NoOrphanRows
  <1>4. ASSUME UNCHANGED rows, stored' <= stored,
               \/ UNCHANGED <<ppc, startTime>>
               \/ ppc' \notin {"blocks_transactions", "blocks"}
               \/ ExcludeBlockTimestamp \/ ~Enabled("blocks")
        PROVE  Referred' /\ ReferrersPruned'
    BY <1>1, <1>3, <1>4, RowsLonger
  <1>5. CASE Tick \/ SaveCheckpoint \/ Signal \/ Stopped \/ UNCHANGED vars
    <2>1. UNCHANGED <<rows, stored, ppc, startTime>>
      BY <1>5 DEF Tick, SaveCheckpoint, Signal, Stopped, vars, pruned, pruneVars, taskVars
    <2> QED
      BY <1>1, <1>4, <2>1
  <1>6. CASE StoreBlock \/ StoreParents \/ StoreTransactions \/ Follow
    BY <1>1, <1>3, <1>6, <1>20, RowsWritten
  <1>7. CASE PruneStarts
    BY <1>1, <1>4, <1>7 DEF PruneStarts, StartPrune, TasksFrame, taskVars
  <1>8. CASE PruneProceeds
    <2>1. UNCHANGED <<stored, startTime>> /\ stored' <= stored /\ PruneWork
      BY <1>1, <1>8, PruneFrame DEF PruneProceeds
    <2>2. CASE BeginStep \/ FinishPrune \/ ReturnOnShutdown
      BY <1>4, <2>1, <2>2 DEF BeginStep, FinishPrune, ReturnOnShutdown
    <2>3. CASE SkipStep
      <3>1. /\ UNCHANGED rows /\ ppc \in PruneStep /\ ppc' = Successor[ppc]
            /\ ~Enabled(ppc) \/ ppc = "transactions"
        BY <2>3 DEF SkipStep, NextStep
      <3>2. ppc' \in {"blocks_transactions", "blocks"} =>
              ppc \in {"block_parent", "blocks_transactions"}
        BY <3>1 DEF Successor, PruneStep, Table
      <3>3. ppc' \in {"blocks_transactions", "blocks"} =>
              ExcludeBlockTimestamp \/ ~Enabled("blocks")
        BY <3>1, <3>2 DEF PrunedTogether
      <3> QED
        BY <1>4, <2>1, <3>1, <3>3
    <2>4. CASE PruneRows
      BY <1>1, <1>3, <1>8, <2>4, RowsPrunedInOrder
    <2>5. CASE PruneTransactions
      <3>1. ppc = "transactions" /\ (ppc' = ppc \/ ppc' = Successor[ppc])
        BY <1>1, <2>5, TransactionsPruned
      <3>2. ppc' \notin {"blocks_transactions", "blocks"}
        BY <3>1 DEF Successor
      <3>3. \A table \in {"block_parent", "blocks_transactions", "blocks"} : rows'[table] = rows[table]
        BY <1>1, <2>5, TransactionsPruned DEF Table
      <3> QED
        BY <1>1, <1>3, <2>1, <3>2, <3>3, RowsLonger
    <2> QED
      BY <2>1, <2>2, <2>3, <2>4, <2>5 DEF PruneWork
  <1>9. CASE PruneStepFails
    BY <1>9 DEF PruneStepFails
  <1>10. CASE Restart
    <2>1. UNCHANGED rows /\ ppc' = "idle" /\ stored' = saved - 1
      BY <1>10 DEF Restart, pruned, Behind
    <2>2. saved \in Nat /\ storedParents \in Nat /\ stored \in Nat
      BY <1>1, Counts
    <2>3. saved - 1 <= storedParents /\ storedParents <= stored
      BY <1>1, <1>20 DEF TasksInOrder
    <2>4. stored' <= stored
      BY <2>1, <2>2, <2>3
    <2> QED
      BY <1>4, <2>1, <2>4
  <1> QED
    BY <1>5, <1>6, <1>7, <1>8, <1>9, <1>10 DEF Next
-----------------------------------------------------------------------------
\* Every step keeps what is held.
LEMMA HeldKept == Sound /\ TypeOK' /\ TasksInOrder' /\ [Next]_vars => Held'
  <1> SUFFICES ASSUME Sound, TypeOK', TasksInOrder', [Next]_vars PROVE Held'
    OBVIOUS
  <1>1. TypeOK /\ TasksInOrder /\ StepInOrder /\ Held
    BY DEF Sound, RetentionSound, Held
  <1>2. saved \in Nat /\ stored \in Nat /\ storedTxs \in Nat /\ followed \in Nat
    BY <1>1, Counts
  <1>21. lapses \subseteq lapses'
    BY LapsesGrow
  <1>3. ASSUME UNCHANGED <<pruned, stored, storedTxs, followed, saved>> PROVE Held'
    <2>1. saved <= saved' /\ followed' <= followed /\ storedTxs' <= storedTxs /\ stored' <= stored
      BY <1>2, <1>3
    <2> QED
      BY <1>1, <1>3, <1>21, <2>1, HeldLonger
  <1>4. CASE Tick
    BY <1>3, <1>4 DEF Tick
  <1>5. CASE StoreParents
    <2>1. /\ UNCHANGED <<transactions, inputs, outputs, stored, storedTxs, followed, saved, lapses>>
          /\ rows'["blocks"] = rows["blocks"]
          /\ rows'["transactions_acceptances"] = rows["transactions_acceptances"]
      BY <1>1, <1>5, ParentsStored DEF StoreParents, Table
    <2>2. BlocksHeld' /\ RecentHeld' /\ AcceptancesTrue'
      BY <1>1, <2>1 DEF Held, BlocksHeld, RecentHeld, AcceptancesTrue
    <2>3. /\ TxsHeld => TxsHeld'
          /\ AcceptancesHeld => AcceptancesHeld'
          /\ OutputsHeld => OutputsHeld'
      BY <2>1 DEF TxsHeld, AcceptancesHeld, OutputsHeld
    <2> QED
      BY <1>1, <2>1, <2>2, <2>3 DEF Held, LedgerHeld
  <1>6. CASE SaveCheckpoint
    <2>1. UNCHANGED <<pruned, stored, storedTxs, followed>>
      BY <1>1, <1>6, Saved
    <2>2. CASE UNCHANGED saved
      BY <1>3, <2>1, <2>2
    <2>3. CASE ~UNCHANGED saved
      <3>1. saved < saved' /\ ("early" \notin lapses' => saved' <= storedTxs)
        BY <1>1, <1>6, <2>3, Saved
      <3>2. saved' \in Nat
        BY Constants DEF TypeOK
      <3>3. /\ saved <= saved' /\ followed' <= followed /\ storedTxs' <= storedTxs
            /\ stored' <= stored
        BY <1>2, <2>1, <3>1, <3>2
      <3> QED
        BY <1>1, <1>21, <2>1, <3>1, <3>3, HeldLonger
    <2> QED
      BY <2>2, <2>3
  <1>7. CASE PruneStarts
    BY <1>3, <1>7 DEF PruneStarts, StartPrune, TasksFrame, taskVars, pruned
  <1>8. CASE PruneProceeds
    <2>1. UNCHANGED <<stored, storedTxs, followed, saved>> /\ PruneWork
      BY <1>8, PruneFrame DEF PruneProceeds
    <2>2. CASE BeginStep \/ SkipStep \/ FinishPrune \/ ReturnOnShutdown
      BY <1>3, <2>1, <2>2 DEF BeginStep, SkipStep, FinishPrune, ReturnOnShutdown, pruned
    <2>3. CASE PruneRows
      BY <1>1, <1>8, <2>3, PruneRowsHeld
    <2>4. CASE PruneTransactions
      BY <1>1, <1>8, <2>4, PruneTransactionsHeld
    <2> QED
      BY <2>1, <2>2, <2>3, <2>4 DEF PruneWork
  <1>9. CASE PruneStepFails
    BY <1>3, <1>9, PruneFrame DEF PruneStepFails, FailStep, pruned
  <1>10. CASE Signal \/ Stopped \/ UNCHANGED vars
    BY <1>3, <1>10 DEF Signal, Stopped, vars, taskVars
  <1>11. CASE Restart
    <2>1. /\ UNCHANGED <<pruned, saved>>
          /\ stored' = saved - 1 /\ storedTxs' = saved - 1 /\ followed' = saved
      BY <1>11 DEF Restart, Behind
    <2>2. saved <= followed /\ ("early" \notin lapses => saved - 1 <= storedTxs)
      BY <1>1 DEF TasksInOrder
    <2>3. /\ saved <= saved' /\ followed' <= followed
          /\ stored' < saved' /\ storedTxs' < saved'
          /\ "early" \notin lapses' => storedTxs' <= storedTxs
      BY <1>2, <1>21, <2>1, <2>2
    <2> QED
      BY <1>1, <1>21, <2>1, <2>3, HeldLonger
  <1> QED
    BY <1>1, <1>4, <1>5, <1>6, <1>7, <1>8, <1>9, <1>10, <1>11, StoreBlockHeld,
       StoreTransactionsHeld, FollowHeld DEF Next

\* The invariant is inductive.
LEMMA NextSound == Sound /\ [Next]_vars => Sound'
  <1> SUFFICES ASSUME Sound, [Next]_vars PROVE Sound'
    OBVIOUS
  <1>1. TypeOK /\ TasksInOrder /\ StepInOrder
    BY DEF Sound, RetentionSound
  <1>2. TypeOK' /\ TasksInOrder'
    BY <1>1, TypeKept, TasksKept
  <1>3. StepInOrder'
    BY <1>1, <1>2, StepKept
  <1>4. Held' /\ RowsInOrder'
    BY <1>2, HeldKept, RowsKept
  <1> QED
    BY <1>2, <1>3, <1>4 DEF Sound, RetentionSound, Held

\* The inductive invariant (RetentionInvariant.tla) holds in every behavior: it
\* assumes nothing of how far the checkpoint is behind, of when runs start or of
\* which saves fail, and notes in lapses what that costs.
THEOREM RetentionInvariantHolds == Spec => [](TypeOK /\ RetentionSound)
  <1>1. Init => Sound
    BY InitSound
  <1>2. Sound /\ [Next]_vars => Sound'
    BY NextSound
  <1>3. Sound <=> TypeOK /\ RetentionSound
    BY DEF Sound
  <1> QED
    BY <1>1, <1>2, <1>3, PTL DEF Spec

\* Every variable of the pruner and of the tasks keeps its type.
THEOREM RetentionTypeCorrect == Spec => []TypeOK
  BY RetentionInvariantHolds, PTL
-----------------------------------------------------------------------------
\* An output is not spent at the checkpoint if its transaction, or one that
\* spends it, has yet to be accepted.
LEMMA NotYetSpent ==
  ASSUME TypeOK, NEW t \in Tx, saved < AcceptedBy[t], AcceptedBy[t] # Never
  PROVE  /\ \A o \in OutputsOf[t] : ~SpentAt(saved, o)
         /\ \A o \in SpendsOf[t] : ~SpentAt(saved, o)
  <1>1. saved \in Nat /\ saved < Never
    BY Counts, Constants
  <1>2. ASSUME NEW o \in OutputsOf[t], NEW u \in Tx, o \in SpendsOf[u], AcceptedBy[u] <= saved
        PROVE  FALSE
    <2>1. AcceptedBy[u] # Never
      BY <1>1, <1>2, Ledger, Constants
    <2>2. AcceptedBy[t] <= AcceptedBy[u]
      BY <1>2, <2>1, LedgerAssumption
    <2> QED
      BY <1>1, <1>2, <2>2, Ledger
  <1>3. ASSUME NEW o \in SpendsOf[t], NEW u \in Tx, o \in SpendsOf[u], AcceptedBy[u] <= saved
        PROVE  FALSE
    <2>1. AcceptedBy[u] # Never /\ t # u
      BY <1>1, <1>3, Ledger, Constants
    <2>2. SpendsOf[t] \cap SpendsOf[u] = {}
      BY <2>1, LedgerAssumption
    <2> QED
      BY <1>3, <2>2
  <1> QED
    BY <1>2, <1>3 DEF SpentAt

\* Pruning keeps what the tasks and the next balance update will read, with the
\* exceptions the property names: pruning_point_is_passed protects the
\* transactions of the blocks above the checkpoint if that was saved, and older
\* ones only if the checkpoint is newer than the cutoff by at least the time a
\* transaction may take to be accepted (src/indexer/src/prune.rs, prune).
THEOREM PruningKeepsUnsettled == Spec => []UnsettledKept
  <1>1. TypeOK /\ RetentionSound => UnsettledKept
    <2> SUFFICES ASSUME TypeOK, RetentionSound PROVE UnsettledKept
      OBVIOUS
    <2>1. BlocksHeld /\ RecentHeld
      BY DEF RetentionSound
    <2>2. ASSUME ~DisableTransactionAcceptance, lapses \cap {"narrow", "early"} = {},
                 NEW t \in Tx, BlockOf[t] <= storedTxs, saved < AcceptedBy[t], AcceptedBy[t] # Never
          PROVE  /\ t \in transactions \cap inputs
                 /\ OutputsOf[t] \subseteq outputs
                 /\ \A u \in Tx : OutputsOf[u] \cap SpendsOf[t] \subseteq outputs
      <3>1. TxsHeld /\ OutputsHeld
        BY <2>2 DEF RetentionSound, LedgerHeld
      <3>2. t \in transactions \cap inputs
        BY <2>2, <3>1 DEF TxsHeld
      <3>3. OutputsOf[t] \subseteq outputs
        BY <2>2, <3>1, NotYetSpent DEF OutputsHeld
      <3>4. ASSUME NEW u \in Tx, NEW o \in OutputsOf[u] \cap SpendsOf[t]
            PROVE  o \in outputs
        <4>1. BlockOf[u] <= BlockOf[t] /\ AcceptedBy[u] <= AcceptedBy[t]
          BY <2>2, <3>4, LedgerAssumption
        <4>2. AcceptedBy[u] # Never
          BY <2>2, <4>1, Ledger, Constants
        <4>3. BlockOf[u] <= storedTxs
          BY <2>2, <4>1, Ledger, Counts
        <4>4. ~SpentAt(saved, o)
          BY <2>2, <3>4, NotYetSpent
        <4> QED
          BY <3>1, <3>4, <4>2, <4>3, <4>4 DEF OutputsHeld
      <3> QED
        BY <3>2, <3>3, <3>4
    <2> QED
      BY <2>1, <2>2 DEF UnsettledKept, BlocksHeld, RecentHeld
  <1> QED
    BY <1>1, RetentionInvariantHolds, PTL

\* Pruning keeps the UTXO set at the checkpoint, and the acceptances of its
\* transactions, however old they are, unless a checkpoint was newer than the
\* cutoff by too little or saved before its transactions were stored
\* (src/database/src/query/delete.rs, prune_transactions_chunk).
THEOREM PruningKeepsUtxoSet == Spec => []UtxoSetStored
  <1>1. TypeOK /\ RetentionSound => UtxoSetStored
    <2> SUFFICES ASSUME TypeOK, RetentionSound, ~DisableTransactionAcceptance,
                        lapses \cap {"narrow", "early"} = {},
                        NEW t \in Tx, AcceptedBy[t] <= saved,
                        NEW o \in OutputsOf[t], ~SpentAt(saved, o)
                 PROVE  o \in outputs /\ <<t, AcceptedBy[t]>> \in rows["transactions_acceptances"]
      BY DEF UtxoSetStored
    <2>1. TasksInOrder /\ AcceptancesHeld /\ OutputsHeld
      BY DEF RetentionSound, LedgerHeld
    <2>2. saved \in Nat /\ followed \in Nat /\ saved <= followed /\ saved < Never
      BY <2>1, Counts, Constants DEF TasksInOrder
    <2>3. AcceptedBy[t] # Never /\ AcceptedBy[t] <= followed
      BY <2>2, Ledger, Constants
    <2> QED
      BY <2>1, <2>3 DEF AcceptancesHeld, OutputsHeld
  <1> QED
    BY <1>1, RetentionInvariantHolds, PTL

\* As long as no step of a run failed and the checkpoint was neither older than
\* the retention of the blocks nor ahead of the rows, pruning blocks leaves no
\* row behind that refers to them, if the tables of these rows have a retention
\* at all
\* (src/indexer/src/prune.rs, prune).
THEOREM PruningLeavesNoOrphans ==
  ASSUME PrunedTogether
  PROVE  Spec => []NoOrphanRows
  <1>1. TypeOK /\ RetentionSound => NoOrphanRows
    BY DEF RetentionSound, RowsInOrder, NoOrphanRows
  <1> QED
    BY <1>1, RetentionInvariantHolds, PTL
=============================================================================
