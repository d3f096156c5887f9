--------------------- MODULE TransactionEmulation_proofs ---------------------
(***************************************************************************)
(* What holds of the transaction emulation for every set of sessions,      *)
(* tables, schemas and values.                                             *)
(***************************************************************************)
EXTENDS TransactionEmulation, TLAPS

USE DEF catalog, transactions

-----------------------------------------------------------------------------
(* The operators                                                           *)

\* A value that went through JSON is a value of the model, and no longer a BLOB.
LEMMA ThroughJsonType ==
    ASSUME NEW v \in Value
    PROVE  ThroughJson(v) \in Value \ Blob
  BY ValuesAssumption DEF ThroughJson, Value, ClientValue

\* Copying rows through JSON a second time changes nothing.
LEMMA RowsThroughJsonFixed ==
    ASSUME NEW R \in SUBSET Value
    PROVE  /\ RowsThroughJson(R) \in SUBSET (Value \ Blob)
           /\ R \cap Blob = {} => RowsThroughJson(R) = R
  <1>1. RowsThroughJson(R) \in SUBSET (Value \ Blob)
    BY ThroughJsonType DEF RowsThroughJson
  <1>2. ASSUME R \cap Blob = {}
        PROVE  RowsThroughJson(R) = R
    <2>1. \A v \in R : ThroughJson(v) = v
      BY <1>2 DEF ThroughJson
    <2>2. QED
      BY <2>1 DEF RowsThroughJson
  <1>3. QED
    BY <1>1, <1>2

\* What BEGIN stores is a snapshot.
LEMMA SnapshotDatabaseType ==
    ASSUME TypeOK
    PROVE  SnapshotDatabase \in Snapshot
  <1>1. \A t \in Table : RowsThroughJson(rows[t]) \in SUBSET Value
    BY RowsThroughJsonFixed DEF TypeOK
  <1>2. SnapshotRows \in [Table -> SUBSET Value]
    BY <1>1 DEF SnapshotRows
  <1>3. UserTables \in SUBSET Table /\ {t \in UserTables : Clashes(t)} \in SUBSET Table
    BY DEF UserTables, TypeOK
  <1>4. tracked \in SUBSET Table /\ schemas \in SUBSET Schema
    BY DEF TypeOK
  <1>5. QED
    BY <1>2, <1>3, <1>4 DEF SnapshotDatabase, Snapshot

\* The rows a rollback leaves are rows of the model, and none of a table it leaves out.
LEMMA RestoredRowsType ==
    ASSUME TypeOK, NEW saved \in Snapshot, NEW T \in SUBSET Table
    PROVE  /\ RestoredTables(T) \in SUBSET Table
           /\ RestoredRows(saved, T) \in [Table -> SUBSET Value]
           /\ \A t \in Table \ RestoredTables(T) : RestoredRows(saved, T)[t] = {}
  BY DEF RestoredTables, RestoredRows, TypeOK, Snapshot

-----------------------------------------------------------------------------
(* Type correctness                                                        *)

LEMMA TypeStep == TypeOK /\ [Next]_vars => TypeOK'
  <1> SUFFICES ASSUME TypeOK, [Next]_vars PROVE TypeOK'
    OBVIOUS
  <1>1. ASSUME NEW s \in Session, Connect(s) \/ Disconnect(s) \/ Commit(s)
        PROVE  TypeOK'
    BY <1>1 DEF Connect, Disconnect, Commit, TypeOK
  <1>2. ASSUME NEW s \in Session, Begin(s)
        PROVE  TypeOK'
    BY <1>2, SnapshotDatabaseType DEF Begin, TypeOK
  <1>3. ASSUME NEW s \in Session, Rollback(s)
        PROVE  TypeOK'
    <2>1. snapshot[s] \in Snapshot
      BY <1>3 DEF Rollback, TypeOK
    <2>2. /\ snapshot[s].tables \in SUBSET Table
          /\ snapshot[s].tracked \in SUBSET Table
          /\ snapshot[s].schemas \in SUBSET Schema
      BY <2>1 DEF Snapshot
    <2>3. QED
      BY <1>3, <2>1, <2>2, RestoredRowsType DEF Rollback, TypeOK
  <1>4. ASSUME NEW s \in Session, NEW f \in Table, NEW R \in SUBSET Value,
               RollbackFails(s, f, R)
        PROVE  TypeOK'
    <2> DEFINE before == {t \in snapshot[s].tables : t < f}
    <2>1. snapshot[s] \in Snapshot
      BY <1>4 DEF RollbackFails, TypeOK
    <2>2. before \in SUBSET Table /\ before \cup {f} \in SUBSET Table
      BY <2>1 DEF Snapshot
    <2>3. /\ tables' = RestoredTables(before \cup {f})
          /\ rows' = [RestoredRows(snapshot[s], before) EXCEPT ![f] = R]
          /\ UNCHANGED <<open, transactions, tracked, schemas>>
      BY <1>4 DEF RollbackFails
    <2> HIDE DEF before
    <2>4. /\ tables' \in SUBSET Table
          /\ rows' \in [Table -> SUBSET Value]
      BY <2>1, <2>2, <2>3, RestoredRowsType
    <2>5. \A t \in Table \ tables' : rows'[t] = {}
      BY <2>1, <2>2, <2>3, RestoredRowsType DEF RestoredTables
    <2>6. QED
      BY <2>3, <2>4, <2>5 DEF TypeOK
  <1>5. ASSUME NEW s \in Session, NEW t \in Table, CreateTable(s, t) \/ CreateExistingTable(s, t)
        PROVE  TypeOK'
    BY <1>5, SchemasAssumption DEF CreateTable, CreateExistingTable, TypeOK
  <1>6. ASSUME NEW s \in Session, NEW t \in Table, DropTable(s, t)
        PROVE  TypeOK'
    BY <1>6 DEF DropTable, TypeOK
  <1>7. ASSUME NEW s \in Session, NEW t \in Table, NEW R \in SUBSET Value,
               CreateTableAs(s, t, R) \/ Mutate(s, t, R)
        PROVE  TypeOK'
    BY <1>7 DEF CreateTableAs, Mutate, TypeOK
  <1>8. ASSUME NEW s \in Session, NEW n \in Schema, CreateSchema(s, n) \/ DropSchema(s, n)
        PROVE  TypeOK'
    BY <1>8 DEF CreateSchema, DropSchema, TypeOK
  <1>9. CASE UNCHANGED vars
    BY <1>9 DEF vars, TypeOK
  <1>10. QED
    BY <1>1, <1>2, <1>3, <1>4, <1>5, <1>6, <1>7, <1>8, <1>9 DEF Next

\* Every table of the catalog object holds what its declaration says.
THEOREM TypeCorrect == Spec => []TypeOK
  <1>1. Init => TypeOK
    BY SchemasAssumption DEF Init, TypeOK
  <1>2. QED
    BY <1>1, TypeStep, PTL DEF Spec

-----------------------------------------------------------------------------
(* The flag and the snapshot                                               *)

\* Only session and transaction control touch the sessions and their snapshots.
LEMMA ControlOrStatement ==
    ASSUME Next
    PROVE  \/ \E s \in Session : Connect(s) \/ Disconnect(s) \/ Begin(s) \/ Commit(s) \/ Rollback(s)
           \/ UNCHANGED <<open, inTx, snapshot>>
  <1>1. ASSUME NEW s \in Session, NEW t \in Table,
               CreateTable(s, t) \/ CreateExistingTable(s, t) \/ DropTable(s, t)
        PROVE  UNCHANGED <<open, inTx, snapshot>>
    BY <1>1 DEF CreateTable, CreateExistingTable, DropTable
  <1>2. ASSUME NEW s \in Session, NEW t \in Table, NEW R \in SUBSET Value,
               CreateTableAs(s, t, R) \/ Mutate(s, t, R) \/ RollbackFails(s, t, R)
        PROVE  UNCHANGED <<open, inTx, snapshot>>
    BY <1>2 DEF CreateTableAs, Mutate, RollbackFails
  <1>3. ASSUME NEW s \in Session, NEW n \in Schema, CreateSchema(s, n) \/ DropSchema(s, n)
        PROVE  UNCHANGED <<open, inTx, snapshot>>
    BY <1>3 DEF CreateSchema, DropSchema
  <1>4. QED
    BY <1>1, <1>2, <1>3 DEF Next

LEMMA OneSnapshotStep ==
    TypeOK /\ OneSnapshotPerTransaction /\ [Next]_vars => OneSnapshotPerTransaction'
  <1> SUFFICES ASSUME TypeOK, OneSnapshotPerTransaction, [Next]_vars
               PROVE  OneSnapshotPerTransaction'
    OBVIOUS
  <1> USE DEF OneSnapshotPerTransaction
  <1>1. ASSUME NEW s \in Session, Connect(s)
        PROVE  OneSnapshotPerTransaction'
    BY <1>1 DEF Connect
  <1>2. ASSUME NEW s \in Session, Disconnect(s) \/ Commit(s) \/ Rollback(s)
        PROVE  OneSnapshotPerTransaction'
    BY <1>2 DEF Disconnect, Commit, Rollback, TypeOK
  <1>3. ASSUME NEW s \in Session, Begin(s)
        PROVE  OneSnapshotPerTransaction'
    <2>1. SnapshotDatabase # NoSnapshot
      BY SnapshotDatabaseType, NoSnapshotAssumption
    <2>2. QED
      BY <1>3, <2>1 DEF Begin, TypeOK
  <1>4. CASE UNCHANGED <<open, inTx, snapshot>>
    BY <1>4
  <1>5. QED
    BY <1>1, <1>2, <1>3, <1>4, ControlOrStatement DEF vars

\* The in_transaction flags and the stored snapshots agree in every reachable state.
THEOREM OneSnapshotAlways == Spec => []OneSnapshotPerTransaction
  <1>1. Init => OneSnapshotPerTransaction
    BY DEF Init, OneSnapshotPerTransaction
  <1>2. QED
    BY <1>1, OneSnapshotStep, TypeCorrect, PTL DEF Spec

-----------------------------------------------------------------------------
(* The savepoints                                                          *)

\* What a stored snapshot is: no hidden table, no BLOB, and rows only of its tables, of
\* which those that clash are some.
SnapshotsAreVisible ==
    \A s \in Session : snapshot[s] # NoSnapshot =>
        /\ snapshot[s].tables \cap Hidden = {}
        /\ snapshot[s].clashes \subseteq snapshot[s].tables
        /\ \A t \in Table : snapshot[s].rows[t] \cap Blob = {}
        /\ \A t \in Table \ snapshot[s].tables : snapshot[s].rows[t] = {}

LEMMA SnapshotsAreVisibleStep ==
    TypeOK /\ SnapshotsAreVisible /\ [Next]_vars => SnapshotsAreVisible'
  <1> SUFFICES ASSUME TypeOK, SnapshotsAreVisible, [Next]_vars,
                      NEW u \in Session, snapshot'[u] # NoSnapshot
               PROVE  /\ snapshot'[u].tables \cap Hidden = {}
                      /\ snapshot'[u].clashes \subseteq snapshot'[u].tables
                      /\ \A t \in Table : snapshot'[u].rows[t] \cap Blob = {}
                      /\ \A t \in Table \ snapshot'[u].tables : snapshot'[u].rows[t] = {}
    BY DEF SnapshotsAreVisible
  <1>1. CASE snapshot'[u] = snapshot[u]
    BY <1>1 DEF SnapshotsAreVisible
  <1>2. CASE snapshot'[u] = SnapshotDatabase
    <2>1. \A t \in Table : RowsThroughJson(rows[t]) \cap Blob = {}
      BY RowsThroughJsonFixed DEF TypeOK
    <2>2. QED
      BY <1>2, <2>1 DEF SnapshotDatabase, SnapshotRows, UserTables
  <1>3. snapshot'[u] \in {snapshot[u], SnapshotDatabase}
    <2>1. ASSUME NEW s \in Session,
                 Connect(s) \/ Disconnect(s) \/ Begin(s) \/ Commit(s) \/ Rollback(s)
          PROVE  snapshot'[u] \in {snapshot[u], SnapshotDatabase}
      BY <2>1 DEF Connect, Disconnect, Begin, Commit, Rollback, TypeOK
    <2>2. QED
      BY <2>1, ControlOrStatement DEF vars
  <1>4. QED
    BY <1>1, <1>2, <1>3

LEMMA SnapshotsAlwaysVisible == Spec => []SnapshotsAreVisible
  <1>1. Init => SnapshotsAreVisible
    BY DEF Init, SnapshotsAreVisible
  <1>2. QED
    BY <1>1, SnapshotsAreVisibleStep, TypeCorrect, PTL DEF Spec

\* After a rollback that succeeds the visible catalog is the saved one.
LEMMA RollbackRestores ==
    ASSUME TypeOK, SnapshotsAreVisible, NEW s \in Session, Rollback(s)
    PROVE  Visible' = Saved(snapshot[s])
  <1>1. /\ snapshot[s] \in Snapshot
        /\ snapshot[s].tables \cap Hidden = {}
        /\ \A t \in Table : snapshot[s].rows[t] \cap Blob = {}
        /\ \A t \in Table \ snapshot[s].tables : snapshot[s].rows[t] = {}
    BY DEF Rollback, SnapshotsAreVisible, TypeOK
  <1>2. UserTables' = snapshot[s].tables
    BY <1>1 DEF Rollback, RestoredTables, UserTables
  <1>3. \A t \in snapshot[s].tables : rows'[t] = snapshot[s].rows[t]
    BY <1>1 DEF Rollback, RestoredRows, Snapshot
  <1>4. \A t \in Table : snapshot[s].rows[t] \in SUBSET Value
    BY <1>1 DEF Snapshot
  <1>5. \A t \in Table : RowsThroughJson(snapshot[s].rows[t]) = snapshot[s].rows[t]
    BY <1>1, <1>4, RowsThroughJsonFixed
  <1>6. SnapshotRows' = snapshot[s].rows
    <2>1. \A t \in Table : SnapshotRows'[t] = snapshot[s].rows[t]
      BY <1>1, <1>2, <1>3, <1>5 DEF SnapshotRows, RowsThroughJson, ThroughJson
    <2>2. SnapshotRows' = [t \in Table |-> SnapshotRows'[t]]
      BY DEF SnapshotRows
    <2>3. snapshot[s].rows = [t \in Table |-> snapshot[s].rows[t]]
      BY <1>1 DEF Snapshot
    <2>4. QED
      BY <2>1, <2>2, <2>3
  <1>7. tracked' = snapshot[s].tracked /\ schemas' = snapshot[s].schemas
    BY DEF Rollback
  <1>8. QED
    BY <1>2, <1>6, <1>7 DEF Visible, Saved

\* A rollback that fails leaves the tables up to the one it stopped at.
LEMMA RollbackStops ==
    ASSUME TypeOK, OneSnapshotPerTransaction, SnapshotsAreVisible, NEW s \in Session,
           NEW f \in Table, NEW R \in SUBSET Value, RollbackFails(s, f, R)
    PROVE  s \in inTx \cap open' /\ f \in snapshot[s].clashes /\ StoppedAt(s, f)
  <1> DEFINE before == {t \in snapshot[s].tables : t < f}
  <1>1. /\ snapshot[s] \in Snapshot
        /\ snapshot[s].tables \cap Hidden = {}
        /\ f \in snapshot[s].clashes
        /\ f \in snapshot[s].tables
    BY DEF RollbackFails, SnapshotsAreVisible, TypeOK
  <1>2. tables' = (tables \cap Hidden) \cup (before \cup {f})
    BY DEF RollbackFails, RestoredTables
  <1>3. \A t \in snapshot[s].tables : t <= f <=> t < f \/ t = f
    BY <1>1, TablesAreOrdered DEF Snapshot
  <1>4. UserTables' = {t \in snapshot[s].tables : t <= f}
    BY <1>1, <1>2, <1>3 DEF UserTables
  <1>5. s \in inTx /\ UNCHANGED <<open, transactions>> /\ s \in open
    BY DEF RollbackFails, OneSnapshotPerTransaction
  <1>6. QED
    BY <1>1, <1>4, <1>5 DEF StoppedAt

\* No step loses a table that no DROP names, unless a ROLLBACK undoes its creation or
\* stops before it and keeps it in its snapshot, whatever the other sessions hold.
THEOREM NoTableIsLostEver == Spec => NoTableIsLost
  <1> DEFINE Accounted(t) == \/ \E s \in Session : DropTable(s, t)
                             \/ \E s \in inTx \cap open' :
                                   \/ RolledBack(s) /\ t \notin snapshot[s].tables
                                   \/ \E f \in snapshot[s].clashes : StoppedAt(s, f)
             Step == \A t \in UserTables \ tables' : Accounted(t)
  <1>1. TypeOK /\ OneSnapshotPerTransaction /\ SnapshotsAreVisible /\ [Next]_vars => [Step]_vars
    <2> SUFFICES ASSUME TypeOK, OneSnapshotPerTransaction, SnapshotsAreVisible, Next,
                        NEW t \in UserTables \ tables'
                 PROVE  Accounted(t)
      OBVIOUS
    <2>1. ASSUME NEW s \in Session, Rollback(s)
          PROVE  Accounted(t)
      <3>1. t \notin snapshot[s].tables
        BY <2>1 DEF Rollback, RestoredTables
      <3>2. s \in inTx \cap open' /\ s \notin inTx'
        BY <2>1 DEF Rollback, OneSnapshotPerTransaction
      <3>3. Visible' = Saved(snapshot[s])
        BY <2>1, RollbackRestores
      <3>4. QED
        BY <3>1, <3>2, <3>3 DEF RolledBack
    <2>2. ASSUME NEW s \in Session, NEW f \in Table, NEW R \in SUBSET Value,
                 RollbackFails(s, f, R)
          PROVE  Accounted(t)
      BY <2>2, RollbackStops
    <2>3. ASSUME NEW s \in Session, NEW u \in Table, DropTable(s, u)
          PROVE  Accounted(t)
      <3>1. u = t
        BY <2>3 DEF DropTable, UserTables
      <3>2. QED
        BY <2>3, <3>1
    <2>4. CASE tables \subseteq tables'
      BY <2>4 DEF UserTables
    <2>5. QED
      BY <2>1, <2>2, <2>3, <2>4
      DEF Next, Connect, Disconnect, Begin, Commit, CreateTable, CreateExistingTable,
          CreateTableAs, Mutate, CreateSchema, DropSchema
  <1>2. QED
    BY <1>1, TypeCorrect, OneSnapshotAlways, SnapshotsAlwaysVisible, PTL DEF Spec, NoTableIsLost

\* What the sessions see is a state of the abstract database.
VisibleTyped == Visible \in Database

LEMMA VisibleType == TypeOK => VisibleTyped
  <1> SUFFICES ASSUME TypeOK PROVE Visible \in Database
    BY DEF VisibleTyped
  <1>1. SnapshotRows \in [Table -> SUBSET Value]
    BY RowsThroughJsonFixed DEF SnapshotRows, TypeOK
  <1>2. QED
    BY <1>1 DEF Visible, UserTables, Database, TypeOK

\* Every step is a step of the promise or leaves its two variables alone.
LEMMA SavepointStep ==
    TypeOK /\ VisibleTyped' /\ OneSnapshotPerTransaction /\ SnapshotsAreVisible /\ [Next]_vars
        => [Promise!Next]_(Promise!vars)
  <1> SUFFICES ASSUME TypeOK, VisibleTyped', OneSnapshotPerTransaction, SnapshotsAreVisible, [Next]_vars
               PROVE  [Promise!Next]_(Promise!vars)
    OBVIOUS
  <1> DEFINE saved == [s \in Session |-> IF snapshot[s] = NoSnapshot
                                         THEN NoSnapshot ELSE Saved(snapshot[s])]
  <1>1. Visible' \in Database
    BY DEF VisibleTyped
  <1>2. ASSUME UNCHANGED <<tables, rows, tracked, schemas>>
        PROVE  Visible' = Visible
    BY <1>2 DEF Visible, SnapshotRows, UserTables
  <1>3. ASSUME UNCHANGED snapshot
        PROVE  saved' = saved
    BY <1>3
  <1>4. ASSUME NEW s \in Session, Connect(s)
        PROVE  UNCHANGED <<Visible, saved>>
    BY <1>2, <1>3, <1>4 DEF Connect
  <1>5. ASSUME NEW s \in Session, Disconnect(s) \/ Commit(s)
        PROVE  Promise!Forget(s)
    <2>1. Visible' = Visible
      BY <1>2, <1>5 DEF Disconnect, Commit
    <2>2. saved' = [saved EXCEPT ![s] = NoSnapshot]
      BY <1>5 DEF Disconnect, Commit, TypeOK
    <2>3. QED
      BY <2>1, <2>2 DEF Promise!Forget
  <1>6. ASSUME NEW s \in Session, Begin(s)
        PROVE  Promise!Save(s)
    <2>1. Visible' = Visible
      BY <1>2, <1>6 DEF Begin
    <2>2. saved[s] = NoSnapshot
      BY <1>6 DEF Begin, OneSnapshotPerTransaction
    <2>3. SnapshotDatabase # NoSnapshot
      BY SnapshotDatabaseType, NoSnapshotAssumption
    <2>4. Saved(SnapshotDatabase) = Visible
      BY DEF Saved, SnapshotDatabase, Visible
    <2>5. snapshot' = [snapshot EXCEPT ![s] = SnapshotDatabase]
      BY <1>6 DEF Begin
    <2>6. saved' = [saved EXCEPT ![s] = Visible]
      BY <2>3, <2>4, <2>5 DEF TypeOK
    <2>7. QED
      BY <2>1, <2>2, <2>6 DEF Promise!Save
  <1>7. ASSUME NEW s \in Session, Rollback(s)
        PROVE  Promise!Undo(s)
    <2>1. Visible' = Saved(snapshot[s])
      BY <1>7, RollbackRestores
    <2>2. snapshot[s] \in Snapshot
      BY <1>7 DEF Rollback, TypeOK
    <2>3. Saved(snapshot[s]) # NoSnapshot
      BY <2>2, NoSnapshotAssumption DEF Saved, Snapshot, Database
    <2>4. saved[s] = Saved(snapshot[s])
      BY <1>7 DEF Rollback
    <2>5. saved' = [saved EXCEPT ![s] = NoSnapshot]
      BY <1>7 DEF Rollback, TypeOK
    <2>6. QED
      BY <2>1, <2>3, <2>4, <2>5 DEF Promise!Undo
  <1>8. CASE UNCHANGED <<open, inTx, snapshot>>
    <2>1. Promise!Write
      BY <1>1, <1>3, <1>8 DEF Promise!Write
    <2>2. QED
      BY <2>1 DEF Promise!Next
  <1>9. QED
    <2>1. ASSUME NEW s \in Session,
                 Connect(s) \/ Disconnect(s) \/ Begin(s) \/ Commit(s) \/ Rollback(s)
          PROVE  [Promise!Next]_(Promise!vars)
      BY <2>1, <1>4, <1>5, <1>6, <1>7 DEF Promise!Next, Promise!vars
    <2>2. QED
      BY <2>1, <1>8, ControlOrStatement DEF vars

\* The emulation implements its promise: BEGIN saves what the session sees, a
\* ROLLBACK that succeeds puts back exactly that, and nothing else moves a savepoint.
THEOREM EmulationImplementsSavepoints == Spec => ImplementsSavepoints
  <1>1. Init => Promise!Init
    <2> SUFFICES ASSUME Init PROVE Promise!Init
      OBVIOUS
    <2>1. TypeOK
      BY SchemasAssumption DEF Init, TypeOK
    <2>2. Visible \in Database
      BY <2>1, VisibleType DEF VisibleTyped
    <2>3. QED
      BY <2>2 DEF Init, Promise!Init
  <1>2. QED
    BY <1>1, SnapshotsAlwaysVisible, SavepointStep, TypeCorrect, VisibleType, OneSnapshotAlways, PTL
    DEF Spec, ImplementsSavepoints, Promise!Spec
=============================================================================
