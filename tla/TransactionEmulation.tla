------------------------ MODULE TransactionEmulation ------------------------
(***************************************************************************)
(* The transaction emulation of SqlCompatibilityLayer (sql-compat.ts) in   *)
(* one catalog object: BEGIN copies every user table and the tracked       *)
(* metadata into __dq_tx_snapshots as JSON, COMMIT forgets the copy, and   *)
(* ROLLBACK drops every user table and builds them again from the copy.    *)
(* A statement runs to its end without yielding, so each is one step.      *)
(*                                                                         *)
(* A table is a set of rows and a row is one value.  What tells values     *)
(* apart is what JSON keeps of them: text, numbers and NULL survive, a     *)
(* BLOB comes back as the text of an object.                               *)
(***************************************************************************)
EXTENDS Naturals, FiniteSets

CONSTANTS Session,    \* client sessions of the catalog
          Table,      \* stored table names, numbered in the order ORDER BY name gives
          Hidden,     \* names that NOT LIKE '__dq_%' leaves out (_ is a wildcard)
          Keyed,      \* tables declared with a UNIQUE or PRIMARY KEY column
          Schema,     \* schema names
          Main,       \* the schema that always exists
          SchemaOf,   \* the schema a table name is qualified with
          Plain,      \* text, numbers, NULL
          Blob,       \* byte strings
          Mangled,    \* the text a BLOB is restored as
          MaxRows,    \* bound: rows of each table
          NoSnapshot

ASSUME TablesAreOrdered == Table \subseteq Nat /\ Hidden \subseteq Table /\ Keyed \subseteq Table
ASSUME SchemasAssumption == Main \in Schema /\ SchemaOf \in [Table -> Schema]
ASSUME ValuesAssumption == Plain \cap Blob = {} /\ Mangled \notin Plain \cup Blob

VARIABLES
    open,       \* sessions with a row in __dq_sessions
    inTx,       \* those whose in_transaction is 1
    snapshot,   \* __dq_tx_snapshots, by session
    tables,     \* tables of sqlite_master
    rows,       \* the rows of each table
    tracked,    \* names with rows in __dq_table_columns
    schemas     \* __dq_schemas

catalog == <<tables, rows, tracked, schemas>>
transactions == <<inTx, snapshot>>
vars == <<open, inTx, snapshot, tables, rows, tracked, schemas>>

ClientValue == Plain \cup Blob
Value == ClientValue \cup {Mangled}

\* normalizeSnapshotValue(JSON.parse(JSON.stringify(v)))
ThroughJson(v) == IF v \in Blob THEN Mangled ELSE v
RowsThroughJson(R) == {ThroughJson(v) : v \in R}

UserTables == tables \ Hidden

\* What a statement can take its rows from: its own text, and the tables there are.
Available == ClientValue \cup UNION {rows[t] : t \in tables}

\* A keyed table two of whose rows are the same once they went through JSON.
Clashes(t) ==
    t \in Keyed /\ \E v, w \in rows[t] : v # w /\ ThroughJson(v) = ThroughJson(w)

Database == [tables : SUBSET Table, rows : [Table -> SUBSET Value],
             tracked : SUBSET Table, schemas : SUBSET Schema]

Snapshot == [tables : SUBSET Table, rows : [Table -> SUBSET Value], clashes : SUBSET Table,
             tracked : SUBSET Table, schemas : SUBSET Schema]

ASSUME NoSnapshotAssumption == NoSnapshot \notin Snapshot \cup Database

SnapshotRows ==
    [t \in Table |-> IF t \in UserTables THEN RowsThroughJson(rows[t]) ELSE {}]

SnapshotDatabase ==
    [tables  |-> UserTables,
     rows    |-> SnapshotRows,
     clashes |-> {t \in UserTables : Clashes(t)},
     tracked |-> tracked,
     schemas |-> schemas]

Init ==
    /\ open = {}
    /\ inTx = {}
    /\ snapshot = [s \in Session |-> NoSnapshot]
    /\ tables = {}
    /\ rows = [t \in Table |-> {}]
    /\ tracked = {}
    /\ schemas = {Main}

-----------------------------------------------------------------------------
(* Sessions.  A session id is random and never used again: s stands for    *)
(* the successive sessions of one client.                                  *)

Connect(s) ==
    /\ s \notin open
    /\ open' = open \cup {s}
    /\ UNCHANGED <<transactions, catalog>>

\* Mistaken: the session goes, its snapshot stays.
DisconnectKeepsSnapshot(s) ==
    /\ s \in open
    /\ open' = open \ {s}
    /\ inTx' = inTx \ {s}
    /\ UNCHANGED <<snapshot, catalog>>

\* The open transaction is forgotten; what it wrote stays.
Disconnect(s) ==
    /\ s \in open
    /\ open' = open \ {s}
    /\ inTx' = inTx \ {s}
    /\ snapshot' = [snapshot EXCEPT ![s] = NoSnapshot]
    /\ UNCHANGED catalog

-----------------------------------------------------------------------------
(* Statements                                                              *)

\* CREATE TABLE t (columns).  The schema is created before the name is looked at.
CreateTable(s, t) ==
    /\ s \in open
    /\ t \notin tables
    /\ schemas' = schemas \cup {SchemaOf[t]}
    /\ tables' = tables \cup {t}
    /\ tracked' = tracked \cup {t}
    /\ UNCHANGED <<open, transactions, rows>>

CreateExistingTable(s, t) ==
    /\ s \in open
    /\ t \in tables
    /\ schemas' = schemas \cup {SchemaOf[t]}
    /\ UNCHANGED <<open, transactions, tables, rows, tracked>>

\* CREATE TABLE t AS ... goes to SQLite as it is: no column is tracked or keyed,
\* and a qualified name is not rewritten, since the table does not exist yet.
CreateTableAs(s, t, R) ==
    /\ s \in open
    /\ t \notin tables \cup Keyed
    /\ SchemaOf[t] = Main
    /\ R \subseteq Available
    /\ Cardinality(R) <= MaxRows[t]
    /\ tables' = tables \cup {t}
    /\ rows' = [rows EXCEPT ![t] = R]
    /\ UNCHANGED <<open, transactions, tracked, schemas>>

\* The tracked columns stay behind.
DropTable(s, t) ==
    /\ s \in open
    /\ t \in tables
    /\ tables' = tables \ {t}
    /\ rows' = [rows EXCEPT ![t] = {}]
    /\ UNCHANGED <<open, transactions, tracked, schemas>>

\* INSERT, UPDATE, DELETE, and the rows of an APPEND.
Mutate(s, t, R) ==
    /\ s \in open
    /\ t \in tables
    /\ R \subseteq Available
    /\ Cardinality(R) <= MaxRows[t]
    /\ rows' = [rows EXCEPT ![t] = R]
    /\ UNCHANGED <<open, transactions, tables, tracked, schemas>>

CreateSchema(s, n) ==
    /\ s \in open
    /\ schemas' = schemas \cup {n}
    /\ UNCHANGED <<open, transactions, tables, rows, tracked>>

DropSchema(s, n) ==
    /\ s \in open
    /\ n # Main
    /\ schemas' = schemas \ {n}
    /\ UNCHANGED <<open, transactions, tables, rows, tracked>>

-----------------------------------------------------------------------------
(* Transaction control                                                     *)

\* Mistaken: a second BEGIN starts over.
BeginAgain(s) ==
    /\ s \in open
    /\ snapshot' = [snapshot EXCEPT ![s] = SnapshotDatabase]
    /\ inTx' = inTx \cup {s}
    /\ UNCHANGED <<open, catalog>>

\* A second BEGIN is an error that changes nothing.
Begin(s) ==
    /\ s \in open
    /\ s \notin inTx
    /\ snapshot' = [snapshot EXCEPT ![s] = SnapshotDatabase]
    /\ inTx' = inTx \cup {s}
    /\ UNCHANGED <<open, catalog>>

\* No check that a transaction is open.
Commit(s) ==
    /\ s \in open
    /\ snapshot' = [snapshot EXCEPT ![s] = NoSnapshot]
    /\ inTx' = inTx \ {s}
    /\ UNCHANGED <<open, catalog>>

\* Mistaken: only the tables of the snapshot are emptied.
RestoredRowsOnly(saved, T) == [t \in Table |-> IF t \in T THEN saved.rows[t] ELSE rows[t]]

\* Every user table is dropped, those of T are built again.
RestoredTables(T) == (tables \cap Hidden) \cup T
RestoredRows(saved, T) ==
    [t \in Table |-> IF t \in Hidden THEN rows[t] ELSE IF t \in T THEN saved.rows[t] ELSE {}]

\* Mistaken: the tracked columns are not put back.
RollbackOfTables(s) ==
    /\ s \in open
    /\ snapshot[s] # NoSnapshot
    /\ snapshot[s].clashes = {}
    /\ tables' = RestoredTables(snapshot[s].tables)
    /\ rows' = RestoredRows(snapshot[s], snapshot[s].tables)
    /\ schemas' = snapshot[s].schemas
    /\ snapshot' = [snapshot EXCEPT ![s] = NoSnapshot]
    /\ inTx' = inTx \ {s}
    /\ UNCHANGED <<open, tracked>>

\* Mistaken: the stored snapshot is read without its session.
RollbackToAnySnapshot(s) ==
    /\ s \in open
    /\ snapshot[s] # NoSnapshot
    /\ \E u \in inTx :
          /\ snapshot[u].clashes = {}
          /\ tables' = RestoredTables(snapshot[u].tables)
          /\ rows' = RestoredRows(snapshot[u], snapshot[u].tables)
          /\ tracked' = snapshot[u].tracked
          /\ schemas' = snapshot[u].schemas
    /\ snapshot' = [snapshot EXCEPT ![s] = NoSnapshot]
    /\ inTx' = inTx \ {s}
    /\ UNCHANGED open

Rollback(s) ==
    /\ s \in open
    /\ snapshot[s] # NoSnapshot
    /\ snapshot[s].clashes = {}
    /\ tables' = RestoredTables(snapshot[s].tables)
    /\ rows' = RestoredRows(snapshot[s], snapshot[s].tables)
    /\ tracked' = snapshot[s].tracked
    /\ schemas' = snapshot[s].schemas
    /\ snapshot' = [snapshot EXCEPT ![s] = NoSnapshot]
    /\ inTx' = inTx \ {s}
    /\ UNCHANGED open

\* The INSERT of a row whose key is there already throws out of the loop: the
\* tables before f are back, f has the rows R, those after f are gone, and the
\* statements after the loop are not reached.
RollbackFails(s, f, R) ==
    /\ s \in open
    /\ snapshot[s] # NoSnapshot
    /\ f \in snapshot[s].clashes
    /\ \A t \in snapshot[s].clashes : f <= t
    /\ Mangled \in R
    /\ R \subseteq snapshot[s].rows[f]
    /\ LET before == {t \in snapshot[s].tables : t < f}
       IN  /\ tables' = RestoredTables(before \cup {f})
           /\ rows' = [RestoredRows(snapshot[s], before) EXCEPT ![f] = R]
    /\ UNCHANGED <<open, transactions, tracked, schemas>>

Next ==
    \E s \in Session :
        \/ Connect(s)
        \/ Disconnect(s)
        \/ Begin(s)
        \/ Commit(s)
        \/ Rollback(s)
        \/ \E t \in Table :
              \/ CreateTable(s, t)
              \/ CreateExistingTable(s, t)
              \/ DropTable(s, t)
              \/ \E R \in SUBSET Value :
                    \/ CreateTableAs(s, t, R)
                    \/ Mutate(s, t, R)
                    \/ RollbackFails(s, t, R)
        \/ \E n \in Schema : CreateSchema(s, n) \/ DropSchema(s, n)

Spec == Init /\ [][Next]_vars

-----------------------------------------------------------------------------
(* Correctness                                                             *)

\* The tables of the catalog object hold what their declarations say, and a
\* table that is not there has no rows.
TypeOK ==
    /\ open \subseteq Session
    /\ inTx \subseteq Session
    /\ snapshot \in [Session -> Snapshot \cup {NoSnapshot}]
    /\ tables \subseteq Table
    /\ rows \in [Table -> SUBSET Value]
    /\ \A t \in Table \ tables : rows[t] = {}
    /\ tracked \subseteq Table
    /\ schemas \subseteq Schema

\* The in_transaction flag of __dq_sessions and the rows of __dq_tx_snapshots,
\* written by separate statements, never disagree, through failed rollbacks and
\* disconnects included; no snapshot outlives its session.
OneSnapshotPerTransaction ==
    /\ inTx = {s \in Session : snapshot[s] # NoSnapshot}
    /\ inTx \subseteq open

\* A ROLLBACK leaves no value that no client wrote ("snapshot restore on ROLLBACK").
RestoresWhatWasWritten == \A t \in Table : rows[t] \subseteq ClientValue

-----------------------------------------------------------------------------
(* The promise: the catalog as a JSON copy shows it is a shared database   *)
(* with one savepoint for every session.                                   *)

Visible ==
    [tables |-> UserTables, rows |-> SnapshotRows, tracked |-> tracked, schemas |-> schemas]

Saved(c) == [tables |-> c.tables, rows |-> c.rows, tracked |-> c.tracked, schemas |-> c.schemas]

Promise == INSTANCE Savepoints WITH
    Session <- Session,
    State   <- Database,
    Nothing <- NoSnapshot,
    db      <- Visible,
    saved   <- [s \in Session |-> IF snapshot[s] = NoSnapshot
                                  THEN NoSnapshot ELSE Saved(snapshot[s])]

\* A ROLLBACK of s that succeeds: what its BEGIN saw is there again, and it is forgotten.
RolledBack(s) == s \notin inTx' /\ Visible' = Saved(snapshot[s])

\* A ROLLBACK of s that stops at its table f: the later ones are not there, and the
\* transaction stays open with all of them in its snapshot.
StoppedAt(s, f) ==
    /\ UserTables' = {t \in snapshot[s].tables : t <= f}
    /\ UNCHANGED <<open, transactions>>

\* A user table disappears only by a DROP that names it, by the ROLLBACK of a
\* transaction that began before it was created, or by one that stops half-way and can
\* be repeated: not by a COMMIT, a DISCONNECT or the DROP of another table, and not by
\* the ROLLBACK of one session because another has a snapshot.
NoTableIsLost ==
    [][\A t \in UserTables \ tables' :
          \/ \E s \in Session : DropTable(s, t)
          \/ \E s \in inTx \cap open' :
                \/ RolledBack(s) /\ t \notin snapshot[s].tables
                \/ \E f \in snapshot[s].clashes : StoppedAt(s, f)]_vars

\* BEGIN saves the visible catalog, a ROLLBACK that succeeds puts back exactly what
\* the BEGIN of its session saw, and nothing else moves a savepoint.
ImplementsSavepoints == Promise!Spec
=============================================================================
