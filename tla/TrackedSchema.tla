---------------------------- MODULE TrackedSchema ----------------------------
(***************************************************************************)
(* The columns SqlCompatibilityLayer (sql-compat.ts) tracks beside SQLite. *)
(* CREATE TABLE and ALTER TABLE are recognised, changed in SQLite and then *)
(* recorded in __dq_table_columns; a statement that is not recognised goes *)
(* to SQLite as it is and is not recorded.  What is answered for           *)
(* duckdb_tables(), what an APPEND_REQUEST expects and what statements are *)
(* authorized against is read from the record.                             *)
(*                                                                         *)
(* A statement is one step.  One that throws undoes nothing of what it had *)
(* done.  SQLite ignores the case of names, the record does not, so a name *)
(* is spelled as it was declared or otherwise.                             *)
(***************************************************************************)
EXTENDS Naturals, SequencesExt

CONSTANTS Stored,       \* stored names, as [schema, table]; Bare stands for no schema
          Bare,
          MainSchema,
          Column,       \* column definitions, by name
          MaxColumns,   \* bound: columns of a table
          MaxOrdinal    \* bound: ordinals of tracked columns

ASSUME NamesAreQualified == \A s \in Stored : DOMAIN s = {"schema", "table"}
ASSUME BoundsArePositive == {MaxColumns, MaxOrdinal} \subseteq Nat \ {0}

VARIABLES
    tables,     \* sqlite_master: the columns of every table, in order
    tracked,    \* __dq_table_columns, with its key (table, name)
    versions,   \* names with a row in __dq_table_versions, its key
    declared,   \* tables made by CREATE TABLE (columns) and altered as they are spelled
    answer      \* of the last statement

vars == <<tables, tracked, versions, declared, answer>>

Columns == {columns \in UNION {[1..n -> Column] : n \in 1..MaxColumns} :
               \A i, j \in DOMAIN columns : columns[i] = columns[j] => i = j}

TrackedColumn == [table : Stored, name : Column, ordinal : 0..MaxOrdinal]

Init ==
    /\ tables = <<>>
    /\ tracked = {}
    /\ versions = {}
    /\ declared = {}
    /\ answer = "ok"

-----------------------------------------------------------------------------
(* What is read of the record                                              *)

TableExists(s) == s \in DOMAIN tables

TrackedOf(s) == {row \in tracked : row.table = s}

ColumnExists(s, c) == \E row \in TrackedOf(s) : row.name = c

\* Mistaken: as many columns as there are.
CountedOrdinal(s) == Cardinality(TrackedOf(s))

NextColumnOrdinal(s) ==
    IF TrackedOf(s) = {} THEN 0 ELSE Max({row.ordinal : row \in TrackedOf(s)}) + 1

\* getColumns, in the order of the ordinals: what CREATE TABLE says in the answer to
\* duckdb_tables(), and the columns an APPEND_REQUEST fills from left to right.
GetColumns(s) ==
    [i \in 1..Cardinality(TrackedOf(s)) |->
        {row.name : row \in {r \in TrackedOf(s) :
            Cardinality({q \in TrackedOf(s) : q.ordinal < r.ordinal}) = i - 1}}]

\* splitStoredTableName
Identity(s) == [s EXCEPT !.schema = IF @ = Bare THEN MainSchema ELSE @]

\* The table an identity has in authorizationSchema: main.t and t are one.
AuthorizationColumns(id) == {row.name : row \in {r \in tracked : Identity(r.table) = id}}

-----------------------------------------------------------------------------
(* Statements                                                              *)

Answered(a) ==
    /\ answer' = a
    /\ UNCHANGED <<tables, tracked, versions, declared>>

WithTable(s, columns) ==
    [t \in DOMAIN tables \cup {s} |-> IF t = s THEN columns ELSE tables[t]]

CreateTable(s, columns) ==
    /\ ~TableExists(s)
    /\ tables' = WithTable(s, columns)
    /\ tracked' = (tracked \ TrackedOf(s))
            \cup {[table |-> s, name |-> columns[i], ordinal |-> i - 1] : i \in DOMAIN columns}
    /\ versions' = versions \cup {s}
    /\ declared' = declared \cup {s}
    /\ answer' = "ok"

CreateExistingTable(s, ifNotExists) ==
    /\ TableExists(s)
    /\ Answered(IF ifNotExists THEN "ok" ELSE "error")

\* CREATE TABLE ... AS goes to SQLite: nothing is recorded.
CreateTableAs(s, columns) ==
    /\ ~TableExists(s)
    /\ s.schema = Bare
    /\ tables' = WithTable(s, columns)
    /\ answer' = "ok"
    /\ UNCHANGED <<tracked, versions, declared>>

\* DROP TABLE goes to SQLite: what was recorded stays, and a version is recorded
\* for the name even if it had none.
DropTable(s) ==
    /\ TableExists(s)
    /\ tables' = Restrict(tables, DOMAIN tables \ {s})
    /\ versions' = versions \cup {s}
    /\ declared' = declared \ {s}
    /\ answer' = "ok"
    /\ UNCHANGED tracked

DropMissingTable(s, ifExists) ==
    /\ ~TableExists(s)
    /\ answer' = IF ifExists THEN "ok" ELSE "error"
    /\ versions' = IF ifExists /\ s.schema = Bare THEN versions \cup {s} ELSE versions
    /\ UNCHANGED <<tables, tracked, declared>>

\* ALTER TABLE [IF EXISTS] on a name that is not there.
AlterMissingTable(s, ifExists) ==
    /\ ~TableExists(s)
    /\ Answered(IF ifExists THEN "ok" ELSE "error")

RenameTables(s, d) ==
    [t \in (DOMAIN tables \ {s}) \cup {d} |-> IF t = d THEN tables[s] ELSE tables[t]]

Moved(s, d) == (tracked \ TrackedOf(s)) \cup {[row EXCEPT !.table = d] : row \in TrackedOf(s)}

\* The keys the two UPDATEs of a rename can collide with: what a table of the new
\* name left behind.
ColumnsCollide(s, d) == \E row \in TrackedOf(s) : ColumnExists(d, row.name)
VersionsCollide(s, d) == {s, d} \subseteq versions

\* Mistaken: the record is moved first.
RenameRecordFirst(s, d) ==
    /\ TableExists(s)
    /\ s # d /\ s.schema = d.schema
    /\ tracked' = IF ColumnsCollide(s, d) THEN tracked ELSE Moved(s, d)
    /\ IF TableExists(d) \/ ColumnsCollide(s, d)
       THEN answer' = "error" /\ UNCHANGED <<tables, versions, declared>>
       ELSE /\ tables' = RenameTables(s, d)
            /\ declared' = (declared \ {s}) \cup IF s \in declared THEN {d} ELSE {}
            /\ versions' = (versions \ {s}) \cup {d}
            /\ answer' = "ok"

\* The table is renamed in SQLite, then its columns and its version in the record:
\* either UPDATE can throw, and what came before it stays.
RenameTable(s, d) ==
    /\ TableExists(s)
    /\ s # d /\ s.schema = d.schema
    /\ IF TableExists(d) THEN Answered("error")
       ELSE /\ tables' = RenameTables(s, d)
            /\ tracked' = IF ColumnsCollide(s, d) THEN tracked ELSE Moved(s, d)
            /\ versions' = IF ColumnsCollide(s, d) \/ VersionsCollide(s, d) THEN versions
                           ELSE (versions \ {s}) \cup {d}
            /\ declared' = (declared \ {s})
                           \cup IF s \in declared /\ TrackedOf(d) = {} THEN {d} ELSE {}
            /\ answer' = IF ColumnsCollide(s, d) \/ VersionsCollide(s, d) THEN "error" ELSE "ok"

\* The name is spelled otherwise: SQLite renames the table, nothing is recorded.
RenameTableUnrecorded(s, d) ==
    /\ TableExists(s)
    /\ s # d /\ s.schema = d.schema /\ s.schema = Bare
    /\ IF TableExists(d) THEN Answered("error")
       ELSE /\ tables' = RenameTables(s, d)
            /\ declared' = declared \ {s}
            /\ answer' = "ok"
            /\ UNCHANGED <<tracked, versions>>

\* ADD COLUMN.  Whether the column is there is looked up in the record; SQLite
\* refuses one its table has.
AddColumn(s, c) ==
    /\ TableExists(s)
    /\ ~ColumnExists(s, c)
    /\ IF c \in Range(tables[s]) THEN Answered("error")
       ELSE /\ Len(tables[s]) < MaxColumns
            /\ NextColumnOrdinal(s) <= MaxOrdinal
            /\ tables' = [tables EXCEPT ![s] = Append(@, c)]
            /\ tracked' = tracked \cup
                   {[table |-> s, name |-> c, ordinal |-> NextColumnOrdinal(s)]}
            /\ versions' = versions \cup {s}
            /\ answer' = "ok"
            /\ UNCHANGED declared

AddColumnIfNotExists(s, c) ==
    /\ TableExists(s)
    /\ ColumnExists(s, c)
    /\ Answered("ok")

\* The record has the column, or the table is spelled otherwise: SQLite is asked,
\* and the version goes to the name as it is spelled.
AddColumnUnrecorded(s, c) ==
    /\ TableExists(s)
    /\ ColumnExists(s, c) \/ s.schema = Bare
    /\ IF c \in Range(tables[s]) THEN Answered("error")
       ELSE /\ Len(tables[s]) < MaxColumns
            /\ tables' = [tables EXCEPT ![s] = Append(@, c)]
            /\ \/ ColumnExists(s, c) /\ versions' = versions \cup {s}
               \/ s.schema = Bare /\ UNCHANGED versions
            /\ declared' = declared \ {s}
            /\ answer' = "ok"
            /\ UNCHANGED tracked

Without(columns, c) == RemoveAt(columns, CHOOSE i \in DOMAIN columns : columns[i] = c)

\* SQLite refuses a column its table has not, and the last one.
Droppable(s, c) == c \in Range(tables[s]) /\ Len(tables[s]) > 1

DropColumn(s, c) ==
    /\ TableExists(s)
    /\ ColumnExists(s, c)
    /\ IF ~Droppable(s, c) THEN Answered("error")
       ELSE /\ tables' = [tables EXCEPT ![s] = Without(@, c)]
            /\ tracked' = {row \in tracked : ~(row.table = s /\ row.name = c)}
            /\ versions' = versions \cup {s}
            /\ answer' = "ok"
            /\ UNCHANGED declared

\* IF EXISTS and the record has no such name, spelled so.
DropColumnIfExists(s) ==
    /\ TableExists(s)
    /\ Answered("ok")

\* The record has no such column, or a name is spelled otherwise: SQLite is asked.
DropColumnUnrecorded(s, c) ==
    /\ TableExists(s)
    /\ IF ~Droppable(s, c) THEN Answered("error")
       ELSE /\ tables' = [tables EXCEPT ![s] = Without(@, c)]
            /\ versions' = versions \cup {s} \/ (s.schema = Bare /\ UNCHANGED versions)
            /\ declared' = declared \ {s}
            /\ answer' = "ok"
            /\ UNCHANGED tracked

\* appendChunk of a chunk with n columns and at least one row.
Accepts(s, n) ==
    /\ TrackedOf(s) # {}
    /\ Cardinality(TrackedOf(s)) = n
    /\ TableExists(s)
    /\ \A row \in TrackedOf(s) : row.name \in Range(tables[s])

AppendChunk(s, n) ==
    /\ answer' = IF Accepts(s, n) THEN "ok" ELSE "error"
    /\ versions' = IF Accepts(s, n) THEN versions \cup {s} ELSE versions
    /\ UNCHANGED <<tables, tracked, declared>>

Next ==
    \E s \in Stored :
        \/ \E columns \in Columns : CreateTable(s, columns) \/ CreateTableAs(s, columns)
        \/ \E exists \in BOOLEAN :
              \/ CreateExistingTable(s, exists)
              \/ DropMissingTable(s, exists)
              \/ AlterMissingTable(s, exists)
        \/ DropTable(s)
        \/ \E d \in Stored : RenameTable(s, d) \/ RenameTableUnrecorded(s, d)
        \/ \E c \in Column :
              \/ AddColumn(s, c)
              \/ AddColumnIfNotExists(s, c)
              \/ AddColumnUnrecorded(s, c)
              \/ DropColumn(s, c)
              \/ DropColumnUnrecorded(s, c)
        \/ DropColumnIfExists(s)
        \/ \E n \in 1..MaxColumns : AppendChunk(s, n)

Spec == Init /\ [][Next]_vars

-----------------------------------------------------------------------------
(* Correctness                                                             *)

\* However a table that was made by CREATE TABLE was altered and renamed, over
\* names that other tables left behind too, the record has exactly its columns, in
\* their order: duckdb_tables() says how it was made, an APPEND of as many columns
\* is accepted, and, unless another table has its name, statements on it are
\* authorized against its columns.
RecordFollowsTheTable ==
    \A s \in declared :
        /\ GetColumns(s) = [i \in DOMAIN tables[s] |-> {tables[s][i]}]
        /\ Accepts(s, Len(tables[s]))
        /\ \/ AuthorizationColumns(Identity(s)) = Range(tables[s])
           \/ \E other \in Stored \ {s} : Identity(other) = Identity(s) /\ TrackedOf(other) # {}

\* A statement that is answered with an error changed neither the tables nor the
\* record, but for a rename to a name that another table left something behind for:
\* that one is answered with an error when the table has its new name already.
ErrorsLeaveTheSchema ==
    [][answer' = "error" =>
          \/ UNCHANGED <<tables, tracked, versions>>
          \/ \E d \in DOMAIN tables' \ DOMAIN tables : TrackedOf(d) # {} \/ d \in versions]_vars
=============================================================================
