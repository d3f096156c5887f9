--------------------------- MODULE DuckLakeClient ---------------------------
(***************************************************************************)
(* A DuckLake client that keeps its lake in a catalog object, and what it  *)
(* reads back.  The client commits snapshots by writing rows of the        *)
(* metadata tables, as the statements in test/quack-worker.test.ts do: a   *)
(* row is visible from its begin_snapshot until before its end_snapshot.   *)
(* history keeps, for every snapshot, the lake as the client knew it; the  *)
(* answers of DuckLakeMetadata are held against it.                        *)
(*                                                                         *)
(* Names and comments are told apart by the snapshot that wrote them.      *)
(***************************************************************************)
EXTENDS DuckLakeMetadata

CONSTANTS MaxSnapshot,  \* bound: snapshots the client commits
          RowsPerFile   \* bound: rows of a data file

ASSUME NullAssumption == Null \notin Nat
ASSUME BoundsAreNaturals == {MaxSnapshot, RowsPerFile} \subseteq Nat

VARIABLES relation,     \* the metadata tables, the db of DuckLakeMetadata
          stored,       \* the tables of inlined data and inlined deletes
          format,       \* the version row of ducklake_metadata
          history       \* the lake of every snapshot, from snapshot 0 on

vars == <<relation, stored, format, history>>

lake == Last(history)
now == Len(history)     \* the snapshot that is committed next

EmptyLake ==
    [next |-> 1, tables |-> <<>>, views |-> <<>>, macros |-> <<>>, versions |-> <<>>,
     files |-> <<>>, deletes |-> <<>>, inlined |-> <<>>, partitions |-> <<>>]

MetadataTables ==
    {"ducklake_table", "ducklake_column", "ducklake_tag", "ducklake_column_tag", "ducklake_view",
     "ducklake_data_file", "ducklake_delete_file", "ducklake_file_partition_value",
     "ducklake_inlined_data_tables", "ducklake_schema_versions", "ducklake_partition_column"}
MacroTables == {"ducklake_macro", "ducklake_macro_impl", "ducklake_macro_parameters"}

Put(f, x, value) == [y \in DOMAIN f \cup {x} |-> IF y = x THEN value ELSE f[y]]
Without(f, S) == [x \in DOMAIN f \ S |-> f[x]]

New(row) ==
    [field \in DOMAIN row \cup {"begin", "end"} |->
        IF field = "begin" THEN now ELSE IF field = "end" THEN Null ELSE row[field]]
Ended(rows, Gone(_)) ==
    {IF row.end = Null /\ Gone(row) THEN [row EXCEPT !.end = now] ELSE row : row \in rows}

Init ==
    /\ relation = <<>>
    /\ stored = [data |-> <<>>, deletes |-> <<>>]
    /\ format = "none"
    /\ history = <<EmptyLake>>

Commit(db, after) ==
    /\ now <= MaxSnapshot
    /\ relation' = db
    /\ history' = Append(history, after)
    /\ UNCHANGED format

\* Catalogs made before format 1.0 have no macro tables and number partition columns by
\* their position.  Their schema versions, of the whole catalog there, are of its tables here
\* from the start: the statements that give them tables go through SQLite as they are.
Bootstrap(version) ==
    /\ format = "none"
    /\ format' = version
    /\ relation' = [name \in MetadataTables \cup IF version = "1.0" THEN MacroTables ELSE {} |-> {}]
    /\ UNCHANGED <<stored, history>>

-----------------------------------------------------------------------------
(* Tables, views and macros                                                *)

Column(t, i, parent) == New([table |-> t, id |-> i, name |-> now, order |-> i, parent |-> parent])
ColumnOf(i, parent) == [id |-> i, name |-> now, parent |-> parent, tags |-> {}]
NewVersion(t) == [table |-> t, begin |-> now, version |-> now]

CreateTable ==
    /\ format # "none"
    /\ LET t == lake.next
       IN  Commit([relation EXCEPT
                       !.ducklake_table = @ \cup {New([id |-> t])},
                       !.ducklake_column = @ \cup {Column(t, 1, Null), Column(t, 2, Null)},
                       !.ducklake_schema_versions = @ \cup {NewVersion(t)}],
                  [lake EXCEPT
                       !.next = t + 1,
                       !.tables = Put(@, t, [tags |-> {},
                                             columns |-> <<ColumnOf(1, Null), ColumnOf(2, Null)>>]),
                       !.versions = Put(@, t, now),
                       !.inlined = Put(@, t, {})])
    /\ UNCHANGED stored

\* What is at the positions of I in s, in its order.
Picked(s, I) ==
    LET positions == Sorted(I, LAMBDA i, j : i < j)
    IN  [k \in DOMAIN positions |-> s[positions[k]]]

TopLevel(columns) == Picked(columns, {i \in DOMAIN columns : columns[i].parent = Null})
Nested(columns) == Picked(columns, {i \in DOMAIN columns : columns[i].parent # Null})

\* A column, or a struct with one field.
AddColumn(t, struct) ==
    /\ LET next == 1 + Max({col.id : col \in {col \in relation.ducklake_column : col.table = t}})
           added == IF struct THEN {Column(t, next, Null), Column(t, next + 1, next)}
                              ELSE {Column(t, next, Null)}
           field == IF struct THEN <<ColumnOf(next + 1, next)>> ELSE <<>>
       IN  Commit([relation EXCEPT
                       !.ducklake_column = @ \cup added,
                       !.ducklake_schema_versions = @ \cup {NewVersion(t)}],
                  [lake EXCEPT
                       !.tables[t].columns =
                           TopLevel(@) \o <<ColumnOf(next, Null)>> \o Nested(@) \o field,
                       !.versions[t] = now])
    /\ UNCHANGED stored

\* The row of the old name ends and a row with the same id begins.
RenameColumn(t, i) ==
    /\ LET id == lake.tables[t].columns[i].id
           old == CHOOSE col \in relation.ducklake_column :
                     col.table = t /\ col.id = id /\ col.end = Null
       IN  Commit([relation EXCEPT
                       !.ducklake_column = Ended(@, LAMBDA col : col = old)
                                           \cup {[old EXCEPT !.name = now, !.begin = now]},
                       !.ducklake_schema_versions = @ \cup {NewVersion(t)}],
                  [lake EXCEPT !.tables[t].columns[i].name = now, !.versions[t] = now])
    /\ UNCHANGED stored

\* Dropping a column leaves the partition of the table as it is: the table is not partitioned by
\* the column, nor, while partition columns are positions, by one after it.
StaysInPlace(t, id) ==
    \A p \in ToSet(lake.partitions[t]) : p # id /\ (format = "0.3" => p < id)

\* With its fields.
DropColumn(t, i) ==
    /\ LET columns == lake.tables[t].columns
           id == columns[i].id
           gone(col) == col.id = id \/ col.parent = id
       IN  /\ columns[i].parent = Null
           /\ Len(TopLevel(columns)) > 1
           /\ t \in DOMAIN lake.partitions => StaysInPlace(t, id)
           /\ Commit([relation EXCEPT
                          !.ducklake_column = Ended(@, LAMBDA col : col.table = t /\ gone(col)),
                          !.ducklake_schema_versions = @ \cup {NewVersion(t)}],
                     [lake EXCEPT
                          !.tables[t].columns =
                              Picked(columns, {j \in DOMAIN columns : ~gone(columns[j])}),
                          !.versions[t] = now])
    /\ UNCHANGED stored

CommentOnTable(t) ==
    /\ Commit([relation EXCEPT !.ducklake_tag =
                   Ended(@, LAMBDA tag : tag.object = t)
                   \cup {New([object |-> t, key |-> "comment", value |-> now])}],
              [lake EXCEPT !.tables[t].tags = {<<"comment", now>>}])
    /\ UNCHANGED stored

CommentOnView(v) ==
    /\ Commit([relation EXCEPT !.ducklake_tag =
                   Ended(@, LAMBDA tag : tag.object = v)
                   \cup {New([object |-> v, key |-> "comment", value |-> now])}],
              [lake EXCEPT !.views[v] = {<<"comment", now>>}])
    /\ UNCHANGED stored

CommentOnColumn(t, i) ==
    /\ LET id == lake.tables[t].columns[i].id
       IN  Commit([relation EXCEPT !.ducklake_column_tag =
                       Ended(@, LAMBDA tag : tag.table = t /\ tag.column = id)
                       \cup {New([table |-> t, column |-> id, key |-> "comment", value |-> now])}],
                  [lake EXCEPT !.tables[t].columns[i].tags = {<<"comment", now>>}])
    /\ UNCHANGED stored

CreateView ==
    /\ format # "none"
    /\ Commit([relation EXCEPT !.ducklake_view = @ \cup {New([id |-> lake.next])}],
              [lake EXCEPT !.next = @ + 1, !.views = Put(@, lake.next, {})])
    /\ UNCHANGED stored

DropView(v) ==
    /\ Commit([relation EXCEPT !.ducklake_view = Ended(@, LAMBDA view : view.id = v),
                               !.ducklake_tag = Ended(@, LAMBDA tag : tag.object = v)],
              [lake EXCEPT !.views = Without(@, {v})])
    /\ UNCHANGED stored

\* Two implementations, of two parameters and of none.
CreateMacro ==
    /\ format = "1.0"
    /\ LET m == lake.next
           parameter(c) == [macro |-> m, impl |-> 1, column |-> c, name |-> c]
       IN  Commit([relation EXCEPT
                       !.ducklake_macro = @ \cup {New([id |-> m])},
                       !.ducklake_macro_impl = @ \cup {[macro |-> m, impl |-> i] : i \in 1..2},
                       !.ducklake_macro_parameters = @ \cup {parameter(c) : c \in 1..2}],
                  [lake EXCEPT !.next = m + 1, !.macros = Put(@, m, <<<<1, 2>>, <<>>>>)])
    /\ UNCHANGED stored

DropMacro(m) ==
    /\ Commit([relation EXCEPT !.ducklake_macro = Ended(@, LAMBDA macro : macro.id = m)],
              [lake EXCEPT !.macros = Without(@, {m})])
    /\ UNCHANGED stored

DropTable(t) ==
    /\ LET gone == {f \in DOMAIN lake.files : lake.files[f].table = t}
       IN  Commit([relation EXCEPT
                       !.ducklake_table = Ended(@, LAMBDA row : row.id = t),
                       !.ducklake_column = Ended(@, LAMBDA row : row.table = t),
                       !.ducklake_column_tag = Ended(@, LAMBDA row : row.table = t),
                       !.ducklake_data_file = Ended(@, LAMBDA row : row.table = t),
                       !.ducklake_delete_file = Ended(@, LAMBDA row : row.table = t),
                       !.ducklake_tag = Ended(@, LAMBDA row : row.object = t)],
                  [lake EXCEPT
                       !.tables = Without(@, {t}), !.versions = Without(@, {t}),
                       !.inlined = Without(@, {t}), !.partitions = Without(@, {t}),
                       !.files = Without(@, gone), !.deletes = Without(@, gone)])
    /\ UNCHANGED stored

-----------------------------------------------------------------------------
(* Files and inlined data                                                  *)

\* Ids of files, never used again.
NextFile ==
    1 + Cardinality(relation.ducklake_data_file) + Cardinality(relation.ducklake_delete_file)
DataFile(t, rows) == New([id |-> NextFile, table |-> t, size |-> 1 + Cardinality(rows), rows |-> rows])
WithFile(f, t, rows) == Put(lake.files, f, [table |-> t, rows |-> rows, size |-> 1 + Cardinality(rows)])

PartitionsOf(t) == IF t \in DOMAIN lake.partitions THEN lake.partitions[t] ELSE <<>>

\* The value of a partition key stands for the column it is of.
WriteFile(t) ==
    /\ Commit([relation EXCEPT
                   !.ducklake_data_file = @ \cup {DataFile(t, 1..RowsPerFile)},
                   !.ducklake_file_partition_value = @ \cup
                       {[file |-> NextFile, index |-> i, value |-> PartitionsOf(t)[i]] :
                           i \in DOMAIN PartitionsOf(t)}],
              [lake EXCEPT !.files = WithFile(NextFile, t, 1..RowsPerFile)])
    /\ UNCHANGED stored

\* A delete file takes the place of the one before it and has its rows too.
DeleteRows(f, R) ==
    /\ R # lake.files[f].rows
    /\ LET old == {row \in relation.ducklake_delete_file : row.file = f /\ row.end = Null}
           rows == R \cup UNION {row.rows : row \in old}
       IN  Commit([relation EXCEPT !.ducklake_delete_file =
                       Ended(@, LAMBDA row : row \in old)
                       \cup {New([id |-> NextFile, table |-> lake.files[f].table, file |-> f,
                                  size |-> Cardinality(rows), rows |-> rows])}],
                  [lake EXCEPT !.files[f].rows = @ \ R,
                               !.deletes = Put(@, f, Cardinality(rows))])
    /\ UNCHANGED stored

DeleteFile(f) ==
    /\ Commit([relation EXCEPT
                   !.ducklake_data_file = Ended(@, LAMBDA row : row.id = f),
                   !.ducklake_delete_file = Ended(@, LAMBDA row : row.file = f)],
              [lake EXCEPT !.files = Without(@, {f}), !.deletes = Without(@, {f})])
    /\ UNCHANGED stored

\* The table of inlined deletes is made when it is first needed.
InlineDelete(f, r) ==
    LET t == lake.files[f].table
    IN  /\ {r} # lake.files[f].rows
        /\ stored' = [stored EXCEPT !.deletes =
               Put(@, t, InlinedDeletes(stored, t) \cup {[file |-> f, row |-> r, begin |-> now]})]
        /\ Commit(relation, [lake EXCEPT !.files[f].rows = @ \ {r}])

\* Rows are inlined in the table of the current schema version.
InlineInsert(t) ==
    LET at == <<t, lake.versions[t]>>
        rows == IF at \in DOMAIN stored.data THEN stored.data[at] ELSE {}
    IN  /\ stored' = [stored EXCEPT !.data = Put(@, at, rows \cup {now})]
        /\ Commit([relation EXCEPT !.ducklake_inlined_data_tables =
                       @ \cup {[table |-> t, version |-> lake.versions[t]]}],
                  [lake EXCEPT !.inlined[t] = @ \cup {now}])

\* The rows of one inlined table become a data file.
Flush(t, at) ==
    /\ at[1] = t
    /\ stored.data[at] # {}
    /\ stored' = [stored EXCEPT !.data[at] = {}]
    /\ Commit([relation EXCEPT !.ducklake_data_file = @ \cup {DataFile(t, stored.data[at])}],
              [lake EXCEPT !.files = WithFile(NextFile, t, stored.data[at]),
                           !.inlined[t] = @ \ stored.data[at]])

\* The cleanup the client does with the answer, without a snapshot.
DropSuperseded ==
    LET superseded == DuckLakeEmptySupersededInlinedTables(relation, stored)
    IN  /\ superseded # {}
        /\ relation' = [relation EXCEPT !.ducklake_inlined_data_tables = @ \ superseded]
        /\ stored' = [stored EXCEPT !.data =
                         Without(@, {<<row.table, row.version>> : row \in superseded})]
        /\ UNCHANGED <<format, history>>

PositionOf(t, column) ==
    SelectInSeq(TopLevel(lake.tables[t].columns), LAMBDA col : col.id = column) - 1

SetPartition(t, columns) ==
    /\ t \notin DOMAIN lake.partitions
    /\ Commit([relation EXCEPT !.ducklake_partition_column = @ \cup
                   {[table |-> t, index |-> i,
                     column |-> IF format = "0.3" THEN PositionOf(t, columns[i]) ELSE columns[i]] :
                        i \in DOMAIN columns}],
              [lake EXCEPT !.partitions = Put(@, t, columns)])
    /\ UNCHANGED stored

Migrate ==
    /\ format = "0.3"
    /\ format' = "1.0"
    /\ relation' = [name \in MetadataTables \cup MacroTables |->
                       IF name \in MacroTables THEN {} ELSE DuckLakeMetadataMutation(relation)[name]]
    /\ UNCHANGED <<stored, history>>

-----------------------------------------------------------------------------

Next ==
    \/ \E version \in {"0.3", "1.0"} : Bootstrap(version)
    \/ CreateTable \/ CreateView \/ CreateMacro \/ Migrate \/ DropSuperseded
    \/ \E v \in DOMAIN lake.views : CommentOnView(v) \/ DropView(v)
    \/ \E m \in DOMAIN lake.macros : DropMacro(m)
    \/ \E t \in DOMAIN lake.tables :
          \/ DropTable(t) \/ CommentOnTable(t) \/ WriteFile(t) \/ InlineInsert(t)
          \/ \E struct \in BOOLEAN : AddColumn(t, struct)
          \/ \E i \in DOMAIN lake.tables[t].columns :
                RenameColumn(t, i) \/ DropColumn(t, i) \/ CommentOnColumn(t, i)
          \/ \E i, j \in {col.id : col \in ToSet(TopLevel(lake.tables[t].columns))} :
                SetPartition(t, IF i = j THEN <<i>> ELSE <<i, j>>)
          \/ \E at \in DOMAIN stored.data : Flush(t, at)
    \/ \E f \in DOMAIN lake.files :
          \/ DeleteFile(f)
          \/ \E R \in (SUBSET lake.files[f].rows) \ {{}} : DeleteRows(f, R)
          \/ \E r \in lake.files[f].rows : InlineDelete(f, r)

Spec == Init /\ [][Next]_vars

-----------------------------------------------------------------------------
(* Correctness                                                             *)

Snapshots == 0 .. now - 1
At(s) == history[s + 1]

Stats(sizes) == [count |-> Cardinality(DOMAIN sizes),
                 total |-> IF DOMAIN sizes = {} THEN Null ELSE SumFunction(sizes)]
SizesOf(was, t) ==
    [f \in {f \in DOMAIN was.files : was.files[f].table = t} |-> was.files[f].size]
DeleteSizesOf(was, t) ==
    [f \in {f \in DOMAIN was.deletes : was.files[f].table = t} |-> was.deletes[f]]

TablesReadBack(s) ==
    {<<info.id, info.tags, info.columns>> : info \in DuckLakeTableInfo(relation, s)}
        = {<<t, At(s).tables[t].tags, At(s).tables[t].columns>> : t \in DOMAIN At(s).tables}
ViewsReadBack(s) ==
    {<<info.id, info.tags>> : info \in DuckLakeViewInfo(relation, s)}
        = {<<v, At(s).views[v]>> : v \in DOMAIN At(s).views}
MacrosReadBack(s) ==
    {<<info.id, info.impl>> : info \in DuckLakeMacroInfo(relation, s)}
        = {<<m, At(s).macros[m]>> : m \in DOMAIN At(s).macros}
SizesReadBack(s) ==
    {<<size.id, size.data, size.delete>> : size \in DuckLakeTableSizes(relation, s)}
        = {<<t, Stats(SizesOf(At(s), t)), Stats(DeleteSizesOf(At(s), t))>> :
              t \in DOMAIN At(s).tables}

\* A snapshot reads back as the lake the client committed, after any later changes to the
\* rows that describe it: its tables with their columns in order and their comments, views,
\* macros, and the number and sizes of the live files (duckLakeTableInfo and the queries
\* beside it, for AT (VERSION => s)).
EverySnapshotReadsBack ==
    \A s \in Snapshots :
        TablesReadBack(s) /\ ViewsReadBack(s) /\ MacrosReadBack(s) /\ SizesReadBack(s)

RowsOf(files) == UNION {{<<f, r>> : r \in files[f].rows} : f \in DOMAIN files}
FilesOf(was, t) == [f \in {f \in DOMAIN was.files : was.files[f].table = t} |-> was.files[f]]
DeletedIn(t, s) == RowsOf(FilesOf(At(s - 1), t)) \ RowsOf(FilesOf(At(s), t))

\* What the client makes of a row of the answer: the rows of the delete file, or of the whole
\* file, without those of the delete file before and those that were deleted inline.
RowsReported(row, t) ==
    LET deleted == IF row.current = {} THEN row.file.rows ELSE UNION {d.rows : d \in row.current}
        before == UNION {d.rows : d \in row.previous}
        inlined == {del.row : del \in {del \in InlinedDeletes(stored, t) :
                                          del.file = row.file.id /\ del.begin < row.begin}}
    IN  {<<row.file.id, r>> : r \in (deleted \ before) \ inlined}

\* The deletions of a range of snapshots are exactly the rows that left the table in one of
\* them, by delete files that replace each other, by the end of a file, or inlined: none is
\* missing and none of an earlier snapshot is told again (duckLakeTableDeletions).
DeletionsAreReported ==
    format # "none" =>
        \A t \in 1 .. lake.next - 1, start \in Snapshots \ {0}, end \in Snapshots \ {0} :
            start <= end =>
                (UNION {RowsReported(row, t) :
                           row \in DuckLakeTableDeletions(relation, t, start, end)})
                \cup {<<del.file, del.row>> : del \in {del \in InlinedDeletes(stored, t) :
                                                         del.begin \in start..end}}
                    = UNION {DeletedIn(t, s) : s \in start..end}

\* The columns by which a file of table t that was written in snapshot s is partitioned: those
\* of the table then, and none for a flush of inlined rows, which the table has fewer of since.
WrittenBy(t, s) ==
    IF t \in DOMAIN At(s).partitions /\ At(s).inlined[t] = At(s - 1).inlined[t]
    THEN At(s).partitions[t] ELSE <<>>

\* Compaction sees the live files of a table and no other, each in one row for each of its
\* delete files or in one without: with the schema version the table had when the file was
\* written, however often it changed since, and the keys it was written with, in their order.
\* So files of two schemas, or with and without a partition, are not merged.
CompactionSeesTheSchemaOfTheWriter ==
    format # "none" =>
        \A t \in DOMAIN lake.tables :
            LET rows == DuckLakeFilesForCompaction(relation, t, [live |-> TRUE, min |-> Null, max |-> Null])
                deletes(f) == {d \in relation.ducklake_delete_file : d.file = f.id}
            IN  /\ {row.file : row \in rows} = DOMAIN FilesOf(lake, t)
                /\ \A f \in relation.ducklake_data_file :
                      f.id \in DOMAIN FilesOf(lake, t) =>
                          {row \in rows : row.file = f.id} =
                              {[file |-> f.id, delete |-> d, version |-> At(f.begin).versions[t],
                                keys |-> WrittenBy(t, f.begin)] :
                                  d \in IF deletes(f) = {} THEN {Null} ELSE deletes(f)}

\* No cleanup takes inlined rows away, or the table the next insert writes to: the inlined
\* tables that a table lists exist and hold exactly the rows inlined since the last flush.
InlinedDataStaysReachable ==
    \A info \in DuckLakeTableInfo(relation, now - 1) :
        /\ \A version \in info.inlined : <<info.id, version>> \in DOMAIN stored.data
        /\ UNION {stored.data[<<info.id, version>>] : version \in info.inlined}
               = lake.inlined[info.id]
        /\ \A at \in DOMAIN stored.data :
              at[1] = info.id /\ at[2] = lake.versions[info.id] => at[2] \in info.inlined

\* After the migration, and the columns added before it, a partition column is the column
\* that its position meant.
MigrationKeepsPartitions ==
    format = "1.0" =>
        \A t \in DOMAIN lake.partitions :
            {<<row.index, row.column>> : row \in {row \in relation.ducklake_partition_column :
                                                     row.table = t}}
                = {<<i, lake.partitions[t][i]>> : i \in DOMAIN lake.partitions[t]}
=============================================================================
