-------------------------- MODULE DuckLakeMetadata --------------------------
(***************************************************************************)
(* The metadata statements of the DuckLake client that SQLite cannot run,  *)
(* as DuckLakeMetadataCompat (ducklake-metadata.ts) answers them.          *)
(*                                                                         *)
(* db is the part of the catalog object's database that DuckLake manages:  *)
(* a function from the metadata tables that exist to their rows.  stored   *)
(* holds the tables the client makes for inlined data, stored.data by the  *)
(* id of the table and the schema version, and for inlined deletes,        *)
(* stored.deletes by the id of the table.                                  *)
(***************************************************************************)
EXTENDS Naturals, FiniteSetsExt, SequencesExt

CONSTANT Null       \* NULL of SQL

TableExists(db, name) == name \in DOMAIN db
Rows(db, name) == IF TableExists(db, name) THEN db[name] ELSE {}

\* Mistaken: a row is still there in the snapshot that ended it.
VisibleUntilEnd(row, s) == s >= row.begin /\ (row.end = Null \/ s <= row.end)

\* ? >= begin_snapshot AND (? < end_snapshot OR end_snapshot IS NULL)
Visible(row, s) == s >= row.begin /\ (row.end = Null \/ s < row.end)

VisibleRows(db, name, s) == {row \in Rows(db, name) : Visible(row, s)}

\* ORDER BY: the rows that have no two equal in the order.
Sorted(R, Precedes(_, _)) ==
    [i \in 1..Cardinality(R) |->
        CHOOSE row \in R : Cardinality({other \in R : Precedes(other, row)}) = i - 1]

\* ORDER BY begin_snapshot DESC LIMIT 1: no row, or the one of R with the greatest.
Latest(R) ==
    IF R = {} THEN {} ELSE {CHOOSE row \in R : \A other \in R : other.begin <= row.begin}

-----------------------------------------------------------------------------
(* Tables, views, macros                                                   *)

\* The tags of an object: the list is NULL, here empty, where there are none.
DuckLakeTags(db, object, s) ==
    {<<row.key, row.value>> : row \in {row \in VisibleRows(db, "ducklake_tag", s) :
                                          row.object = object}}
DuckLakeColumnTags(db, table, column, s) ==
    {<<row.key, row.value>> : row \in {row \in VisibleRows(db, "ducklake_column_tag", s) :
                                          row.table = table /\ row.column = column}}

\* ORDER BY parent_column IS NOT NULL, parent_column, column_order
ColumnBefore(col, other) ==
    \/ col.parent = other.parent /\ col.order < other.order
    \/ col.parent = Null /\ other.parent # Null
    \/ col.parent # Null /\ other.parent # Null /\ col.parent < other.parent

InlinedDataTables(db, table) ==
    {row.version : row \in {row \in Rows(db, "ducklake_inlined_data_tables") : row.table = table}}

DescribeColumn(db, col, s) ==
    [id |-> col.id, name |-> col.name, parent |-> col.parent,
     tags |-> DuckLakeColumnTags(db, col.table, col.id, s)]

\* One row for every column; LEFT JOIN keeps a table without any, but the WHERE drops one
\* whose columns are all of other snapshots.
DuckLakeTableInfo(db, s) ==
    IF ~ (TableExists(db, "ducklake_table") /\ TableExists(db, "ducklake_column")) THEN {}
    ELSE LET columns(t) == {col \in db.ducklake_column : col.table = t.id}
             visible(t) == {col \in columns(t) : Visible(col, s)}
             sorted(t) == Sorted(visible(t), ColumnBefore)
         IN  {[id      |-> t.id,
               tags    |-> DuckLakeTags(db, t.id, s),
               inlined |-> InlinedDataTables(db, t.id),
               columns |-> [i \in 1..Cardinality(visible(t)) |->
                               DescribeColumn(db, sorted(t)[i], s)]] :
              t \in {t \in VisibleRows(db, "ducklake_table", s) :
                        visible(t) # {} \/ columns(t) = {}}}

DuckLakeViewInfo(db, s) ==
    {[id |-> view.id, tags |-> DuckLakeTags(db, view.id, s)] :
        view \in VisibleRows(db, "ducklake_view", s)}

DuckLakeMacroParameters(db, impl) ==
    LET rows == {row \in Rows(db, "ducklake_macro_parameters") :
                    row.macro = impl.macro /\ row.impl = impl.impl}
        sorted == Sorted(rows, LAMBDA row, other : row.column < other.column)
    IN  [i \in DOMAIN sorted |-> sorted[i].name]

DuckLakeMacroImplementations(db, macro) ==
    LET rows == {row \in Rows(db, "ducklake_macro_impl") : row.macro = macro}
        sorted == Sorted(rows, LAMBDA row, other : row.impl < other.impl)
    IN  [i \in DOMAIN sorted |-> DuckLakeMacroParameters(db, sorted[i])]

DuckLakeMacroInfo(db, s) ==
    {[id |-> macro.id, impl |-> DuckLakeMacroImplementations(db, macro.id)] :
        macro \in VisibleRows(db, "ducklake_macro", s)}

-----------------------------------------------------------------------------
(* Files                                                                   *)

\* COUNT(*) and SUM(file_size_bytes), which is NULL for no rows.
FileStatsForTable(db, name, table, s) ==
    LET files == {file \in VisibleRows(db, name, s) : file.table = table}
    IN  [count |-> Cardinality(files),
         total |-> IF files = {} THEN Null ELSE MapThenSumSet(LAMBDA file : file.size, files)]

DuckLakeTableSizes(db, s) ==
    {[id   |-> table.id,
      data |-> FileStatsForTable(db, "ducklake_data_file", table.id, s),
      delete |-> FileStatsForTable(db, "ducklake_delete_file", table.id, s)] :
        table \in VisibleRows(db, "ducklake_table", s)}

\* Mistaken: the delete file of the first snapshot itself counts as one before it.
PreviousDeleteUpTo(db, table, file, before) ==
    Latest({row \in Rows(db, "ducklake_delete_file") :
               row.table = table /\ row.file = file /\ row.begin <= before})

LatestPreviousDelete(db, table, file, before) ==
    Latest({row \in Rows(db, "ducklake_delete_file") :
               row.table = table /\ row.file = file /\ row.begin < before})

\* A data file with its current and its previous delete file, where it has one.
DuckLakeDeletionRow(dataFile, current, previous, begin) ==
    [file |-> dataFile, current |-> current, previous |-> previous, begin |-> begin]

\* The delete files written up to the last snapshot, each with the one before the first, and
\* the data files that ended in between, each with its last delete file.
DuckLakeTableDeletions(db, table, start, end) ==
    LET dataFiles == {file \in Rows(db, "ducklake_data_file") : file.table = table}
        currentDeletes == {row \in Rows(db, "ducklake_delete_file") :
                              row.table = table /\ row.begin <= end}
        fullyDeleted == {file \in dataFiles :
                            file.end # Null /\ file.end >= start /\ file.end <= end}
    IN  IF ~ (TableExists(db, "ducklake_data_file") /\ TableExists(db, "ducklake_delete_file"))
        THEN {}
        ELSE {DuckLakeDeletionRow(fc[1], {fc[2]},
                                  LatestPreviousDelete(db, table, fc[1].id, start), fc[2].begin) :
                 fc \in {fc \in dataFiles \X currentDeletes : fc[1].id = fc[2].file}}
             \cup
             {DuckLakeDeletionRow(file, {}, LatestPreviousDelete(db, table, file.id, file.end),
                                  file.end) : file \in fullyDeleted}

\* Mistaken: the version of the table now, not when the file was written.
SchemaVersionOfTable(db, table, begin) ==
    LET latest == Latest({row \in Rows(db, "ducklake_schema_versions") : row.table = table})
    IN  IF latest = {} THEN Null ELSE (CHOOSE row \in latest : TRUE).version

SchemaVersionForDataFile(db, table, begin) ==
    LET latest == Latest({row \in Rows(db, "ducklake_schema_versions") :
                             row.table = table /\ row.begin <= begin})
    IN  IF latest = {} THEN Null ELSE (CHOOSE row \in latest : TRUE).version

\* The keys by partition_key_index; the list is NULL, here empty, where there are none.
PartitionValuesForDataFile(db, file) ==
    LET rows == {row \in Rows(db, "ducklake_file_partition_value") : row.file = file}
        sorted == Sorted(rows, LAMBDA row, other : row.index < other.index)
    IN  [i \in DOMAIN sorted |-> sorted[i].value]

DuckLakeCompactionRow(db, table, dataFile, delete) ==
    [file |-> dataFile.id, delete |-> delete,
     version |-> SchemaVersionForDataFile(db, table, dataFile.begin),
     keys |-> PartitionValuesForDataFile(db, dataFile.id)]

\* limits tells which of the three conditions on data files the statement has.
DuckLakeFilesForCompaction(db, table, limits) ==
    LET files == {file \in Rows(db, "ducklake_data_file") :
                     /\ file.table = table
                     /\ limits.live => file.end = Null
                     /\ limits.min # Null => file.size >= limits.min
                     /\ limits.max # Null => file.size < limits.max}
        deletes(file) == {row \in Rows(db, "ducklake_delete_file") :
                             row.table = table /\ row.file = file.id}
    IN  UNION {{DuckLakeCompactionRow(db, table, file, delete) :
                   delete \in IF deletes(file) = {} THEN {Null} ELSE deletes(file)} :
               file \in files}

-----------------------------------------------------------------------------
(* Inlined data                                                            *)

\* Mistaken: rows that are still there do not keep a table.
SupersededInlinedTables(db, stored) ==
    {row \in Rows(db, "ducklake_inlined_data_tables") :
        /\ \E newer \in db.ducklake_inlined_data_tables :
              newer.table = row.table /\ row.version < newer.version
        /\ <<row.table, row.version>> \in DOMAIN stored.data}

DuckLakeEmptySupersededInlinedTables(db, stored) ==
    {row \in Rows(db, "ducklake_inlined_data_tables") :
        /\ \E newer \in db.ducklake_inlined_data_tables :
              newer.table = row.table /\ row.version < newer.version
        /\ <<row.table, row.version>> \in DOMAIN stored.data
        /\ stored.data[<<row.table, row.version>>] = {}}

\* A statement on ducklake_inlined_delete_<table> before that table is made has no rows;
\* SQLite answers it afterwards.
InlinedDeletes(stored, table) ==
    IF table \in DOMAIN stored.deletes THEN stored.deletes[table] ELSE {}

-----------------------------------------------------------------------------
(* The migration of ducklake_partition_column from positions to column ids *)

LiveTopLevelColumns(db, table) ==
    {col \in db.ducklake_column : col.table = table /\ col.parent = Null /\ col.end = Null}

\* Mistaken: the columns are counted up to the one before.
ColumnAfter(db, table, position) ==
    LET live == LiveTopLevelColumns(db, table)
        found == {col \in live :
                     Cardinality({earlier \in live : earlier.order <= col.order}) = position}
    IN  IF found = {} THEN Null
        ELSE (CHOOSE col \in found : \A other \in found : col.order <= other.order).id

\* LIST(column_id ORDER BY column_order)[position + 1], by counting the columns before.
ColumnAt(db, table, position) ==
    LET live == LiveTopLevelColumns(db, table)
        found == {col \in live :
                     Cardinality({earlier \in live : earlier.order <= col.order}) = position + 1}
    IN  IF found = {} THEN Null
        ELSE (CHOOSE col \in found : \A other \in found : col.order <= other.order).id

\* Where one of the tables is missing the statement is left to SQLite, which rejects it.
DuckLakeMetadataMutation(db) ==
    [db EXCEPT !.ducklake_partition_column =
        {[row EXCEPT !.column = ColumnAt(db, row.table, row.column)] : row \in @}]
=============================================================================
