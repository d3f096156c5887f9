----------------------- MODULE DuckLakeClient_proofs -------------------------
(***************************************************************************)
(* What holds of a lake for any number of snapshots and tables: of the     *)
(* rows that are inlined, of the files and the delete files, and of the    *)
(* rows that a snapshot reads back, with the answers the registry gives    *)
(* about them.                                                             *)
(***************************************************************************)
EXTENDS DuckLakeClient, TLAPS, FiniteSetTheorems, WellFoundedInduction

-----------------------------------------------------------------------------
(* The invariant                                                           *)

LakeFields ==
    {"next", "tables", "views", "macros", "versions", "files", "deletes", "inlined", "partitions"}

Listed == relation.ducklake_inlined_data_tables

\* A table of the lake has its list of inlined rows, and an id below the next one.
LakeInv ==
    /\ history \in Seq({history[i] : i \in 1 .. Len(history)})
    /\ Len(history) >= 1
    /\ DOMAIN lake = LakeFields
    /\ lake.next \in Nat
    /\ DOMAIN lake.inlined = DOMAIN lake.tables
    /\ \A t \in DOMAIN lake.tables : t \in Nat /\ t < lake.next

\* A row of ducklake_table is of a table of the lake until it ends, before the next snapshot.
TableRowsInv ==
    /\ {"ducklake_table", "ducklake_inlined_data_tables"} \subseteq DOMAIN relation
    /\ \A row \in relation.ducklake_table :
          /\ {"id", "begin", "end"} \subseteq DOMAIN row
          /\ row.end = Null => row.id \in DOMAIN lake.tables
          /\ row.end # Null => row.end \in Nat /\ row.end < now

\* The inlined tables that are listed are those that exist.  No row is in two of them, so
\* that a flush takes no other's rows, and what a table's have together the lake knows.
InlinedInv ==
    /\ \A x \in Listed :
          x = [table |-> x.table, version |-> x.version] /\ x.table \in Nat /\ x.table < lake.next
    /\ DOMAIN stored.data = {<<x.table, x.version>> : x \in Listed}
    /\ \A at \in DOMAIN stored.data : stored.data[at] \subseteq 0 .. now - 1
    /\ \A at, other \in DOMAIN stored.data :
          at # other => stored.data[at] \cap stored.data[other] = {}
    /\ \A t \in DOMAIN lake.tables :
          lake.inlined[t] = {r \in 0 .. now - 1 : \E at \in DOMAIN stored.data :
                                                    at[1] = t /\ r \in stored.data[at]}

IInv ==
    /\ LakeInv
    /\ DOMAIN stored = {"data", "deletes"}
    /\ format = "none" => stored.data = <<>> /\ lake = EmptyLake /\ relation = <<>>
    /\ format # "none" => TableRowsInv /\ InlinedInv

-----------------------------------------------------------------------------
(* Steps                                                                   *)

\* NULL is not a snapshot.
LEMMA NullIsNoNumber == Null \notin Nat
  BY NullAssumption

\* A snapshot is added to the history, and is the lake from then on.
LEMMA SnapshotAdded ==
    ASSUME LakeInv, NEW after, history' = Append(history, after)
    PROVE  /\ lake' = after
           /\ now \in Nat /\ now' = now + 1
           /\ history' \in Seq({history'[i] : i \in 1 .. Len(history')})
           /\ Len(history') >= 1
  <1> DEFINE S == {history[i] : i \in 1 .. Len(history)}
             T == S \cup {after}
  <1> HIDE DEF T
  <1>1. QED
    BY DEF LakeInv, lake, Last, now

\* A snapshot that is about something else.
LakeKept(after) ==
    /\ DOMAIN after = LakeFields
    /\ after.next \in Nat /\ after.next >= lake.next
    /\ DOMAIN after.tables = DOMAIN lake.tables
    /\ after.inlined = lake.inlined

Elsewhere ==
    /\ format # "none" /\ UNCHANGED format
    /\ DOMAIN stored' = DOMAIN stored /\ stored'.data = stored.data
    /\ DOMAIN relation' = DOMAIN relation
    /\ relation'.ducklake_table = relation.ducklake_table
    /\ Listed' = Listed
    /\ \E after : history' = Append(history, after) /\ LakeKept(after)

\* Tables that were there keep their inlined rows, and a new one has none.
LEMMA InlinedKept ==
    ASSUME IInv, format # "none", now \in Nat, now' = now + 1,
           Listed' = Listed, stored'.data = stored.data,
           lake'.next \in Nat, lake'.next >= lake.next,
           \A t \in DOMAIN lake'.tables :
              \/ t \in DOMAIN lake.tables /\ lake'.inlined[t] = lake.inlined[t]
              \/ t = lake.next /\ lake'.inlined[t] = {}
    PROVE  InlinedInv'
  <1>1. InlinedInv /\ lake.next \in Nat
    BY DEF IInv, LakeInv
  <1>2. ASSUME NEW x \in Listed
        PROVE  /\ x = [table |-> x.table, version |-> x.version]
               /\ x.table \in Nat /\ x.table < lake'.next
    BY <1>1 DEF InlinedInv
  <1>3. \A at \in DOMAIN stored.data : stored.data[at] \subseteq 0 .. now' - 1
    <2>1. 0 .. now - 1 \subseteq 0 .. now' - 1
      OBVIOUS
    <2>2. QED
      BY <1>1, <2>1, Zenon DEF InlinedInv
  <1>4. DOMAIN stored'.data = {<<x.table, x.version>> : x \in Listed'}
    BY <1>1, Zenon DEF InlinedInv
  <1>5. \A at, other \in DOMAIN stored.data :
            at # other => stored.data[at] \cap stored.data[other] = {}
    BY <1>1, Zenon DEF InlinedInv
  <1>6. ASSUME NEW t \in DOMAIN lake'.tables
        PROVE  lake'.inlined[t] = {r \in 0 .. now' - 1 : \E at \in DOMAIN stored.data :
                                                           at[1] = t /\ r \in stored.data[at]}
    BY <1>1 DEF InlinedInv
  <1>7. QED
    BY <1>2, <1>3, <1>4, <1>5, <1>6 DEF InlinedInv

\* A commit of something else keeps the invariant.
LEMMA ElsewhereStep ==
    ASSUME IInv, Elsewhere
    PROVE  IInv'
  <1>1. LakeInv /\ TableRowsInv /\ DOMAIN stored = {"data", "deletes"}
    BY DEF Elsewhere, IInv
  <1>2. /\ DOMAIN lake' = LakeFields
        /\ lake'.next \in Nat /\ lake'.next >= lake.next
        /\ DOMAIN lake'.tables = DOMAIN lake.tables
        /\ lake'.inlined = lake.inlined
        /\ now \in Nat /\ now' = now + 1
        /\ history' \in Seq({history'[i] : i \in 1 .. Len(history')})
        /\ Len(history') >= 1
    BY <1>1, SnapshotAdded DEF Elsewhere, LakeKept
  <1>3. LakeInv'
    BY <1>1, <1>2 DEF LakeInv
  <1>4. QED
    BY <1>1, <1>2, <1>3, InlinedKept DEF Elsewhere, TableRowsInv, Listed, IInv

\* Nothing can be altered before the metadata tables are made.
LEMMA NothingBeforeBootstrap ==
    ASSUME IInv, format = "none"
    PROVE  /\ DOMAIN lake.tables = {} /\ DOMAIN lake.views = {} /\ DOMAIN lake.macros = {}
           /\ DOMAIN lake.files = {} /\ DOMAIN stored.data = {}
  BY DEF IInv, EmptyLake

\* The fields of the lake, and the relations of tables.
LEMMA Shapes ==
    ASSUME IInv, format # "none"
    PROVE  /\ DOMAIN lake = LakeFields /\ lake.next \in Nat
           /\ {"ducklake_table", "ducklake_inlined_data_tables"} \subseteq DOMAIN relation
           /\ DOMAIN stored = {"data", "deletes"}
  BY DEF IInv, LakeInv, TableRowsInv

\* Changes of a table's columns, comments, files and partitions are something else.
LEMMA ColumnsAreElsewhere ==
    ASSUME IInv, format # "none", NEW t \in DOMAIN lake.tables
    PROVE  /\ \A struct : AddColumn(t, struct) => Elsewhere
           /\ \A i : RenameColumn(t, i) \/ DropColumn(t, i) \/ CommentOnColumn(t, i) => Elsewhere
           /\ CommentOnTable(t) \/ WriteFile(t) => Elsewhere
           /\ \A columns : SetPartition(t, columns) => Elsewhere
  <1> USE Shapes DEF Commit, LakeFields
  <1>1. ASSUME NEW struct, AddColumn(t, struct)
        PROVE  Elsewhere
    <2>1. PICK columns : history' = Append(history, [lake EXCEPT !.tables[t].columns = columns,
                                                                !.versions[t] = now])
      BY <1>1 DEF AddColumn
    <2>2. LakeKept([lake EXCEPT !.tables[t].columns = columns, !.versions[t] = now])
      BY DEF LakeKept
    <2>3. QED
      BY <1>1, <2>1, <2>2 DEF AddColumn, Elsewhere, Listed
  <1>2. ASSUME NEW i, RenameColumn(t, i)
        PROVE  Elsewhere
    <2> DEFINE after == [lake EXCEPT !.tables[t].columns[i].name = now, !.versions[t] = now]
    <2>1. LakeKept(after)
      BY DEF LakeKept
    <2>2. QED
      BY <1>2, <2>1 DEF RenameColumn, Elsewhere, Listed
  <1>3. ASSUME NEW i, DropColumn(t, i)
        PROVE  Elsewhere
    <2>1. PICK columns : history' = Append(history, [lake EXCEPT !.tables[t].columns = columns,
                                                                !.versions[t] = now])
      BY <1>3 DEF DropColumn
    <2>2. LakeKept([lake EXCEPT !.tables[t].columns = columns, !.versions[t] = now])
      BY DEF LakeKept
    <2>3. QED
      BY <1>3, <2>1, <2>2 DEF DropColumn, Elsewhere, Listed
  <1>4. ASSUME NEW i, CommentOnColumn(t, i)
        PROVE  Elsewhere
    BY <1>4 DEF CommentOnColumn, Elsewhere, Listed, LakeKept
  <1>5. ASSUME CommentOnTable(t)
        PROVE  Elsewhere
    <2> DEFINE after == [lake EXCEPT !.tables[t].tags = {<<"comment", now>>}]
    <2>1. QED
      BY <1>5 DEF LakeKept, CommentOnTable, Elsewhere, Listed
  <1>6. ASSUME WriteFile(t)
        PROVE  Elsewhere
    BY <1>6 DEF WriteFile, Elsewhere, Listed, LakeKept
  <1>7. ASSUME NEW columns, SetPartition(t, columns)
        PROVE  Elsewhere
    <2> DEFINE after == [lake EXCEPT !.partitions = Put(@, t, columns)]
    <2>1. QED
      BY <1>7 DEF LakeKept, SetPartition, Elsewhere, Listed
  <1>8. QED
    BY <1>1, <1>2, <1>3, <1>4, <1>5, <1>6, <1>7

\* So are those of views and macros, and the deletes.
LEMMA OthersAreElsewhere ==
    ASSUME IInv, format # "none"
    PROVE  /\ \A v \in DOMAIN lake.views : CommentOnView(v) \/ DropView(v) => Elsewhere
           /\ \A m \in DOMAIN lake.macros : DropMacro(m) => Elsewhere
           /\ CreateView \/ CreateMacro => Elsewhere
           /\ \A f \in DOMAIN lake.files : DeleteFile(f) => Elsewhere
           /\ \A f \in DOMAIN lake.files : \A R : DeleteRows(f, R) => Elsewhere
           /\ \A f \in DOMAIN lake.files : \A r : InlineDelete(f, r) => Elsewhere
  <1> USE Shapes DEF Commit, LakeFields
  <1>1. ASSUME NEW v \in DOMAIN lake.views, CommentOnView(v)
        PROVE  Elsewhere
    <2> DEFINE after == [lake EXCEPT !.views[v] = {<<"comment", now>>}]
    <2>1. LakeKept(after)
      BY DEF LakeKept
    <2>2. QED
      BY <1>1, <2>1 DEF CommentOnView, Elsewhere, Listed
  <1>2. ASSUME NEW v \in DOMAIN lake.views, DropView(v)
        PROVE  Elsewhere
    <2> DEFINE after == [lake EXCEPT !.views = Without(@, {v})]
    <2>1. LakeKept(after)
      BY DEF LakeKept
    <2>2. QED
      BY <1>2, <2>1 DEF DropView, Elsewhere, Listed
  <1>3. ASSUME NEW m \in DOMAIN lake.macros, DropMacro(m)
        PROVE  Elsewhere
    <2> DEFINE after == [lake EXCEPT !.macros = Without(@, {m})]
    <2>1. LakeKept(after)
      BY DEF LakeKept
    <2>2. QED
      BY <1>3, <2>1 DEF DropMacro, Elsewhere, Listed
  <1>4. ASSUME CreateView
        PROVE  Elsewhere
    <2> DEFINE after == [lake EXCEPT !.next = @ + 1, !.views = Put(@, lake.next, {})]
    <2>1. LakeKept(after)
      BY DEF LakeKept
    <2>2. QED
      BY <1>4, <2>1 DEF CreateView, Elsewhere, Listed
  <1>5. ASSUME CreateMacro
        PROVE  Elsewhere
    <2> DEFINE m == lake.next
               after == [lake EXCEPT !.next = m + 1,
                                     !.macros = Put(@, m, <<<<1, 2>>, <<>>>>)]
    <2>1. LakeKept(after)
      BY DEF LakeKept
    <2>2. QED
      BY <1>5, <2>1 DEF CreateMacro, Elsewhere, Listed
  <1>6. ASSUME NEW f \in DOMAIN lake.files, DeleteFile(f)
        PROVE  Elsewhere
    <2> DEFINE after == [lake EXCEPT !.files = Without(@, {f}), !.deletes = Without(@, {f})]
    <2>1. LakeKept(after)
      BY DEF LakeKept
    <2>2. QED
      BY <1>6, <2>1 DEF DeleteFile, Elsewhere, Listed
  <1>7. ASSUME NEW f \in DOMAIN lake.files, NEW R, DeleteRows(f, R)
        PROVE  Elsewhere
    <2>1. PICK n : history' = Append(history, [lake EXCEPT !.files[f].rows = @ \ R,
                                                          !.deletes = Put(@, f, n)])
      BY <1>7 DEF DeleteRows
    <2>2. LakeKept([lake EXCEPT !.files[f].rows = @ \ R, !.deletes = Put(@, f, n)])
      BY DEF LakeKept
    <2>3. QED
      BY <1>7, <2>1, <2>2 DEF DeleteRows, Elsewhere, Listed
  <1>8. ASSUME NEW f \in DOMAIN lake.files, NEW r, InlineDelete(f, r)
        PROVE  Elsewhere
    BY <1>8 DEF InlineDelete, Elsewhere, Listed, LakeKept
  <1>9. QED
    BY <1>1, <1>2, <1>3, <1>4, <1>5, <1>6, <1>7, <1>8

\* A table has the next id, which no list or table of inlined rows has.
LEMMA CreateTableStep ==
    ASSUME IInv, CreateTable
    PROVE  IInv'
  <1> DEFINE t == lake.next
             columns == <<ColumnOf(1, Null), ColumnOf(2, Null)>>
             after == [lake EXCEPT !.next = t + 1,
                                   !.tables = Put(@, t, [tags |-> {}, columns |-> columns]),
                                   !.versions = Put(@, t, now),
                                   !.inlined = Put(@, t, {})]
             row == New([id |-> t])
  <1>1. /\ format # "none" /\ format' = format /\ stored' = stored
        /\ history' = Append(history, after)
    BY DEF CreateTable, Commit
  <1>2. LakeInv /\ TableRowsInv /\ DOMAIN stored = {"data", "deletes"}
    BY <1>1 DEF IInv
  <1>3. /\ DOMAIN relation' = DOMAIN relation
        /\ relation'.ducklake_table = relation.ducklake_table \cup {row}
        /\ Listed' = Listed
    BY <1>1, <1>2 DEF CreateTable, Commit, Listed, TableRowsInv
  <1>4. /\ lake' = after
        /\ now \in Nat /\ now' = now + 1
        /\ history' \in Seq({history'[i] : i \in 1 .. Len(history')})
        /\ Len(history') >= 1
    BY <1>1, <1>2, SnapshotAdded
  <1>5. /\ DOMAIN after = LakeFields
        /\ t \in Nat /\ after.next = t + 1
        /\ DOMAIN after.tables = DOMAIN lake.tables \cup {t}
        /\ after.inlined = Put(lake.inlined, t, {})
    BY <1>2 DEF LakeInv, LakeFields, Put
  <1> HIDE DEF after
  <1>6. LakeInv'
    <2>1. \A u \in DOMAIN lake'.tables : u \in Nat /\ u < lake'.next
      BY <1>2, <1>4, <1>5 DEF LakeInv
    <2>2. QED
      BY <1>2, <1>4, <1>5, <2>1 DEF LakeInv, Put
  <1>7. TableRowsInv'
    <2>1. /\ DOMAIN row = {"id", "begin", "end"}
          /\ row.id = t /\ row.end = Null
      BY DEF New
    <2> HIDE DEF row
    <2>2. QED
      BY <1>2, <1>3, <1>4, <1>5, <2>1 DEF TableRowsInv, Listed
  <1>8. InlinedInv'
    BY <1>1, <1>2, <1>3, <1>4, <1>5, InlinedKept DEF LakeInv, Put
  <1>9. QED
    BY <1>1, <1>2, <1>6, <1>7, <1>8 DEF IInv

\* The row of the table ends; its inlined rows stay stored, and nobody asks for them.
LEMMA DropTableStep ==
    ASSUME IInv, NEW t \in DOMAIN lake.tables, DropTable(t)
    PROVE  IInv'
  <1> DEFINE gone == {f \in DOMAIN lake.files : lake.files[f].table = t}
             after == [lake EXCEPT
                          !.tables = Without(@, {t}), !.versions = Without(@, {t}),
                          !.inlined = Without(@, {t}), !.partitions = Without(@, {t}),
                          !.files = Without(@, gone), !.deletes = Without(@, gone)]
             ended(row) == IF row.end = Null /\ row.id = t THEN [row EXCEPT !.end = now] ELSE row
  <1>1. /\ format # "none" /\ format' = format /\ stored' = stored
        /\ history' = Append(history, after)
    BY NothingBeforeBootstrap DEF DropTable, Commit
  <1>2. LakeInv /\ TableRowsInv /\ DOMAIN stored = {"data", "deletes"}
    BY <1>1 DEF IInv
  <1>3. /\ DOMAIN relation' = DOMAIN relation
        /\ relation'.ducklake_table = {ended(row) : row \in relation.ducklake_table}
        /\ Listed' = Listed
    BY <1>1, <1>2 DEF DropTable, Commit, Listed, TableRowsInv, Ended
  <1>4. /\ lake' = after
        /\ now \in Nat /\ now' = now + 1
        /\ history' \in Seq({history'[i] : i \in 1 .. Len(history')})
        /\ Len(history') >= 1
    BY <1>1, <1>2, SnapshotAdded
  <1>5. /\ DOMAIN after = LakeFields
        /\ after.next = lake.next /\ lake.next \in Nat
        /\ DOMAIN after.tables = DOMAIN lake.tables \ {t}
        /\ after.inlined = Without(lake.inlined, {t})
    BY <1>2 DEF LakeInv, LakeFields, Without
  <1> HIDE DEF after
  <1>6. TableRowsInv'
    <2>1. ASSUME NEW row \in relation.ducklake_table
          PROVE  /\ {"id", "begin", "end"} \subseteq DOMAIN ended(row)
                 /\ ended(row).end = Null => ended(row).id \in DOMAIN lake.tables \ {t}
                 /\ ended(row).end # Null => ended(row).end \in Nat /\ ended(row).end < now'
      BY <1>2, <1>4, NullIsNoNumber DEF TableRowsInv
    <2> HIDE DEF ended
    <2>2. QED
      BY <1>2, <1>3, <1>4, <1>5, <2>1 DEF TableRowsInv
  <1>7. InlinedInv'
    BY <1>1, <1>2, <1>3, <1>4, <1>5, InlinedKept DEF LakeInv, Without
  <1>8. QED
    BY <1>1, <1>2, <1>4, <1>5, <1>6, <1>7 DEF LakeInv, Without, IInv

\* The rows of one inlined table change, by the new one or by going; the lake follows, and
\* the rows of the other tables, which has none of these, are as they were.
RowsAt(at) == IF at \in DOMAIN stored.data THEN stored.data[at] ELSE {}

Changed(t, v, R) ==
    /\ R \subseteq RowsAt(<<t, v>>) \cup {now}
    /\ Listed' = Listed \cup {[table |-> t, version |-> v]}
    /\ stored'.data = Put(stored.data, <<t, v>>, R)
    /\ lake'.next = lake.next
    /\ DOMAIN lake'.tables = DOMAIN lake.tables
    /\ \A u \in DOMAIN lake.tables :
          lake'.inlined[u] = IF u = t THEN (lake.inlined[t] \ RowsAt(<<t, v>>)) \cup R
                                      ELSE lake.inlined[u]

\* A change of one inlined table keeps the invariant of inlined data.
LEMMA InlinedChanged ==
    ASSUME IInv, format # "none", now \in Nat, now' = now + 1,
           NEW t \in DOMAIN lake.tables, NEW v, NEW R, Changed(t, v, R)
    PROVE  InlinedInv'
  <1> DEFINE at == <<t, v>>
             old == RowsAt(at)
             D == stored.data
             E == stored'.data
             new == [table |-> t, version |-> v]
  <1>1. InlinedInv /\ LakeInv
    BY DEF IInv
  <1>2. /\ R \subseteq old \cup {now}
        /\ Listed' = Listed \cup {new}
        /\ E = Put(D, at, R)
        /\ lake'.next = lake.next
        /\ DOMAIN lake'.tables = DOMAIN lake.tables
        /\ \A u \in DOMAIN lake.tables :
              lake'.inlined[u] = IF u = t THEN (lake.inlined[t] \ old) \cup R
                                          ELSE lake.inlined[u]
    BY DEF Changed
  <1>3. /\ at[1] = t
        /\ new.table = t /\ new.version = v
        /\ at = <<new.table, new.version>>
        /\ new = [table |-> new.table, version |-> new.version]
    OBVIOUS
  <1>4. old = IF at \in DOMAIN D THEN D[at] ELSE {}
    BY DEF RowsAt
  <1>5. /\ DOMAIN D = {<<x.table, x.version>> : x \in Listed}
        /\ \A x \in Listed : /\ x = [table |-> x.table, version |-> x.version]
                             /\ x.table \in Nat /\ x.table < lake.next
        /\ \A o \in DOMAIN D : D[o] \subseteq 0 .. now - 1
        /\ \A o, p \in DOMAIN D : o # p => D[o] \cap D[p] = {}
        /\ \A u \in DOMAIN lake.tables :
              lake.inlined[u] = {r \in 0 .. now - 1 : \E o \in DOMAIN D : o[1] = u /\ r \in D[o]}
    BY <1>1, Zenon DEF InlinedInv
  <1> HIDE DEF D, E, at, old, new
  <1>6. /\ DOMAIN E = DOMAIN D \cup {at}
        /\ E[at] = R
        /\ \A o \in DOMAIN D : o # at => E[o] = D[o]
    BY <1>2 DEF Put
  <1>7. /\ old \subseteq 0 .. now - 1
        /\ \A o \in DOMAIN D : o # at => D[o] \cap old = {}
    <2>1. CASE at \in DOMAIN D
      BY <1>4, <1>5, <2>1, Zenon
    <2>2. CASE at \notin DOMAIN D
      BY <1>4, <2>2
    <2>3. QED
      BY <2>1, <2>2
  <1>8. ASSUME NEW x \in Listed'
        PROVE  /\ x = [table |-> x.table, version |-> x.version]
               /\ x.table \in Nat /\ x.table < lake'.next
    BY <1>1, <1>2, <1>3, <1>5 DEF LakeInv
  <1>9. DOMAIN E = {<<x.table, x.version>> : x \in Listed'}
    <2> DEFINE pair(x) == <<x.table, x.version>>
    <2>1. DOMAIN D = {pair(x) : x \in Listed} /\ at = pair(new)
      BY <1>3, <1>5, Zenon
    <2> HIDE DEF pair
    <2>2. DOMAIN E = {pair(x) : x \in Listed'}
      BY <1>2, <1>6, <2>1
    <2>3. QED
      BY <2>2, Zenon DEF pair
  <1>10. \A o \in DOMAIN E : E[o] \subseteq 0 .. now' - 1
    <2>1. 0 .. now - 1 \subseteq 0 .. now' - 1 /\ now \in 0 .. now' - 1
      OBVIOUS
    <2>2. \A o \in DOMAIN D : D[o] \subseteq 0 .. now' - 1
      BY <1>5, <2>1, Zenon
    <2>3. QED
      BY <1>2, <1>6, <1>7, <2>1, <2>2
  <1>11. \A o, p \in DOMAIN E : o # p => E[o] \cap E[p] = {}
    BY <1>2, <1>5, <1>6, <1>7
  <1>12. ASSUME NEW u \in DOMAIN lake.tables
         PROVE  lake'.inlined[u] = {r \in 0 .. now' - 1 : \E o \in DOMAIN E :
                                                            o[1] = u /\ r \in E[o]}
    <2>1. lake.inlined[u] = {r \in 0 .. now - 1 : \E o \in DOMAIN D : o[1] = u /\ r \in D[o]}
      BY <1>5
    <2>2. ASSUME u # t, NEW r, NEW o \in DOMAIN E, o[1] = u, r \in E[o]
          PROVE  r \in lake.inlined[u]
      BY <1>3, <1>5, <1>6, <2>1, <2>2
    <2>3. ASSUME u # t, NEW r \in lake.inlined[u]
          PROVE  r \in 0 .. now' - 1 /\ \E o \in DOMAIN E : o[1] = u /\ r \in E[o]
      <3>1. PICK o \in DOMAIN D : r \in 0 .. now - 1 /\ o[1] = u /\ r \in D[o]
        BY <2>1, <2>3
      <3>2. QED
        BY <1>3, <1>6, <2>3, <3>1
    <2>4. CASE u # t
      BY <1>2, <1>10, <2>2, <2>3, <2>4
    <2>5. CASE u = t
      <3>1. ASSUME NEW r \in lake'.inlined[t]
            PROVE  r \in 0 .. now' - 1 /\ \E o \in DOMAIN E : o[1] = t /\ r \in E[o]
        <4>1. CASE r \in R
          BY <1>3, <1>6, <1>10, <4>1
        <4>2. CASE r \notin R
          <5>1. r \in lake.inlined[t] /\ r \notin old
            BY <1>2, <3>1, <4>2
          <5>2. PICK o \in DOMAIN D : o[1] = t /\ r \in D[o]
            BY <2>1, <2>5, <5>1
          <5>3. QED
            BY <1>4, <1>6, <1>10, <5>1, <5>2
        <4>3. QED
          BY <4>1, <4>2
      <3>2. ASSUME NEW o \in DOMAIN E, o[1] = t, NEW r \in E[o]
            PROVE  r \in lake'.inlined[t]
        BY <1>2, <1>5, <1>6, <1>7, <2>1, <2>5, <3>2
      <3>3. QED
        BY <2>5, <3>1, <3>2
    <2>6. QED
      BY <2>4, <2>5
  <1>13. QED
    BY <1>2, <1>8, <1>9, <1>10, <1>11, <1>12 DEF InlinedInv, E

\* An insert adds a row to the inlined table of the table's version, which may be a new one.
LEMMA InlineInsertStep ==
    ASSUME IInv, NEW t \in DOMAIN lake.tables, InlineInsert(t)
    PROVE  IInv'
  <1> DEFINE v == lake.versions[t]
             at == <<t, v>>
             old == RowsAt(at)
             after == [lake EXCEPT !.inlined[t] = @ \cup {now}]
  <1>1. /\ format # "none" /\ format' = format
        /\ stored' = [stored EXCEPT !.data = Put(@, at, old \cup {now})]
        /\ history' = Append(history, after)
    BY NothingBeforeBootstrap DEF InlineInsert, Commit, RowsAt
  <1>2. LakeInv /\ TableRowsInv /\ InlinedInv /\ DOMAIN stored = {"data", "deletes"}
    BY <1>1 DEF IInv
  <1>3. /\ DOMAIN relation' = DOMAIN relation
        /\ relation'.ducklake_table = relation.ducklake_table
        /\ Listed' = Listed \cup {[table |-> t, version |-> v]}
    BY <1>2 DEF InlineInsert, Commit, Listed, TableRowsInv
  <1>4. /\ lake' = after
        /\ now \in Nat /\ now' = now + 1
        /\ history' \in Seq({history'[i] : i \in 1 .. Len(history')})
        /\ Len(history') >= 1
    BY <1>1, <1>2, SnapshotAdded
  <1>5. /\ DOMAIN stored' = DOMAIN stored
        /\ stored'.data = Put(stored.data, at, old \cup {now})
    BY <1>1, <1>2
  <1>6. /\ DOMAIN after = LakeFields
        /\ after.next = lake.next
        /\ after.tables = lake.tables
        /\ after.inlined = [lake.inlined EXCEPT ![t] = @ \cup {now}]
    BY <1>2 DEF LakeInv, LakeFields
  <1> HIDE DEF after
  <1>7. TableRowsInv'
    BY <1>2, <1>3, <1>4, <1>6 DEF TableRowsInv
  <1>8. InlinedInv'
    <2>1. old \subseteq lake.inlined[t]
      <3>1. CASE at \in DOMAIN stored.data
        <4>1. /\ at[1] = t /\ stored.data[at] \subseteq 0 .. now - 1
              /\ lake.inlined[t] = {r \in 0 .. now - 1 : \E o \in DOMAIN stored.data :
                                                          o[1] = t /\ r \in stored.data[o]}
          BY <1>2, <3>1 DEF InlinedInv
        <4> HIDE DEF at
        <4>2. QED
          BY <3>1, <4>1 DEF RowsAt
      <3>2. CASE at \notin DOMAIN stored.data
        BY <3>2 DEF RowsAt
      <3>3. QED
        BY <3>1, <3>2
    <2> HIDE DEF old
    <2>2. ASSUME NEW u \in DOMAIN lake.tables
          PROVE  lake'.inlined[u] = IF u = t THEN (lake.inlined[t] \ old) \cup (old \cup {now})
                                             ELSE lake.inlined[u]
      BY <1>2, <1>4, <1>6, <2>1 DEF LakeInv
    <2>3. Changed(t, v, old \cup {now})
      BY <1>3, <1>4, <1>5, <1>6, <2>2 DEF Changed, old
    <2> HIDE DEF v
    <2>4. QED
      BY <1>1, <1>4, <2>3, InlinedChanged
  <1>9. QED
    BY <1>1, <1>2, <1>4, <1>5, <1>6, <1>7, <1>8 DEF LakeInv, IInv

\* The rows of one inlined table are in a file then, and in no inlined table.
LEMMA FlushStep ==
    ASSUME IInv, NEW t \in DOMAIN lake.tables, NEW at \in DOMAIN stored.data, Flush(t, at)
    PROVE  IInv'
  <1> DEFINE old == stored.data[at]
             after == [lake EXCEPT !.files = WithFile(NextFile, t, old), !.inlined[t] = @ \ old]
  <1>1. /\ format # "none" /\ format' = format
        /\ at[1] = t
        /\ stored' = [stored EXCEPT !.data[at] = {}]
        /\ history' = Append(history, after)
    BY NothingBeforeBootstrap DEF Flush, Commit
  <1>2. LakeInv /\ TableRowsInv /\ InlinedInv /\ DOMAIN stored = {"data", "deletes"}
    BY <1>1 DEF IInv
  <1>3. /\ DOMAIN relation' = DOMAIN relation
        /\ relation'.ducklake_table = relation.ducklake_table
        /\ Listed' = Listed
    BY <1>2 DEF Flush, Commit, Listed, TableRowsInv
  <1>4. /\ lake' = after
        /\ now \in Nat /\ now' = now + 1
        /\ history' \in Seq({history'[i] : i \in 1 .. Len(history')})
        /\ Len(history') >= 1
    BY <1>1, <1>2, SnapshotAdded
  <1>5. /\ DOMAIN stored' = DOMAIN stored
        /\ stored'.data = Put(stored.data, at, {})
    BY <1>1, <1>2 DEF Put
  <1>6. /\ DOMAIN after = LakeFields
        /\ after.next = lake.next
        /\ after.tables = lake.tables
        /\ after.inlined = [lake.inlined EXCEPT ![t] = @ \ old]
    BY <1>2 DEF LakeInv, LakeFields
  <1> HIDE DEF after
  <1>7. TableRowsInv'
    BY <1>2, <1>3, <1>4, <1>6 DEF TableRowsInv
  <1>8. InlinedInv'
    <2>1. PICK x \in Listed : at = <<x.table, x.version>>
      BY <1>2 DEF InlinedInv
    <2>2. x = [table |-> t, version |-> x.version] /\ at = <<t, x.version>>
      BY <1>1, <1>2, <2>1 DEF InlinedInv
    <2>3. Listed' = Listed \cup {[table |-> t, version |-> x.version]}
      BY <1>3, <2>1, <2>2, Zenon
    <2>4. old = RowsAt(<<t, x.version>>)
      BY <2>2 DEF RowsAt
    <2> HIDE DEF old
    <2>5. ASSUME NEW u \in DOMAIN lake.tables
          PROVE  lake'.inlined[u] = IF u = t THEN (lake.inlined[t] \ old) \cup {}
                                             ELSE lake.inlined[u]
      BY <1>2, <1>4, <1>6 DEF LakeInv
    <2>6. Changed(t, x.version, {})
      BY <1>4, <1>5, <1>6, <2>2, <2>3, <2>4, <2>5 DEF Changed
    <2>7. QED
      BY <1>1, <1>4, <2>6, InlinedChanged
  <1>9. QED
    BY <1>1, <1>2, <1>4, <1>5, <1>6, <1>7, <1>8 DEF LakeInv, IInv

\* The inlined tables that go are empty, and nothing else of the lake is touched.
LEMMA DropSupersededStep ==
    ASSUME IInv, DropSuperseded
    PROVE  IInv'
  <1> DEFINE superseded == DuckLakeEmptySupersededInlinedTables(relation, stored)
             pair(x) == <<x.table, x.version>>
             Gone == {pair(x) : x \in superseded}
             D == stored.data
             E == stored'.data
  <1>1. format # "none" /\ format' = format /\ history' = history
    <2>1. DOMAIN <<>> = {}
      OBVIOUS
    <2>2. QED
      BY <2>1 DEF DropSuperseded, DuckLakeEmptySupersededInlinedTables, Rows, TableExists, IInv
  <1>2. LakeInv /\ TableRowsInv /\ InlinedInv /\ DOMAIN stored = {"data", "deletes"}
    BY <1>1 DEF IInv
  <1>3. \A x \in superseded : x \in Listed /\ pair(x) \in DOMAIN D /\ D[pair(x)] = {}
    BY DEF DuckLakeEmptySupersededInlinedTables, Rows, TableExists, Listed
  <1>4. /\ DOMAIN relation' = DOMAIN relation
        /\ relation'.ducklake_table = relation.ducklake_table
        /\ Listed' = Listed \ superseded
        /\ DOMAIN stored' = DOMAIN stored
        /\ E = Without(D, Gone)
    BY <1>2 DEF DropSuperseded, Listed, TableRowsInv
  <1>5. lake' = lake /\ now' = now
    BY <1>1 DEF lake, now, Last
  <1>6. InlinedInv'
    <2>1. DOMAIN E = DOMAIN D \ Gone /\ \A at \in DOMAIN E : E[at] = D[at]
      BY <1>4 DEF Without
    <2>2. DOMAIN D = {pair(x) : x \in Listed}
      BY <1>2 DEF InlinedInv
    <2>3. \A x, y \in Listed : pair(x) = pair(y) => x = y
      BY <1>2 DEF InlinedInv
    <2>4. DOMAIN E = {pair(x) : x \in Listed'}
      <3>1. \A x \in Listed : pair(x) \in Gone <=> x \in superseded
        BY <1>3, <2>3, Zenon
      <3> HIDE DEF superseded, pair, Gone, D, E
      <3>2. QED
        BY <1>4, <2>1, <2>2, <3>1
    <2>5. \A at \in DOMAIN D : at \notin DOMAIN E => D[at] = {}
      BY <1>3, <2>1
    <2>6. \A t \in DOMAIN lake.tables :
             lake.inlined[t] = {r \in 0 .. now - 1 : \E at \in DOMAIN E : at[1] = t /\ r \in E[at]}
      <3>1. \A t \in DOMAIN lake.tables :
               lake.inlined[t] = {r \in 0 .. now - 1 : \E at \in DOMAIN D :
                                                          at[1] = t /\ r \in D[at]}
        BY <1>2, Zenon DEF InlinedInv
      <3> HIDE DEF D, E, Gone
      <3>2. QED
        BY <2>1, <2>5, <3>1
    <2>7. /\ \A at \in DOMAIN E : E[at] \subseteq 0 .. now - 1
          /\ \A at, other \in DOMAIN E : at # other => E[at] \cap E[other] = {}
      <3>1. /\ \A at \in DOMAIN D : D[at] \subseteq 0 .. now - 1
            /\ \A at, other \in DOMAIN D : at # other => D[at] \cap D[other] = {}
        BY <1>2, Zenon DEF InlinedInv
      <3> HIDE DEF D, E, Gone
      <3>2. QED
        BY <2>1, <3>1
    <2>8. QED
      BY <1>2, <1>4, <1>5, <2>4, <2>6, <2>7 DEF InlinedInv
  <1>7. QED
    BY <1>1, <1>2, <1>4, <1>5, <1>6 DEF LakeInv, TableRowsInv, IInv

\* The relations of a new catalog are empty.
LEMMA BootstrapStep ==
    ASSUME IInv, NEW version \in {"0.3", "1.0"}, Bootstrap(version)
    PROVE  IInv'
  <1>1. /\ LakeInv /\ DOMAIN stored = {"data", "deletes"}
        /\ stored.data = <<>> /\ lake = EmptyLake
        /\ format' # "none" /\ stored' = stored /\ history' = history
    BY DEF Bootstrap, IInv
  <1>2. /\ {"ducklake_table", "ducklake_inlined_data_tables"} \subseteq DOMAIN relation'
        /\ relation'.ducklake_table = {} /\ Listed' = {}
    BY DEF Bootstrap, Listed, MetadataTables
  <1>3. lake' = lake /\ now' = now
    BY <1>1 DEF lake, now, Last
  <1>4. QED
    BY <1>1, <1>2, <1>3 DEF EmptyLake, InlinedInv, TableRowsInv, LakeInv, IInv

\* A migration leaves tables and inlined data alone.
LEMMA MigrateStep ==
    ASSUME IInv, Migrate
    PROVE  IInv'
  <1>1. /\ format # "none" /\ format' # "none" /\ stored' = stored /\ history' = history
    BY DEF Migrate
  <1>2. LakeInv /\ TableRowsInv /\ InlinedInv /\ DOMAIN stored = {"data", "deletes"}
    BY <1>1 DEF IInv
  <1>3. /\ {"ducklake_table", "ducklake_inlined_data_tables"} \subseteq DOMAIN relation'
        /\ relation'.ducklake_table = relation.ducklake_table
        /\ Listed' = Listed
    BY <1>2 DEF Migrate, Listed, MetadataTables, MacroTables, DuckLakeMetadataMutation, TableRowsInv
  <1>4. lake' = lake /\ now' = now
    BY <1>1 DEF lake, now, Last
  <1>5. LakeInv' /\ TableRowsInv' /\ InlinedInv'
    <2>1. InlinedInv'
      BY <1>1, <1>2, <1>3, <1>4, Zenon DEF InlinedInv
    <2>2. QED
      BY <1>1, <1>2, <1>3, <1>4, <2>1 DEF TableRowsInv, LakeInv
  <1>6. QED
    BY <1>1, <1>2, <1>5 DEF IInv

\* What does not move keeps the invariant.
LEMMA StutterStep ==
    ASSUME IInv, UNCHANGED vars
    PROVE  IInv'
  BY DEF vars, IInv, LakeInv, TableRowsInv, InlinedInv, Listed, lake, now, Last

\* No action of the client breaks it.
LEMMA NextStep ==
    ASSUME IInv, Next
    PROVE  IInv'
  <1>1. CASE \E version \in {"0.3", "1.0"} : Bootstrap(version)
    BY <1>1, BootstrapStep
  <1>2. CASE CreateTable \/ Migrate \/ DropSuperseded
    BY <1>2, CreateTableStep, MigrateStep, DropSupersededStep
  <1>3. CASE \/ CreateView \/ CreateMacro
             \/ \E v \in DOMAIN lake.views : CommentOnView(v) \/ DropView(v)
             \/ \E m \in DOMAIN lake.macros : DropMacro(m)
             \/ \E f \in DOMAIN lake.files :
                   \/ DeleteFile(f)
                   \/ \E R \in (SUBSET lake.files[f].rows) \ {{}} : DeleteRows(f, R)
                   \/ \E r \in lake.files[f].rows : InlineDelete(f, r)
    <2>1. format # "none"
      BY <1>3, NothingBeforeBootstrap DEF CreateView, CreateMacro
    <2>2. Elsewhere
      BY <1>3, <2>1, OthersAreElsewhere, Zenon
    <2>3. QED
      BY <2>2, ElsewhereStep
  <1>4. ASSUME NEW t \in DOMAIN lake.tables,
               \/ DropTable(t) \/ CommentOnTable(t) \/ WriteFile(t) \/ InlineInsert(t)
               \/ \E struct \in BOOLEAN : AddColumn(t, struct)
               \/ \E i \in DOMAIN lake.tables[t].columns :
                     RenameColumn(t, i) \/ DropColumn(t, i) \/ CommentOnColumn(t, i)
               \/ \E i, j \in {col.id : col \in ToSet(TopLevel(lake.tables[t].columns))} :
                     SetPartition(t, IF i = j THEN <<i>> ELSE <<i, j>>)
               \/ \E at \in DOMAIN stored.data : Flush(t, at)
        PROVE  IInv'
    <2>1. format # "none"
      BY NothingBeforeBootstrap
    <2>2. DropTable(t) => IInv'
      BY DropTableStep
    <2>3. InlineInsert(t) => IInv'
      BY InlineInsertStep
    <2>4. ASSUME NEW at \in DOMAIN stored.data, Flush(t, at)
          PROVE  IInv'
      BY <2>4, FlushStep
    <2>5. \/ DropTable(t) \/ InlineInsert(t) \/ Elsewhere
          \/ \E at \in DOMAIN stored.data : Flush(t, at)
      BY <1>4, <2>1, ColumnsAreElsewhere, Zenon
    <2>6. QED
      BY <2>2, <2>3, <2>4, <2>5, ElsewhereStep, Zenon
  <1>5. QED
    BY <1>1, <1>2, <1>3, <1>4, Zenon DEF Next

\* Whatever the client commits, flushes and cleans up, the lake's list of inlined rows is what
\* the inlined tables hold together, and the listed tables are those that exist.
THEOREM LakeAgreesWithInlinedTables == Spec => []IInv
  <1>1. Init => IInv
    BY DEF Init, lake, Last, EmptyLake, LakeFields, LakeInv, IInv
  <1>2. IInv /\ [Next]_vars => IInv'
    BY NextStep, StutterStep
  <1>3. QED
    BY <1>1, <1>2, PTL DEF Spec

\* InlinedDataStaysReachable: no cleanup takes inlined rows away, nor the table the next insert
\* writes to, for any number of snapshots, tables and schema versions.
THEOREM InlinedDataAlwaysReachable == Spec => []InlinedDataStaysReachable
  <1>1. IInv => InlinedDataStaysReachable
    <2> SUFFICES ASSUME IInv, NEW info \in DuckLakeTableInfo(relation, now - 1)
                 PROVE  /\ \A version \in info.inlined : <<info.id, version>> \in DOMAIN stored.data
                        /\ UNION {stored.data[<<info.id, version>>] : version \in info.inlined}
                               = lake.inlined[info.id]
                        /\ \A at \in DOMAIN stored.data :
                              at[1] = info.id /\ at[2] = lake.versions[info.id]
                                 => at[2] \in info.inlined
      BY DEF InlinedDataStaysReachable
    <2>1. LakeInv /\ TableRowsInv /\ InlinedInv
      BY DEF IInv, DuckLakeTableInfo, TableExists
    <2>2. PICK row \in VisibleRows(relation, "ducklake_table", now - 1) :
             info.id = row.id /\ info.inlined = InlinedDataTables(relation, row.id)
      <3> DEFINE columns(t) == {col \in relation.ducklake_column : col.table = t.id}
                 visible(t) == {col \in columns(t) : Visible(col, now - 1)}
                 sorted(t) == Sorted(visible(t), ColumnBefore)
                 described(t) == [i \in 1..Cardinality(visible(t)) |->
                                    DescribeColumn(relation, sorted(t)[i], now - 1)]
      <3>1. PICK row \in VisibleRows(relation, "ducklake_table", now - 1) :
               info = [id      |-> row.id,
                       tags    |-> DuckLakeTags(relation, row.id, now - 1),
                       inlined |-> InlinedDataTables(relation, row.id),
                       columns |-> described(row)]
        BY Zenon DEF DuckLakeTableInfo
      <3> HIDE DEF described
      <3>2. QED
        BY <3>1
    <2> DEFINE t == info.id
    <2>3. t \in DOMAIN lake.tables
      BY <2>1, <2>2 DEF VisibleRows, Rows, TableExists, LakeInv, now, Visible, TableRowsInv
    <2>4. \A version : version \in info.inlined <=>
                         \E x \in Listed : x.table = t /\ x.version = version
      BY <2>1, <2>2 DEF InlinedDataTables, Rows, TableExists, Listed, TableRowsInv
    <2>5. \A at \in DOMAIN stored.data : /\ at = <<at[1], at[2]>>
                                         /\ at[1] = t => at[2] \in info.inlined
      BY <2>1, <2>4 DEF InlinedInv
    <2>6. \A version \in info.inlined : <<t, version>> \in DOMAIN stored.data
      BY <2>1, <2>4 DEF InlinedInv
    <2>7. lake.inlined[t] = {r \in 0 .. now - 1 : \E at \in DOMAIN stored.data :
                                                    at[1] = t /\ r \in stored.data[at]}
      BY <2>1, <2>3 DEF InlinedInv
    <2> HIDE DEF t
    <2>8. UNION {stored.data[<<t, version>>] : version \in info.inlined} = lake.inlined[t]
      <3>1. ASSUME NEW version \in info.inlined, NEW r \in stored.data[<<t, version>>]
            PROVE  r \in lake.inlined[t]
        BY <2>1, <2>6, <2>7, <3>1 DEF InlinedInv
      <3>2. ASSUME NEW r \in lake.inlined[t]
            PROVE  \E version \in info.inlined : r \in stored.data[<<t, version>>]
        BY <2>5, <2>7
      <3>3. QED
        BY <3>1, <3>2
    <2>9. QED
      BY <2>5, <2>6, <2>8 DEF t
  <1>2. QED
    BY LakeAgreesWithInlinedTables, <1>1, PTL

-----------------------------------------------------------------------------
(* Files                                                                   *)

DataFiles == relation.ducklake_data_file
DeleteFiles == relation.ducklake_delete_file
Versions == relation.ducklake_schema_versions
Keys == relation.ducklake_file_partition_value

FileTables ==
    {"ducklake_data_file", "ducklake_delete_file", "ducklake_schema_versions",
     "ducklake_file_partition_value"}

\* The rows of data files and delete files have ids of their own, below the next one.
FileRowsInv ==
    /\ FileTables \subseteq DOMAIN relation
    /\ IsFiniteSet(DataFiles) /\ IsFiniteSet(DeleteFiles)
    /\ \A f \in DataFiles :
          /\ DOMAIN f = {"id", "table", "size", "rows", "begin", "end"}
          /\ f.id \in Nat /\ f.id < NextFile
          /\ f.table \in Nat /\ f.table < lake.next
          /\ f.begin \in Nat /\ 0 < f.begin /\ f.begin < now
          /\ f.end # Null => f.end \in Nat /\ f.begin < f.end /\ f.end < now
    /\ \A f, g \in DataFiles : f.id = g.id => f = g
    /\ \A d \in DeleteFiles :
          /\ DOMAIN d = {"id", "table", "file", "size", "rows", "begin", "end"}
          /\ d.id \in Nat /\ d.id < NextFile
          /\ d.begin \in Nat /\ 0 < d.begin /\ d.begin < now
          /\ \E f \in DataFiles : f.id = d.file /\ f.table = d.table
    /\ \A d, e \in DeleteFiles : d.id = e.id => d = e

\* Row r of file x of table t: a delete file or an inlined delete has taken it by snapshot s.
GoneBy(x, t, r, s) ==
    \/ \E d \in DeleteFiles : d.file = x /\ d.begin <= s /\ r \in d.rows
    \/ \E del \in InlinedDeletes(stored, t) : del.file = x /\ del.begin <= s /\ del.row = r

\* A snapshot has the files that are visible in it, with the rows that nothing has taken.
Reads(s) ==
    /\ DOMAIN At(s).files = {f.id : f \in {f \in DataFiles : Visible(f, s)}}
    /\ \A f \in DataFiles :
          Visible(f, s) =>
             /\ At(s).files[f.id].table = f.table
             /\ At(s).files[f.id].rows = {r \in f.rows : ~GoneBy(f.id, f.table, r, s)}

HistoryInv == \A s \in Snapshots : Reads(s)

RowThere(x, r, s) == x \in DOMAIN At(s).files /\ r \in At(s).files[x].rows

\* The delete files of a file have ever more rows, the one that has not ended all of them;
\* and every row was still there when it was taken.
DeletesInv ==
    /\ \A d, e \in DeleteFiles : d.file = e.file /\ d.begin <= e.begin => d.rows \subseteq e.rows
    /\ \A d \in DeleteFiles :
          d.file \in DOMAIN lake.files =>
              \E e \in DeleteFiles : e.file = d.file /\ e.end = Null /\ d.rows \subseteq e.rows
    /\ \A d \in DeleteFiles : \A r \in d.rows :
          \E e \in DeleteFiles : /\ e.file = d.file /\ e.begin <= d.begin /\ r \in e.rows
                                 /\ RowThere(e.file, r, e.begin - 1)
    /\ \A t \in DOMAIN stored.deletes : \A del \in stored.deletes[t] :
          /\ del.begin \in Nat /\ 0 < del.begin /\ del.begin < now
          /\ RowThere(del.file, del.row, del.begin - 1)
          /\ \E f \in DataFiles : f.id = del.file /\ f.table = t

\* The row of ducklake_schema_versions that a snapshot's version of a table is of is the last
\* one up to that snapshot.
VersionsInv ==
    /\ \A row \in Versions :
          /\ row = [table |-> row.table, begin |-> row.begin, version |-> row.begin]
          /\ row.begin \in Nat /\ row.begin < now
    /\ DOMAIN lake.versions = DOMAIN lake.tables
    /\ \A s \in Snapshots : \A t \in DOMAIN At(s).versions :
          /\ At(s).versions[t] <= s
          /\ [table |-> t, begin |-> At(s).versions[t], version |-> At(s).versions[t]] \in Versions
          /\ \A row \in Versions : row.table = t /\ row.begin <= s => row.begin <= At(s).versions[t]
    /\ \A f \in DataFiles : f.table \in DOMAIN At(f.begin).versions

KeysOf(x) == {row \in Keys : row.file = x}
NumberedKeys(x, p) == {[file |-> x, index |-> i, value |-> p[i]] : i \in 1 .. Len(p)}
PartitionKeys(x, t) ==
    {[file |-> x, index |-> i, value |-> PartitionsOf(t)[i]] : i \in DOMAIN PartitionsOf(t)}
IsNumbered(p) == Len(p) \in Nat /\ p = [i \in 1 .. Len(p) |-> p[i]]

\* A file has the keys it was written with.
KeysInv ==
    /\ DOMAIN lake.partitions \subseteq DOMAIN lake.tables
    /\ \A t \in DOMAIN lake.partitions : IsNumbered(lake.partitions[t])
    /\ \A row \in Keys : row.file \in Nat /\ row.file < NextFile
    /\ \A f \in DataFiles :
          LET p == WrittenBy(f.table, f.begin)
          IN  IsNumbered(p) /\ KeysOf(f.id) = NumberedKeys(f.id, p)

FileShapeInv ==
    \A x \in DOMAIN lake.files : DOMAIN lake.files[x] = {"table", "rows", "size"}

FilesInv == FileRowsInv /\ HistoryInv /\ DeletesInv
FInv ==
    /\ format = "none" => now = 1 /\ stored.deletes = <<>>
    /\ format # "none" => FilesInv /\ VersionsInv /\ KeysInv /\ FileShapeInv

\* The snapshots that were there stay as they were.
LEMMA PastKept ==
    ASSUME LakeInv, NEW after, history' = Append(history, after)
    PROVE  /\ now \in Nat /\ 0 < now /\ now' = now + 1
           /\ lake' = after /\ lake = At(now - 1)
           /\ \A s \in Snapshots : history'[s + 1] = At(s)
           /\ history'[now + 1] = after
  <1> DEFINE S == {history[i] : i \in 1 .. Len(history)}
             T == S \cup {after}
  <1> HIDE DEF T
  <1>1. lake' = after
    BY SnapshotAdded
  <1>2. QED
    BY <1>1 DEF LakeInv, lake, Last, now, At, Snapshots

\* A row that has not ended ends, or stays as it is.
Closed(row, H) == IF row.end = Null /\ row \in H THEN [row EXCEPT !.end = now] ELSE row

\* Closing some rows of a set leaves as many as there were.
LEMMA ClosedRows ==
    ASSUME NEW rows, NEW H, NEW C, C = {Closed(row, H) : row \in rows}, IsFiniteSet(rows),
           \A row \in rows : {"id", "end"} \subseteq DOMAIN row,
           \A row, other \in rows : row.id = other.id => row = other
    PROVE  IsFiniteSet(C) /\ Cardinality(C) = Cardinality(rows)
  <1> DEFINE f == [row \in rows |-> Closed(row, H)]
  <1>1. f \in Bijection(rows, C)
    BY DEF Closed, Bijection, Injection, Surjection, IsInjective
  <1>2. QED
    <2> HIDE DEF f
    <2>1. QED
      BY <1>1, FS_Bijection DEF ExistsBijection

\* One more row with the next id.
LEMMA OneMoreRow ==
    ASSUME NEW rows, NEW row, IsFiniteSet(rows), row \notin rows
    PROVE  /\ IsFiniteSet(rows \cup {row})
           /\ Cardinality(rows) \in Nat
           /\ Cardinality(rows \cup {row}) = Cardinality(rows) + 1
  BY FS_AddElement, FS_CardinalityType

\* The id that the next file gets is a number from 1.
LEMMA NextFileIsNext ==
    ASSUME FileRowsInv
    PROVE  NextFile \in Nat /\ 0 < NextFile
  BY FS_CardinalityType DEF FileRowsInv, NextFile, DataFiles, DeleteFiles

\* A snapshot is committed, and the relations of files are kept.
Commits ==
    /\ IInv /\ FInv /\ format # "none" /\ format' = format
    /\ \E after : history' = Append(history, after)
    /\ FileTables \subseteq DOMAIN relation'
    /\ lake'.next \in Nat /\ lake'.next >= lake.next

\* What is known of the files before a snapshot, in the form the steps need.
LEMMA CommitFacts ==
    ASSUME Commits
    PROVE  /\ LakeInv /\ FileRowsInv /\ HistoryInv /\ DeletesInv /\ VersionsInv /\ KeysInv
           /\ now \in Nat /\ 0 < now /\ now' = now + 1
           /\ lake = At(now - 1) /\ history'[now + 1] = lake'
           /\ \A s \in Snapshots : history'[s + 1] = At(s)
           /\ Snapshots = 0 .. now - 1 /\ Snapshots' = Snapshots \cup {now}
           /\ NextFile \in Nat /\ 0 < NextFile
           /\ lake.next \in Nat /\ lake'.next \in Nat /\ lake'.next >= lake.next
  <1>1. LakeInv /\ FileRowsInv /\ HistoryInv /\ DeletesInv /\ VersionsInv /\ KeysInv
    BY DEF Commits, IInv, FInv, FilesInv
  <1>2. PICK after : history' = Append(history, after)
    BY DEF Commits
  <1>3. /\ now \in Nat /\ 0 < now /\ now' = now + 1
        /\ lake' = after /\ lake = At(now - 1)
        /\ \A s \in Snapshots : history'[s + 1] = At(s)
        /\ history'[now + 1] = after
    BY <1>1, <1>2, PastKept
  <1>4. Snapshots = 0 .. now - 1 /\ Snapshots' = Snapshots \cup {now}
    BY <1>3 DEF Snapshots
  <1>5. QED
    BY <1>1, <1>3, <1>4, NextFileIsNext DEF Commits, LakeInv

\* What is live is visible in the last snapshot.
LEMMA LiveFiles ==
    ASSUME Commits
    PROVE  /\ DOMAIN lake.files = {f.id : f \in {f \in DataFiles : f.end = Null}}
           /\ \A f \in DataFiles :
                 f.end = Null =>
                    /\ f.id \in DOMAIN lake.files
                    /\ lake.files[f.id].table = f.table
                    /\ lake.files[f.id].rows = {r \in f.rows : ~GoneBy(f.id, f.table, r, now - 1)}
           /\ \A f \in DataFiles : Visible(f, now - 1) <=> f.end = Null
  <1>1. /\ HistoryInv /\ FileRowsInv /\ now \in Nat /\ 0 < now /\ lake = At(now - 1)
        /\ now - 1 \in Snapshots
    BY CommitFacts
  <1>2. QED
    BY <1>1 DEF Visible, FileRowsInv, HistoryInv, Reads

\* Nothing was taken in the snapshot that comes next: as of it, the rows are those of the last.
LEMMA TakenBefore ==
    ASSUME Commits
    PROVE  /\ \A d \in DeleteFiles : d.begin \in 1 .. now - 1
           /\ \A t : \A del \in InlinedDeletes(stored, t) :
                 del.begin \in 1 .. now - 1 /\ t \in DOMAIN stored.deletes
           /\ \A x, t, r : GoneBy(x, t, r, now) <=> GoneBy(x, t, r, now - 1)
  <1>1. FileRowsInv /\ DeletesInv /\ now \in Nat /\ 0 < now
    BY CommitFacts
  <1>2. \A d \in DeleteFiles : d.begin \in 1 .. now - 1
    BY <1>1 DEF FileRowsInv
  <1>3. \A t : \A del \in InlinedDeletes(stored, t) :
           del.begin \in 1 .. now - 1 /\ t \in DOMAIN stored.deletes
    BY <1>1 DEF DeletesInv, InlinedDeletes
  <1>4. \A b \in 1 .. now - 1 : b <= now /\ b <= now - 1
    BY <1>1
  <1>5. QED
    BY <1>2, <1>3, <1>4, Zenon DEF GoneBy

\* A snapshot that is about no file.
FilesKept ==
    /\ DataFiles' = DataFiles /\ DeleteFiles' = DeleteFiles
    /\ stored'.deletes = stored.deletes
    /\ lake'.files = lake.files

\* A snapshot that is about something else keeps the invariant of files.
LEMMA FilesKeptStep ==
    ASSUME Commits, FilesKept
    PROVE  FilesInv' /\ NextFile' = NextFile
  <1>1. /\ LakeInv /\ FileRowsInv /\ HistoryInv /\ DeletesInv
        /\ now \in Nat /\ 0 < now /\ now' = now + 1
        /\ lake = At(now - 1) /\ history'[now + 1] = lake'
        /\ \A s \in Snapshots : history'[s + 1] = At(s)
        /\ Snapshots = 0 .. now - 1 /\ Snapshots' = Snapshots \cup {now}
        /\ lake.next \in Nat /\ lake'.next \in Nat /\ lake'.next >= lake.next
        /\ FileTables \subseteq DOMAIN relation'
    BY CommitFacts DEF Commits
  <1>2. NextFile' = NextFile
    BY DEF NextFile, FilesKept, DataFiles, DeleteFiles
  <1>3. FileRowsInv'
    <2>1. /\ IsFiniteSet(DataFiles) /\ IsFiniteSet(DeleteFiles)
          /\ \A f, g \in DataFiles : f.id = g.id => f = g
          /\ \A d, e \in DeleteFiles : d.id = e.id => d = e
      BY <1>1 DEF FileRowsInv
    <2>2. ASSUME NEW f \in DataFiles
          PROVE  /\ DOMAIN f = {"id", "table", "size", "rows", "begin", "end"}
                 /\ f.id \in Nat /\ f.id < NextFile
                 /\ f.table \in Nat /\ f.table < lake'.next
                 /\ f.begin \in Nat /\ 0 < f.begin /\ f.begin < now'
                 /\ f.end # Null => f.end \in Nat /\ f.begin < f.end /\ f.end < now'
      BY <1>1 DEF FileRowsInv
    <2>3. ASSUME NEW d \in DeleteFiles
          PROVE  /\ DOMAIN d = {"id", "table", "file", "size", "rows", "begin", "end"}
                 /\ d.id \in Nat /\ d.id < NextFile
                 /\ d.begin \in Nat /\ 0 < d.begin /\ d.begin < now'
                 /\ \E f \in DataFiles : f.id = d.file /\ f.table = d.table
      BY <1>1 DEF FileRowsInv
    <2>4. QED
      BY <1>1, <1>2, <2>1, <2>2, <2>3 DEF FileRowsInv, FilesKept
  <1>4. \A x, t, r, s : GoneBy(x, t, r, s)' <=> GoneBy(x, t, r, s)
    BY DEF GoneBy, InlinedDeletes, FilesKept
  <1>5. HistoryInv'
    <2> SUFFICES ASSUME NEW s \in Snapshots' PROVE Reads(s)'
      BY DEF HistoryInv
    <2>1. CASE s \in Snapshots
      BY <1>1, <1>4, <2>1 DEF HistoryInv, Reads, FilesKept, At
    <2>2. CASE s = now
      <3>1. \A f \in DataFiles : Visible(f, s) <=> f.end = Null
        BY <1>1, <2>2 DEF Visible, FileRowsInv
      <3>2. \A f \in DataFiles : \A r : GoneBy(f.id, f.table, r, s) <=> GoneBy(f.id, f.table, r, now - 1)
        BY <2>2, TakenBefore
      <3>3. /\ DOMAIN lake.files = {f.id : f \in {f \in DataFiles : Visible(f, s)}}
            /\ \A f \in DataFiles :
                  Visible(f, s) =>
                     /\ lake.files[f.id].table = f.table
                     /\ lake.files[f.id].rows = {r \in f.rows : ~GoneBy(f.id, f.table, r, s)'}
        BY <1>4, <3>1, <3>2, LiveFiles
      <3>4. QED
        BY <1>1, <2>2, <3>3 DEF Reads, At, FilesKept
    <2>3. QED
      BY <1>1, <2>1, <2>2
  <1>6. DeletesInv'
    <2>1. \A x, r : \A s \in Snapshots : RowThere(x, r, s)' <=> RowThere(x, r, s)
      BY <1>1 DEF RowThere, At
    <2>2. \A d \in DeleteFiles : d.begin - 1 \in Snapshots
      BY <1>1 DEF FileRowsInv
    <2>3. ASSUME NEW t \in DOMAIN stored.deletes, NEW del \in stored.deletes[t]
          PROVE  /\ del.begin \in Nat /\ 0 < del.begin /\ del.begin < now'
                 /\ RowThere(del.file, del.row, del.begin - 1)'
                 /\ \E f \in DataFiles : f.id = del.file /\ f.table = t
      BY <1>1, <2>1 DEF DeletesInv
    <2>4. \A d \in DeleteFiles : \A r \in d.rows :
             \E e \in DeleteFiles : /\ e.file = d.file /\ e.begin <= d.begin /\ r \in e.rows
                                    /\ RowThere(e.file, r, e.begin - 1)'
      BY <1>1, <2>1, <2>2 DEF DeletesInv
    <2>5. QED
      BY <1>1, <2>3, <2>4 DEF DeletesInv, FilesKept
  <1>7. QED
    BY <1>2, <1>3, <1>5, <1>6 DEF FilesInv

\* A file is written, with the next id, which no delete file and no inlined delete names.
FileAdded(t, rows) ==
    /\ DataFiles' = DataFiles \cup {DataFile(t, rows)}
    /\ DeleteFiles' = DeleteFiles
    /\ stored'.deletes = stored.deletes
    /\ lake'.files = WithFile(NextFile, t, rows)

\* A file that is added keeps it: nothing could have taken rows of its id before.
LEMMA FileAddedStep ==
    ASSUME Commits, NEW t \in DOMAIN lake.tables, NEW rows, FileAdded(t, rows)
    PROVE  FilesInv' /\ NextFile' = NextFile + 1
  <1> PICK x, new : x = NextFile /\ new = DataFile(t, rows)
    OBVIOUS
  <1>1. /\ LakeInv /\ FileRowsInv /\ HistoryInv /\ DeletesInv
        /\ now \in Nat /\ 0 < now /\ now' = now + 1
        /\ lake = At(now - 1) /\ history'[now + 1] = lake'
        /\ \A s \in Snapshots : history'[s + 1] = At(s)
        /\ Snapshots = 0 .. now - 1 /\ Snapshots' = Snapshots \cup {now}
        /\ lake.next \in Nat /\ lake'.next \in Nat /\ lake'.next >= lake.next
        /\ FileTables \subseteq DOMAIN relation'
        /\ x \in Nat
    BY CommitFacts DEF Commits
  <1>2. /\ DOMAIN new = {"id", "table", "size", "rows", "begin", "end"}
        /\ new.id = x /\ new.table = t /\ new.rows = rows
        /\ new.begin = now /\ new.end = Null
    BY DEF DataFile, New
  <1>3. /\ DataFiles' = DataFiles \cup {new} /\ DeleteFiles' = DeleteFiles
        /\ stored'.deletes = stored.deletes
        /\ DOMAIN lake'.files = DOMAIN lake.files \cup {x}
        /\ lake'.files[x].table = t /\ lake'.files[x].rows = rows
        /\ \A y \in DOMAIN lake.files : y # x => lake'.files[y] = lake.files[y]
    BY DEF FileAdded, WithFile, Put
  <1>4. NextFile' = NextFile + 1
    <2>1. new \notin DataFiles
      BY <1>1, <1>2 DEF FileRowsInv
    <2>2. /\ Cardinality(DataFiles) \in Nat /\ Cardinality(DeleteFiles) \in Nat
          /\ Cardinality(DataFiles') = Cardinality(DataFiles) + 1
      BY <1>1, <1>3, <2>1, OneMoreRow, FS_CardinalityType DEF FileRowsInv
    <2>3. QED
      BY <1>3, <2>2 DEF NextFile, DataFiles, DeleteFiles
  <1>5. /\ t \in Nat /\ t < lake'.next
        /\ \A f \in DataFiles : f.id # x
        /\ \A d \in DeleteFiles : d.file # x
        /\ \A u : \A del \in InlinedDeletes(stored, u) : del.file # x
    <2>1. t \in Nat /\ t < lake'.next
      BY <1>1 DEF LakeInv
    <2>2. \A f \in DataFiles : f.id # x
      BY <1>1 DEF FileRowsInv
    <2>3. \A d \in DeleteFiles : d.file # x
      BY <1>1, <2>2 DEF FileRowsInv
    <2>4. \A u : \A del \in InlinedDeletes(stored, u) : del.file # x
      BY <1>1, <2>2, SMTT(20) DEF DeletesInv, InlinedDeletes
    <2>5. QED
      BY <2>1, <2>2, <2>3, <2>4
  <1>6. FileRowsInv'
    <2>1. /\ IsFiniteSet(DataFiles') /\ IsFiniteSet(DeleteFiles')
          /\ \A f, g \in DataFiles' : f.id = g.id => f = g
          /\ \A d, e \in DeleteFiles' : d.id = e.id => d = e
      BY <1>1, <1>2, <1>3, <1>5, FS_AddElement DEF FileRowsInv
    <2>2. ASSUME NEW f \in DataFiles
          PROVE  /\ DOMAIN f = {"id", "table", "size", "rows", "begin", "end"}
                 /\ f.id \in Nat /\ f.id < NextFile'
                 /\ f.table \in Nat /\ f.table < lake'.next
                 /\ f.begin \in Nat /\ 0 < f.begin /\ f.begin < now'
                 /\ f.end # Null => f.end \in Nat /\ f.begin < f.end /\ f.end < now'
      BY <1>1, <1>4 DEF FileRowsInv
    <2>3. /\ new.id \in Nat /\ new.id < NextFile'
          /\ new.table \in Nat /\ new.table < lake'.next
          /\ new.begin \in Nat /\ 0 < new.begin /\ new.begin < now'
      BY <1>1, <1>2, <1>4, <1>5
    <2>4. ASSUME NEW d \in DeleteFiles
          PROVE  /\ DOMAIN d = {"id", "table", "file", "size", "rows", "begin", "end"}
                 /\ d.id \in Nat /\ d.id < NextFile'
                 /\ d.begin \in Nat /\ 0 < d.begin /\ d.begin < now'
                 /\ \E f \in DataFiles' : f.id = d.file /\ f.table = d.table
      BY <1>1, <1>3, <1>4 DEF FileRowsInv
    <2>5. \A f \in DataFiles' :
             /\ DOMAIN f = {"id", "table", "size", "rows", "begin", "end"}
             /\ f.id \in Nat /\ f.id < NextFile'
             /\ f.table \in Nat /\ f.table < lake'.next
             /\ f.begin \in Nat /\ 0 < f.begin /\ f.begin < now'
             /\ f.end # Null => f.end \in Nat /\ f.begin < f.end /\ f.end < now'
      BY <1>2, <1>3, <2>2, <2>3
    <2>6. QED
      BY <1>1, <1>3, <2>1, <2>4, <2>5 DEF FileRowsInv
  <1>7. \A y, u, r, s : GoneBy(y, u, r, s)' <=> GoneBy(y, u, r, s)
    BY <1>3 DEF GoneBy, InlinedDeletes
  <1>8. HistoryInv'
    <2> SUFFICES ASSUME NEW s \in Snapshots' PROVE Reads(s)'
      BY DEF HistoryInv
    <2>1. CASE s \in Snapshots
      <3>1. ~Visible(new, s)
        BY <1>1, <1>2, <2>1 DEF Visible
      <3>2. At(s)' = At(s)
        BY <1>1, <2>1 DEF At
      <3>3. QED
        BY <1>1, <1>3, <1>7, <2>1, <3>1, <3>2 DEF HistoryInv, Reads
    <2>2. CASE s = now
      <3>1. \A f \in DataFiles : Visible(f, s) <=> f.end = Null
        BY <1>1, <2>2 DEF Visible, FileRowsInv
      <3>2. Visible(new, s)
        BY <1>1, <1>2, <2>2 DEF Visible
      <3>3. At(s)' = lake'
        BY <1>1, <2>2 DEF At
      <3>4. DOMAIN lake'.files = {f.id : f \in {f \in DataFiles' : Visible(f, s)}}
        BY <1>2, <1>3, <3>1, <3>2, LiveFiles
      <3>5. ASSUME NEW f \in DataFiles, Visible(f, s)
            PROVE  /\ lake'.files[f.id].table = f.table
                   /\ lake'.files[f.id].rows = {r \in f.rows : ~GoneBy(f.id, f.table, r, s)'}
        <4>1. lake'.files[f.id] = lake.files[f.id]
          BY <1>3, <1>5, <3>1, <3>5, LiveFiles
        <4>2. \A r : GoneBy(f.id, f.table, r, s)' <=> GoneBy(f.id, f.table, r, now - 1)
          BY <1>7, <2>2, TakenBefore
        <4>3. QED
          BY <3>1, <3>5, <4>1, <4>2, LiveFiles
      <3>6. /\ lake'.files[new.id].table = new.table
            /\ lake'.files[new.id].rows = {r \in new.rows : ~GoneBy(x, t, r, s)'}
        <4>1. \A r : ~GoneBy(x, t, r, s)
          BY <1>5 DEF GoneBy
        <4>2. QED
          BY <1>2, <1>3, <1>7, <4>1
      <3>7. ASSUME NEW f \in DataFiles', Visible(f, s)
            PROVE  /\ lake'.files[f.id].table = f.table
                   /\ lake'.files[f.id].rows = {r \in f.rows : ~GoneBy(f.id, f.table, r, s)'}
        BY <1>2, <1>3, <3>5, <3>6, <3>7
      <3>8. QED
        BY <3>3, <3>4, <3>7 DEF Reads
    <2>3. QED
      BY <1>1, <2>1, <2>2
  <1>9. DeletesInv'
    <2>1. \A y, r : \A s \in Snapshots : RowThere(y, r, s)' <=> RowThere(y, r, s)
      BY <1>1 DEF RowThere, At
    <2>2. \A d \in DeleteFiles : d.begin - 1 \in Snapshots
      BY <1>1, SMTT(20) DEF FileRowsInv
    <2>3. ASSUME NEW u \in DOMAIN stored.deletes, NEW del \in stored.deletes[u]
          PROVE  /\ del.begin \in Nat /\ 0 < del.begin /\ del.begin < now'
                 /\ RowThere(del.file, del.row, del.begin - 1)'
                 /\ \E f \in DataFiles' : f.id = del.file /\ f.table = u
      BY <1>1, <1>3, <2>1 DEF DeletesInv
    <2>4. \A d \in DeleteFiles : \A r \in d.rows :
             \E e \in DeleteFiles : /\ e.file = d.file /\ e.begin <= d.begin /\ r \in e.rows
                                    /\ RowThere(e.file, r, e.begin - 1)'
      BY <1>1, <2>1, <2>2 DEF DeletesInv
    <2>5. \A d \in DeleteFiles :
             d.file \in DOMAIN lake'.files =>
                 \E e \in DeleteFiles : e.file = d.file /\ e.end = Null /\ d.rows \subseteq e.rows
      BY <1>1, <1>3, <1>5 DEF DeletesInv
    <2>6. QED
      BY <1>1, <1>3, <2>3, <2>4, <2>5 DEF DeletesInv
  <1>10. QED
    BY <1>4, <1>6, <1>8, <1>9 DEF FilesInv

\* Files end, and the delete files of files that end with them.
FilesEnded(gone, H) ==
    /\ DataFiles' = {Closed(f, {g \in DataFiles : g.id \in gone}) : f \in DataFiles}
    /\ DeleteFiles' = {Closed(d, H) : d \in DeleteFiles}
    /\ stored'.deletes = stored.deletes
    /\ lake'.files = Without(lake.files, gone)
    /\ \A d \in DeleteFiles \cap H : d.file \in DOMAIN lake.files => d.file \in gone

\* Files that end keep it, since their rows stay for the snapshots that saw them.
LEMMA FilesEndedStep ==
    ASSUME Commits, NEW gone, NEW H, FilesEnded(gone, H)
    PROVE  FilesInv' /\ NextFile' = NextFile
  <1> DEFINE G == {g \in DataFiles : g.id \in gone}
  <1>1. /\ LakeInv /\ FileRowsInv /\ HistoryInv /\ DeletesInv
        /\ now \in Nat /\ 0 < now /\ now' = now + 1
        /\ lake = At(now - 1) /\ history'[now + 1] = lake'
        /\ \A s \in Snapshots : history'[s + 1] = At(s)
        /\ Snapshots = 0 .. now - 1 /\ Snapshots' = Snapshots \cup {now}
        /\ lake.next \in Nat /\ lake'.next \in Nat /\ lake'.next >= lake.next
        /\ FileTables \subseteq DOMAIN relation'
    BY CommitFacts DEF Commits
  <1>2. /\ DataFiles' = {Closed(f, G) : f \in DataFiles}
        /\ DeleteFiles' = {Closed(d, H) : d \in DeleteFiles}
        /\ stored'.deletes = stored.deletes
        /\ lake'.files = Without(lake.files, gone)
        /\ \A d \in DeleteFiles \cap H : d.file \in DOMAIN lake.files => d.file \in gone
    BY DEF FilesEnded
  <1>3. /\ IsFiniteSet(DataFiles') /\ IsFiniteSet(DeleteFiles')
        /\ Cardinality(DataFiles') = Cardinality(DataFiles)
        /\ Cardinality(DeleteFiles') = Cardinality(DeleteFiles)
    <2>1. /\ IsFiniteSet(DataFiles)
          /\ \A f \in DataFiles : {"id", "end"} \subseteq DOMAIN f
          /\ \A f, g \in DataFiles : f.id = g.id => f = g
      BY <1>1 DEF FileRowsInv
    <2>2. /\ IsFiniteSet(DeleteFiles)
          /\ \A d \in DeleteFiles : {"id", "end"} \subseteq DOMAIN d
          /\ \A d, e \in DeleteFiles : d.id = e.id => d = e
      BY <1>1 DEF FileRowsInv
    <2> HIDE DEF G
    <2>3. IsFiniteSet(DataFiles') /\ Cardinality(DataFiles') = Cardinality(DataFiles)
      BY <1>2, <2>1, ClosedRows
    <2>4. IsFiniteSet(DeleteFiles') /\ Cardinality(DeleteFiles') = Cardinality(DeleteFiles)
      BY <1>2, <2>2, ClosedRows
    <2>5. QED
      BY <2>3, <2>4
  <1>4. ASSUME NEW f \in DataFiles
        PROVE  /\ DOMAIN Closed(f, G) = DOMAIN f
               /\ Closed(f, G).id = f.id /\ Closed(f, G).table = f.table
               /\ Closed(f, G).rows = f.rows /\ Closed(f, G).begin = f.begin
               /\ Closed(f, G).end = IF f.end = Null /\ f.id \in gone THEN now ELSE f.end
    BY <1>1 DEF Closed, FileRowsInv
  <1>5. ASSUME NEW d \in DeleteFiles
        PROVE  /\ DOMAIN Closed(d, H) = DOMAIN d
               /\ Closed(d, H).id = d.id /\ Closed(d, H).table = d.table
               /\ Closed(d, H).file = d.file /\ Closed(d, H).rows = d.rows
               /\ Closed(d, H).begin = d.begin
               /\ Closed(d, H).end = IF d.end = Null /\ d \in H THEN now ELSE d.end
    BY <1>1 DEF Closed, FileRowsInv
  <1> HIDE DEF G
  <1>6. NextFile' = NextFile
    BY <1>3 DEF NextFile, DataFiles, DeleteFiles
  <1>7. FileRowsInv'
    <2>1. ASSUME NEW f \in DataFiles
          PROVE  /\ DOMAIN Closed(f, G) = {"id", "table", "size", "rows", "begin", "end"}
                 /\ f.id \in Nat /\ f.id < NextFile
                 /\ f.table \in Nat /\ f.table < lake'.next
                 /\ f.begin \in Nat /\ 0 < f.begin /\ f.begin < now'
                 /\ Closed(f, G).end # Null =>
                       /\ Closed(f, G).end \in Nat
                       /\ f.begin < Closed(f, G).end /\ Closed(f, G).end < now'
      BY <1>1, <1>4, SMTT(20) DEF FileRowsInv
    <2>2. ASSUME NEW d \in DeleteFiles
          PROVE  /\ DOMAIN Closed(d, H) = {"id", "table", "file", "size", "rows", "begin", "end"}
                 /\ d.id \in Nat /\ d.id < NextFile
                 /\ d.begin \in Nat /\ 0 < d.begin /\ d.begin < now'
                 /\ \E f \in DataFiles : f.id = d.file /\ f.table = d.table
      BY <1>1, <1>5 DEF FileRowsInv
    <2>3. /\ \A f, g \in DataFiles : Closed(f, G).id = Closed(g, G).id => f = g
          /\ \A d, e \in DeleteFiles : Closed(d, H).id = Closed(e, H).id => d = e
      <3>1. /\ \A f, g \in DataFiles : f.id = g.id => f = g
            /\ \A d, e \in DeleteFiles : d.id = e.id => d = e
        BY <1>1 DEF FileRowsInv
      <3>2. QED
        BY <1>4, <1>5, <3>1
    <2>4. ASSUME NEW d \in DeleteFiles
          PROVE  \E f \in DataFiles' : f.id = Closed(d, H).file /\ f.table = Closed(d, H).table
      BY <1>2, <1>4, <1>5, <2>2
    <2>5. \A f \in DataFiles' :
             /\ DOMAIN f = {"id", "table", "size", "rows", "begin", "end"}
             /\ f.id \in Nat /\ f.id < NextFile
             /\ f.table \in Nat /\ f.table < lake'.next
             /\ f.begin \in Nat /\ 0 < f.begin /\ f.begin < now'
             /\ f.end # Null => f.end \in Nat /\ f.begin < f.end /\ f.end < now'
      BY <1>2, <1>4, <2>1
    <2>6. \A d \in DeleteFiles' :
             /\ DOMAIN d = {"id", "table", "file", "size", "rows", "begin", "end"}
             /\ d.id \in Nat /\ d.id < NextFile
             /\ d.begin \in Nat /\ 0 < d.begin /\ d.begin < now'
             /\ \E f \in DataFiles' : f.id = d.file /\ f.table = d.table
      BY <1>2, <1>5, <2>2, <2>4
    <2>7. /\ \A f, g \in DataFiles' : f.id = g.id => f = g
          /\ \A d, e \in DeleteFiles' : d.id = e.id => d = e
      BY <1>2, <2>3
    <2>8. QED
      BY <1>1, <1>3, <1>6, <2>5, <2>6, <2>7 DEF FileRowsInv
  <1>8. \A y, u, r, s : GoneBy(y, u, r, s)' <=> GoneBy(y, u, r, s)
    <2>1. \A y, r, s : (\E d \in DeleteFiles' : d.file = y /\ d.begin <= s /\ r \in d.rows)
                       <=> (\E d \in DeleteFiles : d.file = y /\ d.begin <= s /\ r \in d.rows)
      BY <1>2, <1>5
    <2>2. QED
      BY <1>2, <2>1 DEF GoneBy, InlinedDeletes
  <1>9. HistoryInv'
    <2> SUFFICES ASSUME NEW s \in Snapshots' PROVE Reads(s)'
      BY DEF HistoryInv
    <2>1. CASE s \in Snapshots
      <3>1. \A f \in DataFiles : Visible(Closed(f, G), s) <=> Visible(f, s)
        BY <1>1, <1>4, <2>1, NullIsNoNumber DEF Visible, FileRowsInv
      <3>2. At(s)' = At(s) /\ Reads(s)
        BY <1>1, <2>1 DEF At, HistoryInv
      <3>3. DOMAIN At(s).files = {f.id : f \in {f \in DataFiles' : Visible(f, s)}}
        <4>1. DOMAIN At(s).files = {f.id : f \in {f \in DataFiles : Visible(f, s)}}
          BY <3>2 DEF Reads
        <4>2. \A y \in DOMAIN At(s).files : \E f \in DataFiles' : Visible(f, s) /\ f.id = y
          BY <1>2, <1>4, <3>1, <4>1
        <4>3. \A f \in DataFiles' : Visible(f, s) => f.id \in DOMAIN At(s).files
          BY <1>2, <1>4, <3>1, <4>1
        <4>4. QED
          BY <4>2, <4>3
      <3>4. ASSUME NEW g \in DataFiles', Visible(g, s)
            PROVE  /\ At(s).files[g.id].table = g.table
                   /\ At(s).files[g.id].rows = {r \in g.rows : ~GoneBy(g.id, g.table, r, s)'}
        <4>1. PICK f \in DataFiles : g = Closed(f, G)
          BY <1>2
        <4>2. /\ g.id = f.id /\ g.table = f.table /\ g.rows = f.rows /\ Visible(f, s)
          BY <1>4, <3>1, <3>4, <4>1
        <4>3. QED
          BY <1>8, <3>2, <4>2 DEF Reads
      <3>5. QED
        BY <3>2, <3>3, <3>4 DEF Reads
    <2>2. CASE s = now
      <3>1. \A f \in DataFiles : Visible(Closed(f, G), s) <=> f.end = Null /\ f.id \notin gone
        BY <1>1, <1>4, <2>2, NullIsNoNumber DEF Visible, FileRowsInv
      <3>2. At(s)' = lake'
        BY <1>1, <2>2 DEF At
      <3>3. /\ DOMAIN lake'.files = DOMAIN lake.files \ gone
            /\ \A y \in DOMAIN lake'.files : lake'.files[y] = lake.files[y]
        BY <1>2 DEF Without
      <3>4. DOMAIN lake'.files = {f.id : f \in {f \in DataFiles' : Visible(f, s)}}
        <4>1. \A y \in DOMAIN lake'.files : \E f \in DataFiles' : Visible(f, s) /\ f.id = y
          BY <1>2, <1>4, <3>1, <3>3, LiveFiles
        <4>2. \A f \in DataFiles' : Visible(f, s) => f.id \in DOMAIN lake'.files
          BY <1>2, <1>4, <3>1, <3>3, LiveFiles
        <4>3. QED
          BY <4>1, <4>2
      <3>5. ASSUME NEW g \in DataFiles', Visible(g, s)
            PROVE  /\ lake'.files[g.id].table = g.table
                   /\ lake'.files[g.id].rows = {r \in g.rows : ~GoneBy(g.id, g.table, r, s)'}
        <4>1. PICK f \in DataFiles : g = Closed(f, G)
          BY <1>2
        <4>2. /\ g.id = f.id /\ g.table = f.table /\ g.rows = f.rows
              /\ f.end = Null /\ f.id \notin gone
          BY <1>4, <3>1, <3>5, <4>1
        <4>3. lake'.files[g.id] = lake.files[f.id]
          BY <3>3, <4>2, LiveFiles
        <4>4. \A r : GoneBy(g.id, g.table, r, s)' <=> GoneBy(f.id, f.table, r, now - 1)
          BY <1>8, <2>2, <4>2, TakenBefore
        <4>5. QED
          BY <4>2, <4>3, <4>4, LiveFiles
      <3>6. QED
        BY <3>2, <3>4, <3>5 DEF Reads
    <2>3. QED
      BY <1>1, <2>1, <2>2
  <1>10. DeletesInv'
    <2>1. \A y, r : \A s \in Snapshots : RowThere(y, r, s)' <=> RowThere(y, r, s)
      BY <1>1 DEF RowThere, At
    <2>2. \A d \in DeleteFiles : d.begin - 1 \in Snapshots
      BY <1>1 DEF FileRowsInv
    <2>3. ASSUME NEW u \in DOMAIN stored.deletes, NEW del \in stored.deletes[u]
          PROVE  /\ del.begin \in Nat /\ 0 < del.begin /\ del.begin < now'
                 /\ RowThere(del.file, del.row, del.begin - 1)'
                 /\ \E f \in DataFiles' : f.id = del.file /\ f.table = u
      <3>1. /\ del.begin \in Nat /\ 0 < del.begin /\ del.begin < now
            /\ RowThere(del.file, del.row, del.begin - 1)
        BY <1>1 DEF DeletesInv
      <3>2. PICK f \in DataFiles : f.id = del.file /\ f.table = u
        BY <1>1 DEF DeletesInv
      <3>3. Closed(f, G) \in DataFiles' /\ Closed(f, G).id = del.file /\ Closed(f, G).table = u
        BY <1>2, <1>4, <3>2
      <3>4. QED
        BY <1>1, <2>1, <3>1, <3>3
    <2>4. ASSUME NEW c \in DeleteFiles', NEW r \in c.rows
          PROVE  \E e \in DeleteFiles' : /\ e.file = c.file /\ e.begin <= c.begin /\ r \in e.rows
                                         /\ RowThere(e.file, r, e.begin - 1)'
      <3>1. PICK d \in DeleteFiles : c = Closed(d, H)
        BY <1>2
      <3>2. PICK e \in DeleteFiles : /\ e.file = d.file /\ e.begin <= d.begin /\ r \in e.rows
                                     /\ RowThere(e.file, r, e.begin - 1)
        BY <1>1, <1>5, <2>4, <3>1 DEF DeletesInv
      <3>3. PICK g \in DeleteFiles' : g = Closed(e, H)
        BY <1>2
      <3>4. /\ g.file = c.file /\ g.begin <= c.begin /\ r \in g.rows
            /\ g.file = e.file /\ g.begin = e.begin
        BY <1>5, <3>1, <3>2, <3>3
      <3>5. RowThere(g.file, r, g.begin - 1)'
        BY <2>1, <2>2, <3>2, <3>4
      <3>6. QED
        BY <3>4, <3>5
    <2>5. ASSUME NEW c \in DeleteFiles', c.file \in DOMAIN lake'.files
          PROVE  \E e \in DeleteFiles' : e.file = c.file /\ e.end = Null /\ c.rows \subseteq e.rows
      <3>1. PICK d \in DeleteFiles : c = Closed(d, H)
        BY <1>2
      <3>2. c.file = d.file /\ c.rows = d.rows /\ d.file \in DOMAIN lake.files /\ d.file \notin gone
        BY <1>2, <1>5, <2>5, <3>1 DEF Without
      <3>3. PICK e \in DeleteFiles : e.file = d.file /\ e.end = Null /\ d.rows \subseteq e.rows
        BY <1>1, <3>2 DEF DeletesInv
      <3>4. e \notin H
        BY <1>2, <3>2, <3>3
      <3>5. Closed(e, H) = e /\ Closed(e, H) \in DeleteFiles'
        BY <1>2, <3>4 DEF Closed
      <3>6. QED
        BY <3>2, <3>3, <3>5
    <2>6. \A d, e \in DeleteFiles' : d.file = e.file /\ d.begin <= e.begin => d.rows \subseteq e.rows
      <3>1. \A d, e \in DeleteFiles : d.file = e.file /\ d.begin <= e.begin => d.rows \subseteq e.rows
        BY <1>1 DEF DeletesInv
      <3>2. QED
        BY <1>2, <1>5, <3>1
    <2>7. QED
      BY <1>2, <2>3, <2>4, <2>5, <2>6 DEF DeletesInv
  <1>11. QED
    BY <1>6, <1>7, <1>9, <1>10 DEF FilesInv

\* A delete file takes the place of the one before it, whose rows it has too.
RowsDeleted(x, R, new) ==
    LET old == {d \in DeleteFiles : d.file = x /\ d.end = Null}
    IN  /\ DataFiles' = DataFiles
        /\ DeleteFiles' = {Closed(d, old) : d \in DeleteFiles} \cup {new}
        /\ stored'.deletes = stored.deletes
        /\ DOMAIN new = {"id", "table", "file", "size", "rows", "begin", "end"}
        /\ new.id = NextFile /\ new.table = lake.files[x].table /\ new.file = x
        /\ new.rows = R \cup UNION {d.rows : d \in old}
        /\ new.begin = now /\ new.end = Null
        /\ R \subseteq lake.files[x].rows
        /\ DOMAIN lake'.files = DOMAIN lake.files
        /\ \A y \in DOMAIN lake.files :
              /\ lake'.files[y].table = lake.files[y].table
              /\ lake'.files[y].rows = IF y = x THEN lake.files[x].rows \ R ELSE lake.files[y].rows

\* A delete file that replaces another keeps it, since it has that one's rows and more.
LEMMA RowsDeletedStep ==
    ASSUME Commits, NEW x \in DOMAIN lake.files, NEW R, NEW new, RowsDeleted(x, R, new)
    PROVE  FilesInv' /\ NextFile' = NextFile + 1
  <1> DEFINE old == {d \in DeleteFiles : d.file = x /\ d.end = Null}
             C == {Closed(d, old) : d \in DeleteFiles}
  <1>1. /\ LakeInv /\ FileRowsInv /\ HistoryInv /\ DeletesInv
        /\ now \in Nat /\ 0 < now /\ now' = now + 1
        /\ lake = At(now - 1) /\ history'[now + 1] = lake'
        /\ \A s \in Snapshots : history'[s + 1] = At(s)
        /\ Snapshots = 0 .. now - 1 /\ Snapshots' = Snapshots \cup {now}
        /\ lake.next \in Nat /\ lake'.next \in Nat /\ lake'.next >= lake.next
        /\ FileTables \subseteq DOMAIN relation'
        /\ NextFile \in Nat
    BY CommitFacts DEF Commits
  <1>2. /\ DataFiles' = DataFiles
        /\ DeleteFiles' = C \cup {new}
        /\ stored'.deletes = stored.deletes
        /\ DOMAIN new = {"id", "table", "file", "size", "rows", "begin", "end"}
        /\ new.id = NextFile /\ new.table = lake.files[x].table /\ new.file = x
        /\ new.rows = R \cup UNION {d.rows : d \in old}
        /\ new.begin = now /\ new.end = Null
        /\ R \subseteq lake.files[x].rows
        /\ DOMAIN lake'.files = DOMAIN lake.files
        /\ \A y \in DOMAIN lake.files :
              /\ lake'.files[y].table = lake.files[y].table
              /\ lake'.files[y].rows = IF y = x THEN lake.files[x].rows \ R ELSE lake.files[y].rows
    BY DEF RowsDeleted
  <1>3. ASSUME NEW d \in DeleteFiles
        PROVE  /\ DOMAIN Closed(d, old) = DOMAIN d
               /\ Closed(d, old).id = d.id /\ Closed(d, old).table = d.table
               /\ Closed(d, old).file = d.file /\ Closed(d, old).rows = d.rows
               /\ Closed(d, old).begin = d.begin
               /\ d.file # x => Closed(d, old) = d
    BY <1>1 DEF Closed, FileRowsInv
  <1>4. \A c \in C : \E d \in DeleteFiles : c = Closed(d, old)
    OBVIOUS
  <1>5. \A d \in DeleteFiles : Closed(d, old) \in C
    OBVIOUS
  <1>6. \A r : r \in UNION {d.rows : d \in old} <=> \E d \in DeleteFiles : d \in old /\ r \in d.rows
    OBVIOUS
  <1>7. \A d \in old : d \in DeleteFiles /\ d.file = x
    OBVIOUS
  <1>8. \A d \in DeleteFiles : d.file = x => d.rows \subseteq new.rows
    BY <1>1, <1>2 DEF DeletesInv
  <1>9. IsFiniteSet(C) /\ Cardinality(C) = Cardinality(DeleteFiles)
    <2>1. /\ IsFiniteSet(DeleteFiles)
          /\ \A d \in DeleteFiles : {"id", "end"} \subseteq DOMAIN d
          /\ \A d, e \in DeleteFiles : d.id = e.id => d = e
      BY <1>1 DEF FileRowsInv
    <2>2. C = {Closed(d, old) : d \in DeleteFiles}
      OBVIOUS
    <2> HIDE DEF C, old
    <2>3. QED
      BY <2>1, <2>2, ClosedRows
  <1> HIDE DEF C, old
  <1>10. /\ NextFile' = NextFile + 1
         /\ IsFiniteSet(DeleteFiles')
    <2>1. new \notin C
      BY <1>1, <1>2, <1>3, <1>4 DEF FileRowsInv
    <2>2. Cardinality(DataFiles) \in Nat /\ Cardinality(DeleteFiles) \in Nat
      BY <1>1, FS_CardinalityType DEF FileRowsInv
    <2>3. Cardinality(DeleteFiles') = Cardinality(DeleteFiles) + 1 /\ IsFiniteSet(DeleteFiles')
      BY <1>2, <1>9, <2>1, OneMoreRow
    <2>4. QED
      BY <1>2, <2>2, <2>3 DEF NextFile, DataFiles, DeleteFiles
  <1>11. PICK file \in DataFiles : /\ file.id = x /\ file.end = Null
                                   /\ file.table = lake.files[x].table
                                   /\ lake.files[x].rows =
                                         {r \in file.rows : ~GoneBy(x, file.table, r, now - 1)}
    BY LiveFiles
  <1>12. FileRowsInv'
    <2>1. ASSUME NEW f \in DataFiles
          PROVE  /\ DOMAIN f = {"id", "table", "size", "rows", "begin", "end"}
                 /\ f.id \in Nat /\ f.id < NextFile'
                 /\ f.table \in Nat /\ f.table < lake'.next
                 /\ f.begin \in Nat /\ 0 < f.begin /\ f.begin < now'
                 /\ f.end # Null => f.end \in Nat /\ f.begin < f.end /\ f.end < now'
      <3>1. /\ DOMAIN f = {"id", "table", "size", "rows", "begin", "end"}
            /\ f.id \in Nat /\ f.id < NextFile /\ f.table \in Nat /\ f.table < lake.next
            /\ f.begin \in Nat /\ 0 < f.begin /\ f.begin < now
            /\ f.end # Null => f.end \in Nat /\ f.begin < f.end /\ f.end < now
        BY <1>1 DEF FileRowsInv
      <3>2. QED
        BY <1>1, <1>10, <3>1
    <2>2. ASSUME NEW d \in DeleteFiles
          PROVE  /\ DOMAIN d = {"id", "table", "file", "size", "rows", "begin", "end"}
                 /\ d.id \in Nat /\ d.id < NextFile /\ d.id < NextFile'
                 /\ d.begin \in Nat /\ 0 < d.begin /\ d.begin < now'
                 /\ \E f \in DataFiles : f.id = d.file /\ f.table = d.table
      BY <1>1, <1>10, SMTT(20) DEF FileRowsInv
    <2>3. /\ new.id \in Nat /\ new.id < NextFile'
          /\ new.begin \in Nat /\ 0 < new.begin /\ new.begin < now'
          /\ \E f \in DataFiles : f.id = new.file /\ f.table = new.table
      BY <1>1, <1>2, <1>10, <1>11
    <2>4. \A d \in DeleteFiles' :
             /\ DOMAIN d = {"id", "table", "file", "size", "rows", "begin", "end"}
             /\ d.id \in Nat /\ d.id < NextFile'
             /\ d.begin \in Nat /\ 0 < d.begin /\ d.begin < now'
             /\ \E f \in DataFiles : f.id = d.file /\ f.table = d.table
      BY <1>2, <1>3, <1>4, <2>2, <2>3
    <2>5. \A d, e \in DeleteFiles : d.id = e.id => d = e
      BY <1>1 DEF FileRowsInv
    <2>6. \A c \in C : c.id # new.id
      BY <1>1, <1>2, <1>3, <1>4, <2>2
    <2>7. \A c, b \in C : c.id = b.id => c = b
      BY <1>3, <1>4, <2>5
    <2>8. \A d, e \in DeleteFiles' : d.id = e.id => d = e
      BY <1>2, <2>6, <2>7
    <2>9. IsFiniteSet(DataFiles) /\ \A f, g \in DataFiles : f.id = g.id => f = g
      BY <1>1 DEF FileRowsInv
    <2>10. QED
      BY <1>1, <1>2, <1>10, <2>1, <2>4, <2>8, <2>9 DEF FileRowsInv
  <1>13. ASSUME NEW y, NEW u, NEW r, NEW s \in Snapshots'
         PROVE  GoneBy(y, u, r, s)' <=> \/ GoneBy(y, u, r, s)
                                        \/ s = now /\ y = x /\ r \in new.rows
    <2>1. new.begin <= s <=> s = now
      BY <1>1, <1>2
    <2>2. (\E d \in DeleteFiles' : d.file = y /\ d.begin <= s /\ r \in d.rows)
             <=> \/ \E d \in DeleteFiles : d.file = y /\ d.begin <= s /\ r \in d.rows
                 \/ s = now /\ y = x /\ r \in new.rows
      BY <1>2, <1>3, <1>4, <1>5, <2>1
    <2>3. InlinedDeletes(stored', u) = InlinedDeletes(stored, u)
      BY <1>2 DEF InlinedDeletes
    <2>4. QED
      BY <2>2, <2>3, Zenon DEF GoneBy
  <1>14. HistoryInv'
    <2> SUFFICES ASSUME NEW s \in Snapshots' PROVE Reads(s)'
      BY DEF HistoryInv
    <2>1. CASE s \in Snapshots
      <3>1. ASSUME NEW y, NEW u, NEW r
            PROVE  GoneBy(y, u, r, s)' <=> GoneBy(y, u, r, s)
        <4>1. s # now
          BY <1>1, <2>1
        <4>2. QED
          BY <1>13, <4>1
      <3>2. At(s)' = At(s)
        BY <1>1, <2>1 DEF At
      <3>3. QED
        BY <1>1, <1>2, <2>1, <3>1, <3>2 DEF HistoryInv, Reads
    <2>2. CASE s = now
      <3>1. \A f \in DataFiles : Visible(f, s) <=> f.end = Null
        BY <1>1, <2>2 DEF Visible, FileRowsInv
      <3>2. At(s)' = lake'
        BY <1>1, <2>2 DEF At
      <3>3. DOMAIN lake'.files = {f.id : f \in {f \in DataFiles : Visible(f, s)}}
        BY <1>2, <3>1, LiveFiles
      <3>4. ASSUME NEW f \in DataFiles, Visible(f, s)
            PROVE  /\ lake'.files[f.id].table = f.table
                   /\ lake'.files[f.id].rows = {r \in f.rows : ~GoneBy(f.id, f.table, r, s)'}
        <4>1. /\ f.id \in DOMAIN lake.files
              /\ lake.files[f.id].table = f.table
              /\ lake.files[f.id].rows = {r \in f.rows : ~GoneBy(f.id, f.table, r, now - 1)}
          BY <3>1, <3>4, LiveFiles
        <4>2. \A r : GoneBy(f.id, f.table, r, s)' <=> \/ GoneBy(f.id, f.table, r, now - 1)
                                                      \/ f.id = x /\ r \in new.rows
          BY <1>13, <2>2, TakenBefore
        <4>3. CASE f.id # x
          BY <1>2, <4>1, <4>2, <4>3
        <4>4. CASE f.id = x
          <5>1. \A r \in new.rows : r \in R \/ GoneBy(f.id, f.table, r, now - 1)
            <6>1. \A d \in old : d.begin <= now - 1
              BY <1>1, <1>7, TakenBefore
            <6>2. QED
              BY <1>2, <1>6, <1>7, <4>4, <6>1 DEF GoneBy
          <5>2. R \subseteq new.rows
            BY <1>2
          <5>3. QED
            BY <1>2, <4>1, <4>2, <4>4, <5>1, <5>2
        <4>5. QED
          BY <4>3, <4>4
      <3>5. QED
        BY <1>2, <3>2, <3>3, <3>4 DEF Reads
    <2>3. QED
      BY <1>1, <2>1, <2>2
  <1>15. DeletesInv'
    <2>1. \A y, r : \A s \in Snapshots : RowThere(y, r, s)' <=> RowThere(y, r, s)
      BY <1>1 DEF RowThere, At
    <2>2. \A d \in DeleteFiles : d.begin - 1 \in Snapshots
      BY <1>1, SMTT(20) DEF FileRowsInv
    <2>3. ASSUME NEW u \in DOMAIN stored.deletes, NEW del \in stored.deletes[u]
          PROVE  /\ del.begin \in Nat /\ 0 < del.begin /\ del.begin < now'
                 /\ RowThere(del.file, del.row, del.begin - 1)'
                 /\ \E f \in DataFiles' : f.id = del.file /\ f.table = u
      BY <1>1, <1>2, <2>1 DEF DeletesInv
    <2>4. ASSUME NEW d \in DeleteFiles, NEW r \in d.rows
          PROVE  \E e \in DeleteFiles' : /\ e.file = d.file /\ e.begin <= d.begin /\ r \in e.rows
                                         /\ RowThere(e.file, r, e.begin - 1)'
      <3>1. PICK e \in DeleteFiles : /\ e.file = d.file /\ e.begin <= d.begin /\ r \in e.rows
                                     /\ RowThere(e.file, r, e.begin - 1)
        BY <1>1 DEF DeletesInv
      <3>2. PICK c \in DeleteFiles' : c = Closed(e, old)
        BY <1>2, <1>5
      <3>3. c.file = e.file /\ c.begin = e.begin /\ c.rows = e.rows
        BY <1>3, <3>2
      <3>4. RowThere(c.file, r, c.begin - 1)'
        BY <2>1, <2>2, <3>1, <3>3
      <3>5. QED
        BY <3>1, <3>3, <3>4
    <2>5. ASSUME NEW r \in new.rows
          PROVE  \E e \in DeleteFiles' : /\ e.file = x /\ e.begin <= now /\ r \in e.rows
                                         /\ RowThere(e.file, r, e.begin - 1)'
      <3>1. CASE r \in R
        <4>1. RowThere(x, r, now - 1)
          BY <1>1, <1>2, <3>1 DEF RowThere
        <4>2. RowThere(new.file, r, new.begin - 1)'
          BY <1>1, <1>2, <2>1, <4>1
        <4>3. QED
          BY <1>1, <1>2, <4>2
      <3>2. CASE r \notin R
        <4>1. PICK d \in DeleteFiles : d.file = x /\ r \in d.rows
          BY <1>2, <1>6, <1>7, <3>2
        <4>2. PICK e \in DeleteFiles' : /\ e.file = d.file /\ e.begin <= d.begin /\ r \in e.rows
                                        /\ RowThere(e.file, r, e.begin - 1)'
          BY <2>4, <4>1
        <4>3. e.begin <= now
          <5>1. d.begin \in Nat /\ d.begin < now
            BY <1>1 DEF FileRowsInv
          <5>2. e.begin \in Nat
            BY <1>12 DEF FileRowsInv
          <5>3. QED
            BY <1>1, <4>2, <5>1, <5>2
        <4>4. QED
          BY <4>1, <4>2, <4>3
      <3>3. QED
        BY <3>1, <3>2
    <2>6. ASSUME NEW c \in DeleteFiles', NEW r \in c.rows
          PROVE  \E e \in DeleteFiles' : /\ e.file = c.file /\ e.begin <= c.begin /\ r \in e.rows
                                         /\ RowThere(e.file, r, e.begin - 1)'
      <3>1. CASE c = new
        BY <1>2, <2>5, <2>6, <3>1
      <3>2. CASE c \in C
        <4>1. PICK d \in DeleteFiles : c = Closed(d, old)
          BY <1>4, <3>2
        <4>2. d.file = c.file /\ d.begin = c.begin /\ d.rows = c.rows
          BY <1>3, <4>1
        <4>3. QED
          BY <2>4, <2>6, <4>2
      <3>3. QED
        BY <1>2, <3>1, <3>2
    <2>7. ASSUME NEW c \in DeleteFiles', c.file \in DOMAIN lake'.files
          PROVE  \E e \in DeleteFiles' : e.file = c.file /\ e.end = Null /\ c.rows \subseteq e.rows
      <3>1. CASE c.file = x
        BY <1>2, <1>3, <1>4, <1>8, <3>1
      <3>2. CASE c.file # x
        <4>1. PICK d \in DeleteFiles : c = Closed(d, old)
          BY <1>2, <1>4, <3>2
        <4>2. d.file # x /\ d = c
          BY <1>3, <3>2, <4>1
        <4>3. PICK e \in DeleteFiles : e.file = d.file /\ e.end = Null /\ d.rows \subseteq e.rows
          BY <1>1, <1>2, <2>7, <4>2 DEF DeletesInv
        <4>4. e \in DeleteFiles'
          BY <1>2, <1>3, <1>5, <4>2, <4>3
        <4>5. QED
          BY <4>2, <4>3, <4>4
      <3>3. QED
        BY <3>1, <3>2
    <2>8. \A d, e \in DeleteFiles' : d.file = e.file /\ d.begin <= e.begin => d.rows \subseteq e.rows
      <3>1. \A c, b \in C : c.file = b.file /\ c.begin <= b.begin => c.rows \subseteq b.rows
        <4>1. \A d, e \in DeleteFiles :
                 d.file = e.file /\ d.begin <= e.begin => d.rows \subseteq e.rows
          BY <1>1 DEF DeletesInv
        <4>2. QED
          BY <1>3, <1>4, <4>1
      <3>2. \A c \in C : c.file = x => c.rows \subseteq new.rows /\ ~(new.begin <= c.begin)
        <4>1. \A d \in DeleteFiles : d.begin \in Nat /\ d.begin < now
          BY <1>1 DEF FileRowsInv
        <4>2. QED
          BY <1>1, <1>2, <1>3, <1>4, <1>8, <4>1
      <3>3. QED
        BY <1>2, <3>1, <3>2
    <2>9. QED
      BY <1>2, <2>3, <2>6, <2>7, <2>8 DEF DeletesInv
  <1>16. QED
    BY <1>10, <1>12, <1>14, <1>15 DEF FilesInv

\* A row of a file is deleted in the metadata.
RowDeletedInline(x, r) ==
    LET t == lake.files[x].table
    IN  /\ DataFiles' = DataFiles /\ DeleteFiles' = DeleteFiles
        /\ stored'.deletes =
              Put(stored.deletes, t,
                  InlinedDeletes(stored, t) \cup {[file |-> x, row |-> r, begin |-> now]})
        /\ r \in lake.files[x].rows
        /\ DOMAIN lake'.files = DOMAIN lake.files
        /\ \A y \in DOMAIN lake.files :
              /\ lake'.files[y].table = lake.files[y].table
              /\ lake'.files[y].rows = IF y = x THEN lake.files[x].rows \ {r} ELSE lake.files[y].rows

\* An inlined delete keeps it: the row was there, and no delete file has it.
LEMMA RowDeletedInlineStep ==
    ASSUME Commits, NEW x \in DOMAIN lake.files, NEW q, RowDeletedInline(x, q)
    PROVE  FilesInv' /\ NextFile' = NextFile
  <1> PICK t, new : t = lake.files[x].table /\ new = [file |-> x, row |-> q, begin |-> now]
    OBVIOUS
  <1>1. /\ LakeInv /\ FileRowsInv /\ HistoryInv /\ DeletesInv
        /\ now \in Nat /\ 0 < now /\ now' = now + 1
        /\ lake = At(now - 1) /\ history'[now + 1] = lake'
        /\ \A s \in Snapshots : history'[s + 1] = At(s)
        /\ Snapshots = 0 .. now - 1 /\ Snapshots' = Snapshots \cup {now}
        /\ lake.next \in Nat /\ lake'.next \in Nat /\ lake'.next >= lake.next
        /\ FileTables \subseteq DOMAIN relation'
    BY CommitFacts DEF Commits
  <1>2. /\ DataFiles' = DataFiles /\ DeleteFiles' = DeleteFiles
        /\ stored'.deletes = Put(stored.deletes, t, InlinedDeletes(stored, t) \cup {new})
        /\ q \in lake.files[x].rows
        /\ DOMAIN lake'.files = DOMAIN lake.files
        /\ \A y \in DOMAIN lake.files :
              /\ lake'.files[y].table = lake.files[y].table
              /\ lake'.files[y].rows = IF y = x THEN lake.files[x].rows \ {q} ELSE lake.files[y].rows
    BY DEF RowDeletedInline
  <1>3. new.file = x /\ new.row = q /\ new.begin = now
    OBVIOUS
  <1>4. /\ DOMAIN stored'.deletes = DOMAIN stored.deletes \cup {t}
        /\ \A u : InlinedDeletes(stored', u) =
                     IF u = t THEN InlinedDeletes(stored, t) \cup {new}
                              ELSE InlinedDeletes(stored, u)
    BY <1>2 DEF Put, InlinedDeletes
  <1>5. NextFile' = NextFile
    BY <1>2 DEF NextFile, DataFiles, DeleteFiles
  <1>6. PICK file \in DataFiles : /\ file.id = x /\ file.end = Null
                                  /\ file.table = t
                                  /\ lake.files[x].rows =
                                        {r \in file.rows : ~GoneBy(x, t, r, now - 1)}
    BY LiveFiles
  <1>7. ASSUME NEW y, NEW u, NEW r, NEW s \in Snapshots'
        PROVE  GoneBy(y, u, r, s)' <=> \/ GoneBy(y, u, r, s)
                                       \/ s = now /\ y = x /\ u = t /\ r = q
    <2>1. (\E del \in InlinedDeletes(stored', u) : del.file = y /\ del.begin <= s /\ del.row = r)
             <=> \/ \E del \in InlinedDeletes(stored, u) :
                       del.file = y /\ del.begin <= s /\ del.row = r
                 \/ s = now /\ y = x /\ u = t /\ r = q
      BY <1>1, <1>3, <1>4
    <2>2. QED
      BY <1>2, <2>1, Zenon DEF GoneBy
  <1>8. HistoryInv'
    <2> SUFFICES ASSUME NEW s \in Snapshots' PROVE Reads(s)'
      BY DEF HistoryInv
    <2>1. CASE s \in Snapshots
      <3>1. ASSUME NEW y, NEW u, NEW r
            PROVE  GoneBy(y, u, r, s)' <=> GoneBy(y, u, r, s)
        BY <1>1, <1>7, <2>1
      <3>2. QED
        BY <1>1, <1>2, <2>1, <3>1 DEF At, HistoryInv, Reads
    <2>2. CASE s = now
      <3>1. \A f \in DataFiles : Visible(f, s) <=> f.end = Null
        BY <1>1, <2>2 DEF Visible, FileRowsInv
      <3>2. DOMAIN lake'.files = {f.id : f \in {f \in DataFiles : Visible(f, s)}}
        BY <1>2, <3>1, LiveFiles
      <3>3. ASSUME NEW f \in DataFiles, Visible(f, s)
            PROVE  /\ lake'.files[f.id].table = f.table
                   /\ lake'.files[f.id].rows = {r \in f.rows : ~GoneBy(f.id, f.table, r, s)'}
        BY <1>2, <1>7, <2>2, <3>1, <3>3, LiveFiles, TakenBefore
      <3>4. QED
        BY <1>1, <1>2, <2>2, <3>2, <3>3 DEF At, Reads
    <2>3. QED
      BY <1>1, <2>1, <2>2
  <1>9. DeletesInv'
    <2>1. \A y, r : \A s \in Snapshots : RowThere(y, r, s)' <=> RowThere(y, r, s)
      BY <1>1 DEF RowThere, At
    <2>2. \A d \in DeleteFiles : d.begin - 1 \in Snapshots
      BY <1>1 DEF FileRowsInv
    <2>3. ASSUME NEW u \in DOMAIN stored'.deletes, NEW del \in stored'.deletes[u]
          PROVE  /\ del.begin \in Nat /\ 0 < del.begin /\ del.begin < now'
                 /\ RowThere(del.file, del.row, del.begin - 1)'
                 /\ \E f \in DataFiles' : f.id = del.file /\ f.table = u
      <3>1. CASE u = t /\ del = new
        BY <1>1, <1>2, <1>3, <1>6, <2>1, <3>1 DEF RowThere
      <3>2. CASE ~(u = t /\ del = new)
        <4>1. /\ del.begin \in Nat /\ 0 < del.begin /\ del.begin < now
              /\ RowThere(del.file, del.row, del.begin - 1)
              /\ \E f \in DataFiles : f.id = del.file /\ f.table = u
          BY <1>1, <1>4, <3>2 DEF InlinedDeletes, DeletesInv
        <4>2. QED
          BY <1>1, <1>2, <2>1, <4>1
      <3>3. QED
        BY <3>1, <3>2
    <2>4. \A d \in DeleteFiles : \A r \in d.rows :
             \E e \in DeleteFiles : /\ e.file = d.file /\ e.begin <= d.begin /\ r \in e.rows
                                    /\ RowThere(e.file, r, e.begin - 1)'
      BY <1>1, <2>1, <2>2 DEF DeletesInv
    <2>5. QED
      BY <1>1, <1>2, <2>3, <2>4 DEF DeletesInv
  <1>10. QED
    BY <1>1, <1>2, <1>5, <1>8, <1>9 DEF FileRowsInv, FilesInv

\* The schema version of some tables is the new snapshot, and of the others what it was.
VersionsBegin(N) ==
    /\ Versions' = Versions \cup {NewVersion(t) : t \in N}
    /\ DOMAIN lake'.versions = DOMAIN lake'.tables
    /\ \A t \in DOMAIN lake'.versions :
          \/ t \in N /\ lake'.versions[t] = now
          \/ t \notin N /\ t \in DOMAIN lake.versions /\ lake'.versions[t] = lake.versions[t]
    /\ \A f \in DataFiles' :
          \/ \E g \in DataFiles : g.table = f.table /\ g.begin = f.begin
          \/ f.begin = now /\ f.table \in DOMAIN lake'.versions

\* New version rows are those of the tables whose version changes with the snapshot.
LEMMA VersionsStep ==
    ASSUME Commits, NEW N, VersionsBegin(N)
    PROVE  VersionsInv'
  <1>1. /\ VersionsInv /\ FileRowsInv
        /\ now \in Nat /\ 0 < now /\ now' = now + 1
        /\ lake = At(now - 1) /\ history'[now + 1] = lake'
        /\ \A s \in Snapshots : history'[s + 1] = At(s)
        /\ Snapshots = 0 .. now - 1 /\ Snapshots' = Snapshots \cup {now}
    BY CommitFacts
  <1>2. \A t : NewVersion(t) = [table |-> t, begin |-> now, version |-> now]
    BY DEF NewVersion
  <1>3. \A row \in Versions' : \/ row \in Versions
                               \/ \E t \in N : row = [table |-> t, begin |-> now, version |-> now]
    BY <1>2 DEF VersionsBegin
  <1>4. ASSUME NEW row \in Versions
        PROVE  /\ row = [table |-> row.table, begin |-> row.begin, version |-> row.begin]
               /\ row.begin \in Nat /\ row.begin < now
    BY <1>1 DEF VersionsInv
  <1>5. ASSUME NEW row \in Versions'
        PROVE  /\ row = [table |-> row.table, begin |-> row.begin, version |-> row.begin]
               /\ row.begin \in Nat /\ row.begin < now'
    BY <1>1, <1>3, <1>4
  <1>6. ASSUME NEW s \in Snapshots', NEW t \in DOMAIN history'[s + 1].versions
        PROVE  LET v == history'[s + 1].versions[t]
               IN  /\ v <= s
                   /\ [table |-> t, begin |-> v, version |-> v] \in Versions'
                   /\ \A row \in Versions' : row.table = t /\ row.begin <= s => row.begin <= v
    <2> DEFINE v == history'[s + 1].versions[t]
    <2>1. CASE s \in Snapshots
      <3> HIDE DEF v
      <3>1. QED
        BY <1>1, <1>3, <1>6, <2>1 DEF VersionsBegin, VersionsInv, v
    <2>2. CASE s = now /\ t \in N
      <3> HIDE DEF v
      <3>1. QED
        BY <1>1, <1>2, <1>6, <2>2 DEF VersionsBegin, v
    <2>3. CASE s = now /\ t \notin N
      <3> HIDE DEF v
      <3>1. QED
        BY <1>1, <1>3, <1>4, <1>6, <2>3 DEF VersionsBegin, VersionsInv, v
    <2>4. QED
      BY <1>1, <2>1, <2>2, <2>3
  <1>7. ASSUME NEW f \in DataFiles'
        PROVE  f.table \in DOMAIN history'[f.begin + 1].versions
    <2>1. CASE f.begin = now /\ f.table \in DOMAIN lake'.versions
      BY <1>1, <2>1
    <2>2. ASSUME NEW g \in DataFiles, g.table = f.table, g.begin = f.begin
          PROVE  f.table \in DOMAIN history'[f.begin + 1].versions
      BY <1>1, <2>2 DEF FileRowsInv, VersionsInv
    <2>3. QED
      BY <2>1, <2>2 DEF VersionsBegin
  <1>8. QED
    BY <1>5, <1>6, <1>7 DEF VersionsBegin, VersionsInv, At

\* What WrittenBy is of a file that is written now.
WrittenNow(t) ==
    IF t \in DOMAIN lake'.partitions /\ lake'.inlined[t] = lake.inlined[t]
    THEN lake'.partitions[t] ELSE <<>>

\* What happens to partitions and the keys of files.
KeysWritten(K, t) ==
    /\ Keys' = Keys \cup K
    /\ \A row \in K : row.file = NextFile
    /\ DOMAIN lake'.partitions \subseteq DOMAIN lake'.tables
    /\ \A u \in DOMAIN lake'.partitions :
          \/ u \in DOMAIN lake.partitions /\ lake'.partitions[u] = lake.partitions[u]
          \/ IsNumbered(lake'.partitions[u])
    /\ \A f \in DataFiles' :
          \/ \E g \in DataFiles : g.id = f.id /\ g.table = f.table /\ g.begin = f.begin
          \/ /\ f.id = NextFile /\ f.table = t /\ f.begin = now
             /\ K = NumberedKeys(NextFile, WrittenNow(t))
    /\ NextFile' \in {NextFile, NextFile + 1}
    /\ K # {} => NextFile' = NextFile + 1

\* No keys are numbered too.
LEMMA EmptyIsNumbered == IsNumbered(<<>>)
  BY DEF IsNumbered

\* The keys written with a file are those of its table's partition at that time.
LEMMA KeysStep ==
    ASSUME Commits, NEW K, NEW t, KeysWritten(K, t)
    PROVE  KeysInv'
  <1>1. /\ KeysInv /\ FileRowsInv
        /\ NextFile \in Nat /\ now \in Nat /\ 0 < now
        /\ lake = At(now - 1) /\ history'[now + 1] = lake'
        /\ \A s \in Snapshots : history'[s + 1] = At(s)
        /\ Snapshots = 0 .. now - 1
    BY CommitFacts
  <1>2. PICK x : x = NextFile
    OBVIOUS
  <1>3. (\A row \in K : row.file = x) /\ Keys' = Keys \cup K
    BY <1>2 DEF KeysWritten
  <1>4. \A row \in Keys' : row.file \in Nat /\ row.file < NextFile'
    BY <1>1, <1>2, <1>3 DEF KeysInv, KeysWritten
  <1>5. \A u \in DOMAIN lake'.partitions : IsNumbered(lake'.partitions[u])
    BY <1>1 DEF KeysInv, KeysWritten
  <1>6. ASSUME NEW s \in 1 .. now - 1, NEW u
        PROVE  WrittenBy(u, s)' = WrittenBy(u, s)
    <2>1. At(s)' = At(s) /\ At(s - 1)' = At(s - 1)
      BY <1>1 DEF At
    <2>2. QED
      BY <2>1 DEF WrittenBy
  <1>7. ASSUME NEW n, n = now
        PROVE  WrittenBy(t, n)' = WrittenNow(t)
    <2>1. history'[n + 1] = lake' /\ history'[(n - 1) + 1] = lake
      BY <1>1, <1>7 DEF At
    <2>2. QED
      BY <2>1 DEF WrittenBy, WrittenNow, At
  <1>8. ASSUME NEW f \in DataFiles'
        PROVE  LET p == WrittenBy(f.table, f.begin)'
               IN  IsNumbered(p) /\ KeysOf(f.id)' = NumberedKeys(f.id, p)
    <2>1. ASSUME NEW g \in DataFiles, g.id = f.id, g.table = f.table, g.begin = f.begin
          PROVE  LET p == WrittenBy(f.table, f.begin)'
                 IN  IsNumbered(p) /\ KeysOf(f.id)' = NumberedKeys(f.id, p)
      <3>1. g.id < x /\ g.id \in Nat /\ g.begin \in 1 .. now - 1
        BY <1>1, <1>2 DEF FileRowsInv
      <3>2. KeysOf(f.id)' = KeysOf(f.id)
        BY <1>1, <1>2, <1>3, <2>1, <3>1 DEF KeysOf
      <3>3. QED
        BY <1>1, <1>6, <2>1, <3>1, <3>2 DEF KeysInv
    <2>2. CASE /\ f.id = x /\ f.table = t /\ f.begin = now
               /\ K = NumberedKeys(x, WrittenNow(t))
      <3>1. KeysOf(x)' = K
        BY <1>1, <1>2, <1>3 DEF KeysOf, KeysInv
      <3>2. IsNumbered(WrittenNow(t))
        BY <1>5, EmptyIsNumbered DEF WrittenNow
      <3>3. QED
        BY <1>7, <2>2, <3>1, <3>2
    <2>3. QED
      BY <1>2, <2>1, <2>2 DEF KeysWritten
  <1>9. QED
    BY <1>4, <1>5, <1>8 DEF KeysWritten, KeysInv

-----------------------------------------------------------------------------
(* What the actions do to files                                            *)

\* A commit after which the ids go on is one that the steps above are about.
LEMMA SnapshotCommits ==
    ASSUME IInv, FInv, format # "none", NEW db, NEW after, Commit(db, after),
           FileTables \subseteq DOMAIN db,
           after.next \in Nat, after.next >= lake.next
    PROVE  Commits /\ lake' = after /\ relation' = db
  BY SnapshotAdded DEF IInv, Commit, Commits

\* The fields of the lake and the relations that every action uses.
LEMMA FileShapes ==
    ASSUME IInv, FInv, format # "none"
    PROVE  /\ DOMAIN lake = LakeFields /\ lake.next \in Nat
           /\ FileTables \subseteq DOMAIN relation
           /\ DOMAIN stored = {"data", "deletes"}
           /\ DOMAIN lake.versions = DOMAIN lake.tables
          /\ FileShapeInv
  BY DEF IInv, LakeInv, FInv, FilesInv, FileRowsInv, VersionsInv

\* The parts of the invariant make it whole.
LEMMA FInvFromParts ==
    ASSUME Commits, FilesInv', VersionsInv', KeysInv', FileShapeInv'
    PROVE  FInv'
  BY DEF Commits, FInv

\* The schema of the tables of N changes, and no file.
AboutNoFile(N) ==
    /\ FilesKept
    /\ Keys' = Keys /\ lake'.partitions = lake.partitions
    /\ DOMAIN lake'.tables = DOMAIN lake.tables
    /\ Versions' = Versions \cup {NewVersion(t) : t \in N}
    /\ DOMAIN lake'.versions = DOMAIN lake.versions
    /\ \A t \in DOMAIN lake.versions :
          lake'.versions[t] = IF t \in N THEN now ELSE lake.versions[t]

\* A change of the schema keeps the invariant of files.
LEMMA AboutNoFileStep ==
    ASSUME Commits, NEW N, AboutNoFile(N)
    PROVE  FInv'
  <1>1. FilesInv' /\ NextFile' = NextFile
    BY FilesKeptStep DEF AboutNoFile
  <1>2. VersionsInv /\ KeysInv /\ DataFiles' = DataFiles
    BY CommitFacts DEF AboutNoFile, FilesKept
  <1>3. KeysWritten({}, Null)
    BY <1>1, <1>2 DEF KeysWritten, AboutNoFile, KeysInv
  <1>4. QED
    BY <1>1, <1>2, <1>3, VersionsStep, KeysStep, FInvFromParts DEF Commits, FInv, FileShapeInv,
       AboutNoFile, FilesKept, VersionsBegin, VersionsInv

\* Adding, renaming and dropping a column are changes of the schema.
LEMMA SchemaChanges ==
    ASSUME IInv, FInv, format # "none", NEW t \in DOMAIN lake.tables
    PROVE  /\ \A struct : AddColumn(t, struct) => FInv'
           /\ \A i : RenameColumn(t, i) \/ DropColumn(t, i) => FInv'
  <1> USE FileShapes DEF LakeFields, FileTables
  <1> DEFINE Alters ==
               \E columns, cols : 
                  /\ Commit([relation EXCEPT
                                 !.ducklake_column = cols,
                                 !.ducklake_schema_versions = @ \cup {NewVersion(t)}],
                            [lake EXCEPT !.tables[t] = columns, !.versions[t] = now])
                  /\ UNCHANGED stored
  <1>1. ASSUME Alters
        PROVE  FInv'
    <2>1. PICK columns, cols : 
                  /\ Commit([relation EXCEPT
                                 !.ducklake_column = cols,
                                 !.ducklake_schema_versions = @ \cup {NewVersion(t)}],
                            [lake EXCEPT !.tables[t] = columns, !.versions[t] = now])
                  /\ UNCHANGED stored
      BY <1>1
    <2> DEFINE db == [relation EXCEPT !.ducklake_column = cols,
                                      !.ducklake_schema_versions = @ \cup {NewVersion(t)}]
               after == [lake EXCEPT !.tables[t] = columns, !.versions[t] = now]
    <2>2. /\ FileTables \subseteq DOMAIN db
          /\ after.next = lake.next
          /\ db.ducklake_data_file = DataFiles /\ db.ducklake_delete_file = DeleteFiles
          /\ db.ducklake_schema_versions = Versions \cup {NewVersion(u) : u \in {t}}
          /\ db.ducklake_file_partition_value = Keys
      BY DEF DataFiles, DeleteFiles, Versions, Keys
    <2>3. /\ after.files = lake.files /\ after.partitions = lake.partitions
          /\ DOMAIN after.tables = DOMAIN lake.tables
          /\ DOMAIN after.versions = DOMAIN lake.versions
          /\ \A u \in DOMAIN lake.versions :
                after.versions[u] = IF u \in {t} THEN now ELSE lake.versions[u]
      OBVIOUS
    <2>4. Commit(db, after) /\ UNCHANGED stored
      BY <2>1
    <2> HIDE DEF db, after
    <2>5. Commits /\ lake' = after /\ relation' = db
      BY <2>2, <2>4, SnapshotCommits
    <2>6. QED
      BY <2>2, <2>3, <2>4, <2>5, AboutNoFileStep DEF AboutNoFile, FilesKept, DataFiles,
         DeleteFiles, Versions, Keys
  <1>2. ASSUME NEW struct, AddColumn(t, struct)
        PROVE  Alters
    BY <1>2 DEF AddColumn
  <1>3. ASSUME NEW i, RenameColumn(t, i)
        PROVE  Alters
    BY <1>3 DEF RenameColumn
  <1>4. ASSUME NEW i, DropColumn(t, i)
        PROVE  Alters
    BY <1>4 DEF DropColumn
  <1>5. QED
    BY <1>1, <1>2, <1>3, <1>4

\* A snapshot that is about neither files nor schemas.
Apart(db, after) ==
    /\ Commit(db, after)
    /\ FileTables \subseteq DOMAIN db
    /\ \A name \in FileTables : db[name] = relation[name]
    /\ stored'.deletes = stored.deletes
    /\ after.next \in Nat /\ after.next >= lake.next
    /\ DOMAIN after.tables = DOMAIN lake.tables
    /\ after.files = lake.files /\ after.partitions = lake.partitions
    /\ after.versions = lake.versions

\* A commit apart from files and schema keeps it.
LEMMA ApartStep ==
    ASSUME IInv, FInv, format # "none", NEW db, NEW after, Apart(db, after)
    PROVE  FInv'
  <1>1. Commits /\ lake' = after /\ relation' = db
    BY SnapshotCommits DEF Apart
  <1>2. /\ db.ducklake_data_file = DataFiles /\ db.ducklake_delete_file = DeleteFiles
        /\ db.ducklake_schema_versions = Versions /\ db.ducklake_file_partition_value = Keys
    BY DEF Apart, FileTables, DataFiles, DeleteFiles, Versions, Keys
  <1>3. AboutNoFile({})
    BY <1>1, <1>2 DEF AboutNoFile, FilesKept, Apart, DataFiles, DeleteFiles, Versions, Keys
  <1>4. QED
    BY <1>1, <1>3, AboutNoFileStep

\* Comments, views, macros and inlined inserts are apart.
LEMMA CommentsAreApart ==
    ASSUME IInv, FInv, format # "none"
    PROVE  /\ \A t : CommentOnTable(t) \/ InlineInsert(t) => FInv'
           /\ \A t, i : CommentOnColumn(t, i) => FInv'
           /\ \A v : CommentOnView(v) \/ DropView(v) => FInv'
           /\ \A m : DropMacro(m) => FInv'
           /\ CreateView \/ CreateMacro => FInv'
  <1> USE FileShapes DEF LakeFields, FileTables
  <1>1. ASSUME NEW t, CommentOnTable(t)
        PROVE  FInv'
    <2>1. PICK tags : Commit([relation EXCEPT !.ducklake_tag = tags],
                             [lake EXCEPT !.tables[t].tags = {<<"comment", now>>}])
      BY <1>1 DEF CommentOnTable
    <2>2. QED
      BY <1>1, <2>1, ApartStep DEF Apart, CommentOnTable
  <1>2. ASSUME NEW t, NEW i, CommentOnColumn(t, i)
        PROVE  FInv'
    <2>1. PICK tags, table : Commit([relation EXCEPT !.ducklake_column_tag = tags],
                                    [lake EXCEPT !.tables[t] = table])
      BY <1>2 DEF CommentOnColumn
    <2>2. QED
      BY <1>2, <2>1, ApartStep DEF Apart, CommentOnColumn
  <1>3. ASSUME NEW v, CommentOnView(v)
        PROVE  FInv'
    <2>1. PICK tags, views : Commit([relation EXCEPT !.ducklake_tag = tags],
                                    [lake EXCEPT !.views = views])
      BY <1>3 DEF CommentOnView
    <2>2. QED
      BY <1>3, <2>1, ApartStep DEF Apart, CommentOnView
  <1>4. ASSUME NEW v, DropView(v)
        PROVE  FInv'
    <2>1. PICK rows, tags, views :
             Commit([relation EXCEPT !.ducklake_view = rows, !.ducklake_tag = tags],
                    [lake EXCEPT !.views = views])
      BY <1>4 DEF DropView
    <2>2. Apart([relation EXCEPT !.ducklake_view = rows, !.ducklake_tag = tags],
                [lake EXCEPT !.views = views])
      BY <1>4, <2>1 DEF Apart, DropView
    <2>3. QED
      BY <2>2, ApartStep
  <1>5. ASSUME NEW m, DropMacro(m)
        PROVE  FInv'
    <2>1. PICK rows, macros : Commit([relation EXCEPT !.ducklake_macro = rows],
                                     [lake EXCEPT !.macros = macros])
      BY <1>5 DEF DropMacro
    <2>2. QED
      BY <1>5, <2>1, ApartStep DEF Apart, DropMacro
  <1>6. ASSUME CreateView
        PROVE  FInv'
    <2>1. PICK rows, views : Commit([relation EXCEPT !.ducklake_view = rows],
                                    [lake EXCEPT !.next = @ + 1, !.views = views])
      BY <1>6 DEF CreateView
    <2>2. Apart([relation EXCEPT !.ducklake_view = rows],
                [lake EXCEPT !.next = @ + 1, !.views = views])
      BY <1>6, <2>1 DEF Apart, CreateView
    <2>3. QED
      BY <2>2, ApartStep
  <1>7. ASSUME CreateMacro
        PROVE  FInv'
    <2>1. PICK rows, impls, parameters, macros :
             Commit([relation EXCEPT !.ducklake_macro = rows, !.ducklake_macro_impl = impls,
                                     !.ducklake_macro_parameters = parameters],
                    [lake EXCEPT !.next = @ + 1, !.macros = macros])
      BY <1>7 DEF CreateMacro
    <2>2. Apart([relation EXCEPT !.ducklake_macro = rows, !.ducklake_macro_impl = impls,
                                 !.ducklake_macro_parameters = parameters],
                [lake EXCEPT !.next = @ + 1, !.macros = macros])
      BY <1>7, <2>1 DEF Apart, CreateMacro
    <2>3. QED
      BY <2>2, ApartStep
  <1>8. ASSUME NEW t, InlineInsert(t)
        PROVE  FInv'
    <2>1. PICK rows, inlined : Commit([relation EXCEPT !.ducklake_inlined_data_tables = rows],
                                      [lake EXCEPT !.inlined = inlined])
      BY <1>8 DEF InlineInsert
    <2>2. QED
      BY <1>8, <2>1, ApartStep DEF Apart, InlineInsert
  <1>9. QED
    BY <1>1, <1>2, <1>3, <1>4, <1>5, <1>6, <1>7, <1>8

\* A table that is created has no file yet, and one row of its version.
LEMMA CreateTableKeepsFiles ==
    ASSUME IInv, FInv, CreateTable
    PROVE  FInv'
  <1> DEFINE t == lake.next
             columns == <<ColumnOf(1, Null), ColumnOf(2, Null)>>
             after == [lake EXCEPT !.next = t + 1,
                                   !.tables = Put(@, t, [tags |-> {}, columns |-> columns]),
                                   !.versions = Put(@, t, now),
                                   !.inlined = Put(@, t, {})]
             db == [relation EXCEPT
                       !.ducklake_table = @ \cup {New([id |-> t])},
                       !.ducklake_column = @ \cup {Column(t, 1, Null), Column(t, 2, Null)},
                       !.ducklake_schema_versions = @ \cup {NewVersion(t)}]
  <1>1. format # "none" /\ Commit(db, after) /\ stored' = stored
    BY DEF CreateTable
  <1>2. /\ FileTables \subseteq DOMAIN db
        /\ after.next \in Nat /\ after.next >= lake.next
        /\ db.ducklake_data_file = DataFiles /\ db.ducklake_delete_file = DeleteFiles
        /\ db.ducklake_schema_versions = Versions \cup {NewVersion(u) : u \in {t}}
        /\ db.ducklake_file_partition_value = Keys
    BY <1>1, FileShapes DEF DataFiles, DeleteFiles, Versions, Keys, FileTables, LakeFields
  <1>3. /\ after.files = lake.files /\ after.partitions = lake.partitions
        /\ DOMAIN after.tables = DOMAIN lake.tables \cup {t}
        /\ DOMAIN after.versions = DOMAIN lake.versions \cup {t}
        /\ \A u \in DOMAIN after.versions :
              after.versions[u] = IF u = t THEN now ELSE lake.versions[u]
    BY <1>1, FileShapes DEF LakeFields, Put
  <1> HIDE DEF db, after
  <1>4. Commits /\ lake' = after /\ relation' = db
    BY <1>1, <1>2, SnapshotCommits
  <1>5. FilesKept /\ VersionsInv /\ KeysInv /\ Keys' = Keys /\ DataFiles' = DataFiles
    BY <1>1, <1>2, <1>3, <1>4, CommitFacts DEF FilesKept, DataFiles, DeleteFiles, Keys
  <1>6. FilesInv' /\ NextFile' = NextFile
    BY <1>4, <1>5, FilesKeptStep
  <1>7. VersionsBegin({t})
    BY <1>2, <1>3, <1>4, <1>5 DEF VersionsBegin, VersionsInv, Versions
  <1>8. KeysWritten({}, t)
    BY <1>3, <1>4, <1>5, <1>6 DEF KeysWritten, KeysInv
  <1>9. FileShapeInv'
    BY <1>1, <1>3, <1>4, FileShapes DEF FileShapeInv
  <1>10. QED
    BY <1>4, <1>6, <1>7, <1>8, <1>9, VersionsStep, KeysStep, FInvFromParts

\* A table that is partitioned anew leaves the keys of its files to what they were.
LEMMA SetPartitionKeepsFiles ==
    ASSUME IInv, FInv, format # "none", NEW t \in DOMAIN lake.tables, NEW columns,
           IsNumbered(columns), SetPartition(t, columns)
    PROVE  FInv'
  <1>1. PICK rows :
           Commit([relation EXCEPT !.ducklake_partition_column = rows],
                  [lake EXCEPT !.partitions = Put(@, t, columns)])
    BY DEF SetPartition
  <1> DEFINE db == [relation EXCEPT !.ducklake_partition_column = rows]
             after == [lake EXCEPT !.partitions = Put(@, t, columns)]
  <1>2. /\ FileTables \subseteq DOMAIN db
        /\ after.next \in Nat /\ after.next >= lake.next
        /\ db.ducklake_data_file = DataFiles /\ db.ducklake_delete_file = DeleteFiles
        /\ db.ducklake_schema_versions = Versions
        /\ db.ducklake_file_partition_value = Keys
    BY FileShapes DEF DataFiles, DeleteFiles, Versions, Keys, FileTables, LakeFields
  <1>3. /\ after.files = lake.files /\ after.tables = lake.tables
        /\ after.versions = lake.versions
        /\ after.partitions = Put(lake.partitions, t, columns)
        /\ t \notin DOMAIN lake.partitions /\ stored' = stored
    BY FileShapes DEF LakeFields, SetPartition
  <1>4. Commit(db, after)
    BY <1>1
  <1> HIDE DEF db, after
  <1>5. Commits /\ lake' = after /\ relation' = db
    BY <1>2, <1>4, SnapshotCommits
  <1>6. FilesKept /\ VersionsInv /\ KeysInv /\ Keys' = Keys /\ DataFiles' = DataFiles
    BY <1>2, <1>3, <1>5, CommitFacts DEF FilesKept, DataFiles, DeleteFiles, Keys
  <1>7. FilesInv' /\ NextFile' = NextFile
    BY <1>5, <1>6, FilesKeptStep
  <1>8. VersionsBegin({})
    BY <1>2, <1>3, <1>5, <1>6 DEF VersionsBegin, VersionsInv, Versions
  <1>9. KeysWritten({}, t)
    BY <1>3, <1>5, <1>6, <1>7 DEF KeysWritten, KeysInv, Put
  <1>10. FileShapeInv'
    BY <1>3, <1>5, FileShapes DEF FileShapeInv
  <1>11. QED
    BY <1>5, <1>7, <1>8, <1>9, <1>10, VersionsStep, KeysStep, FInvFromParts

\* A file of table t is written, with the keys K.
FileWritten(t, rows, K) ==
    /\ Keys' = Keys \cup K
    /\ K = NumberedKeys(NextFile, WrittenNow(t))
    /\ DOMAIN lake'.tables = DOMAIN lake.tables /\ lake'.partitions = lake.partitions
    /\ lake'.versions = lake.versions /\ Versions' = Versions
    /\ FileAdded(t, rows)

\* A file that is written with its keys keeps the invariant.
LEMMA FileWrittenStep ==
    ASSUME Commits, NEW t \in DOMAIN lake.tables, NEW rows, NEW K, FileWritten(t, rows, K)
    PROVE  FInv'
  <1>1. FilesInv' /\ NextFile' = NextFile + 1
    BY FileAddedStep DEF FileWritten
  <1>2. VersionsInv /\ KeysInv /\ FileShapeInv
    BY CommitFacts DEF Commits, FInv
  <1>3. /\ DataFiles' = DataFiles \cup {DataFile(t, rows)}
        /\ DataFile(t, rows).id = NextFile /\ DataFile(t, rows).table = t
        /\ DataFile(t, rows).begin = now
    BY DEF FileWritten, FileAdded, DataFile, New
  <1>4. VersionsBegin({})
    BY <1>2, <1>3 DEF VersionsBegin, VersionsInv, FileWritten
  <1>5. KeysWritten(K, t)
    BY <1>1, <1>2, <1>3 DEF KeysWritten, KeysInv, FileWritten, NumberedKeys
  <1>6. QED
    BY <1>1, <1>2, <1>4, <1>5, VersionsStep, KeysStep, FInvFromParts DEF FileShapeInv, FileWritten,
       FileAdded, WithFile, Put

\* A client writes a file with rows of its own, or with those it flushes.
LEMMA WritersWriteFiles ==
    ASSUME IInv, FInv, format # "none", NEW t \in DOMAIN lake.tables
    PROVE  /\ WriteFile(t) => FInv'
           /\ \A at \in DOMAIN stored.data : Flush(t, at) => FInv'
  <1> USE FileShapes DEF LakeFields
  <1>1. ASSUME WriteFile(t)
        PROVE  FInv'
    <2> DEFINE keys == PartitionKeys(NextFile, t)
               rows == 1 .. RowsPerFile
               db == [relation EXCEPT !.ducklake_data_file = @ \cup {DataFile(t, rows)},
                                      !.ducklake_file_partition_value = @ \cup keys]
               after == [lake EXCEPT !.files = WithFile(NextFile, t, rows)]
    <2>1. Commit(db, after) /\ stored' = stored
      BY <1>1 DEF WriteFile, PartitionKeys
    <2>2. /\ FileTables \subseteq DOMAIN db
          /\ db.ducklake_data_file = DataFiles \cup {DataFile(t, rows)}
          /\ db.ducklake_delete_file = DeleteFiles /\ db.ducklake_schema_versions = Versions
          /\ db.ducklake_file_partition_value = Keys \cup keys
      BY DEF DataFiles, DeleteFiles, Versions, Keys, FileTables
    <2>3. /\ after.next \in Nat /\ after.next >= lake.next
          /\ after.files = WithFile(NextFile, t, rows) /\ after.tables = lake.tables
          /\ after.versions = lake.versions /\ after.partitions = lake.partitions
          /\ after.inlined = lake.inlined
      OBVIOUS
    <2>4. keys = NumberedKeys(NextFile, PartitionsOf(t))
      <3>1. IsNumbered(PartitionsOf(t))
        BY EmptyIsNumbered DEF FInv, KeysInv, PartitionsOf
      <3>2. QED
        BY <3>1 DEF IsNumbered, NumberedKeys, PartitionKeys
    <2> HIDE DEF db, after, keys, rows
    <2>5. Commits /\ lake' = after /\ relation' = db
      BY <2>1, <2>2, <2>3, SnapshotCommits
    <2>6. keys = NumberedKeys(NextFile, WrittenNow(t))
      BY <2>3, <2>4, <2>5 DEF WrittenNow, PartitionsOf
    <2>7. QED
      BY <2>1, <2>2, <2>3, <2>5, <2>6, FileWrittenStep DEF FileWritten, FileAdded, DataFiles,
         DeleteFiles, Versions, Keys
  <1>2. ASSUME NEW at \in DOMAIN stored.data, Flush(t, at)
        PROVE  FInv'
    <2> DEFINE rows == stored.data[at]
               db == [relation EXCEPT !.ducklake_data_file = @ \cup {DataFile(t, rows)}]
               after == [lake EXCEPT !.files = WithFile(NextFile, t, rows),
                                     !.inlined[t] = @ \ rows]
    <2>1. Commit(db, after) /\ stored'.deletes = stored.deletes
      BY <1>2 DEF Flush
    <2>2. /\ FileTables \subseteq DOMAIN db
          /\ db.ducklake_data_file = DataFiles \cup {DataFile(t, rows)}
          /\ db.ducklake_delete_file = DeleteFiles /\ db.ducklake_schema_versions = Versions
          /\ db.ducklake_file_partition_value = Keys
      BY DEF DataFiles, DeleteFiles, Versions, Keys, FileTables
    <2>3. /\ after.next \in Nat /\ after.next >= lake.next
          /\ after.files = WithFile(NextFile, t, rows) /\ after.tables = lake.tables
          /\ after.versions = lake.versions /\ after.partitions = lake.partitions
          /\ after.inlined[t] = lake.inlined[t] \ rows
      BY DEF IInv, LakeInv
    <2>8. rows # {} /\ rows \subseteq lake.inlined[t]
      <3>1. at[1] = t /\ rows # {}
        BY <1>2 DEF Flush
      <3>2. QED
        BY <3>1 DEF IInv, InlinedInv
    <2> HIDE DEF db, after, rows
    <2>4. Commits /\ lake' = after /\ relation' = db
      BY <2>1, <2>2, <2>3, SnapshotCommits
    <2>7. WrittenNow(t) = <<>> /\ NumberedKeys(NextFile, <<>>) = {}
      BY <2>3, <2>4, <2>8 DEF WrittenNow, NumberedKeys
    <2>5. FileWritten(t, rows, {})
      BY <2>1, <2>2, <2>3, <2>4, <2>7
         DEF FileWritten, FileAdded, DataFiles, DeleteFiles, Versions, Keys
    <2>6. QED
      BY <2>4, <2>5, FileWrittenStep
  <1>3. QED
    BY <1>1, <1>2

\* Files and what is about them end, and their tables may with them.
FilesGone(gone, H) ==
    /\ FilesEnded(gone, H)
    /\ Versions' = Versions /\ Keys' = Keys
    /\ DOMAIN lake'.versions = DOMAIN lake'.tables
    /\ DOMAIN lake'.tables \subseteq DOMAIN lake.tables
    /\ \A t \in DOMAIN lake'.tables : lake'.versions[t] = lake.versions[t]
    /\ DOMAIN lake'.partitions = DOMAIN lake.partitions \cap DOMAIN lake'.tables
    /\ \A t \in DOMAIN lake'.partitions : lake'.partitions[t] = lake.partitions[t]

\* Files and delete files that end together keep the invariant.
LEMMA FilesGoneStep ==
    ASSUME Commits, NEW gone, NEW H, FilesGone(gone, H)
    PROVE  FInv'
  <1>1. FilesInv' /\ NextFile' = NextFile
    BY FilesEndedStep DEF FilesGone
  <1>2. FileRowsInv /\ VersionsInv /\ KeysInv /\ FileShapeInv /\ LakeInv
    BY CommitFacts DEF Commits, FInv
  <1>3. \A f \in DataFiles' : \E g \in DataFiles :
           g.id = f.id /\ g.table = f.table /\ g.begin = f.begin
    BY <1>2 DEF FilesGone, FilesEnded, Closed, FileRowsInv
  <1>4. VersionsBegin({})
    BY <1>2, <1>3 DEF VersionsBegin, VersionsInv, FilesGone
  <1>5. KeysWritten({}, Null)
    BY <1>1, <1>2, <1>3, NullAssumption DEF KeysInv, LakeInv, KeysWritten, FilesGone
  <1>6. QED
    BY <1>1, <1>2, <1>4, <1>5, VersionsStep, KeysStep, FInvFromParts DEF FileShapeInv, FilesGone,
       FilesEnded, Without

\* Dropping a table ends its files, its delete files and its version.
LEMMA DropTableKeepsFiles ==
    ASSUME IInv, FInv, format # "none", NEW t \in DOMAIN lake.tables, DropTable(t)
    PROVE  FInv'
  <1> DEFINE gone == {f \in DOMAIN lake.files : lake.files[f].table = t}
             H == {d \in DeleteFiles : d.table = t}
             after == [lake EXCEPT
                          !.tables = Without(@, {t}), !.versions = Without(@, {t}),
                          !.inlined = Without(@, {t}), !.partitions = Without(@, {t}),
                          !.files = Without(@, gone), !.deletes = Without(@, gone)]
             files == {IF row.end = Null /\ row.table = t THEN [row EXCEPT !.end = now] ELSE row :
                          row \in DataFiles}
             deletes == {IF row.end = Null /\ row.table = t THEN [row EXCEPT !.end = now] ELSE row :
                            row \in DeleteFiles}
  <1>1. PICK tables, columns, columnTags, tags :
           Commit([relation EXCEPT
                       !.ducklake_table = tables, !.ducklake_column = columns,
                       !.ducklake_column_tag = columnTags,
                       !.ducklake_data_file = files, !.ducklake_delete_file = deletes,
                       !.ducklake_tag = tags], after)
    BY DEF DropTable, Ended, DataFiles, DeleteFiles
  <1> DEFINE db == [relation EXCEPT
                       !.ducklake_table = tables, !.ducklake_column = columns,
                       !.ducklake_column_tag = columnTags,
                       !.ducklake_data_file = files, !.ducklake_delete_file = deletes,
                       !.ducklake_tag = tags]
  <1>2. Commit(db, after) /\ stored' = stored
    BY <1>1 DEF DropTable
  <1> HIDE DEF files, deletes, gone, H
  <1>3. /\ FileTables \subseteq DOMAIN db
        /\ db.ducklake_data_file = files /\ db.ducklake_delete_file = deletes
        /\ db.ducklake_schema_versions = Versions /\ db.ducklake_file_partition_value = Keys
    BY FileShapes DEF FileTables, Versions, Keys
  <1>4. /\ after.next \in Nat /\ after.next >= lake.next
        /\ after.files = Without(lake.files, gone) /\ after.tables = Without(lake.tables, {t})
        /\ after.versions = Without(lake.versions, {t})
        /\ after.partitions = Without(lake.partitions, {t})
    BY FileShapes DEF LakeFields
  <1> HIDE DEF db, after
  <1>5. Commits /\ lake' = after /\ relation' = db
    BY <1>2, <1>3, <1>4, SnapshotCommits
  <1>6. FileRowsInv /\ VersionsInv /\ KeysInv
    BY <1>5, CommitFacts
  <1>7. deletes = {Closed(d, H) : d \in DeleteFiles}
    BY DEF deletes, Closed, H
  <1>8. ASSUME NEW d \in DeleteFiles \cap H, d.file \in DOMAIN lake.files
        PROVE  d.file \in gone
    <2>1. PICK f \in DataFiles : f.id = d.file /\ f.table = d.table
      BY <1>6 DEF FileRowsInv
    <2>2. PICK g \in DataFiles : g.id = d.file /\ g.end = Null
      BY <1>5, <1>8, LiveFiles
    <2>3. QED
      BY <1>5, <1>6, <2>1, <2>2, LiveFiles DEF FileRowsInv, gone, H
  <1>9. FilesEnded(gone, H)
    BY <1>2, <1>3, <1>4, <1>5, <1>7, <1>8, LiveFiles DEF gone, files, Closed, FilesEnded,
       DataFiles, DeleteFiles
  <1>10. QED
    BY <1>3, <1>4, <1>5, <1>6, <1>9, FilesGoneStep DEF FilesGone, Without, VersionsInv, KeysInv,
       Versions, Keys

\* Dropping a file ends it with its delete file.
LEMMA DeleteFileKeepsFiles ==
    ASSUME IInv, FInv, format # "none", NEW x \in DOMAIN lake.files, DeleteFile(x)
    PROVE  FInv'
  <1> DEFINE gone == {x}
             H == {d \in DeleteFiles : d.file = x}
             after == [lake EXCEPT !.files = Without(@, gone), !.deletes = Without(@, gone)]
             files == {IF row.end = Null /\ row.id = x THEN [row EXCEPT !.end = now] ELSE row :
                          row \in DataFiles}
             deletes == {IF row.end = Null /\ row.file = x THEN [row EXCEPT !.end = now] ELSE row :
                            row \in DeleteFiles}
             db == [relation EXCEPT !.ducklake_data_file = files, !.ducklake_delete_file = deletes]
  <1>1. Commit(db, after) /\ stored' = stored
    BY DEF DeleteFile, Ended, DataFiles, DeleteFiles
  <1> HIDE DEF files, deletes, gone, H
  <1>2. /\ FileTables \subseteq DOMAIN db
        /\ db.ducklake_data_file = files /\ db.ducklake_delete_file = deletes
        /\ db.ducklake_schema_versions = Versions /\ db.ducklake_file_partition_value = Keys
    BY FileShapes DEF FileTables, Versions, Keys
  <1>3. /\ after.next \in Nat /\ after.next >= lake.next
        /\ after.files = Without(lake.files, gone) /\ after.tables = lake.tables
        /\ after.versions = lake.versions /\ after.partitions = lake.partitions
    BY FileShapes DEF LakeFields
  <1> HIDE DEF db, after
  <1>4. Commits /\ lake' = after /\ relation' = db
    BY <1>1, <1>2, <1>3, SnapshotCommits
  <1>5. deletes = {Closed(d, H) : d \in DeleteFiles}
    BY DEF deletes, Closed, H
  <1>6. FilesEnded(gone, H)
    BY <1>1, <1>2, <1>3, <1>4, <1>5 DEF files, Closed, gone, FilesEnded, DataFiles, DeleteFiles, H
  <1>7. QED
    BY <1>2, <1>3, <1>4, <1>6, FilesGoneStep, CommitFacts DEF FilesGone, VersionsInv, KeysInv,
       Versions, Keys

\* Some rows of a file are taken, and nothing else happens.
LEMMA RowsTaken ==
    ASSUME Commits, FilesInv', DataFiles' = DataFiles, Versions' = Versions, Keys' = Keys,
           NextFile' \in {NextFile, NextFile + 1},
           lake'.tables = lake.tables, lake'.versions = lake.versions,
           lake'.partitions = lake.partitions, FileShapeInv'
    PROVE  FInv'
  <1>1. VersionsInv /\ KeysInv /\ LakeInv
    BY CommitFacts
  <1>2. VersionsBegin({})
    BY <1>1 DEF VersionsBegin, VersionsInv
  <1>3. KeysWritten({}, Null)
    BY <1>1 DEF KeysWritten, KeysInv
  <1>4. QED
    BY <1>2, <1>3, VersionsStep, KeysStep, FInvFromParts

\* Deleting rows of a file writes the delete file that replaces the file's last.
LEMMA DeleteRowsKeepsFiles ==
    ASSUME IInv, FInv, format # "none", NEW x \in DOMAIN lake.files,
           NEW R \in SUBSET lake.files[x].rows, DeleteRows(x, R)
    PROVE  FInv'
  <1> DEFINE old == {d \in DeleteFiles : d.file = x /\ d.end = Null}
             rows == R \cup UNION {d.rows : d \in old}
             new == New([id |-> NextFile, table |-> lake.files[x].table, file |-> x,
                         size |-> Cardinality(rows), rows |-> rows])
             closed == {Closed(d, old) : d \in DeleteFiles}
             after == [lake EXCEPT !.files[x].rows = @ \ R,
                                   !.deletes = Put(@, x, Cardinality(rows))]
             db == [relation EXCEPT !.ducklake_delete_file = closed \cup {new}]
  <1>1. Commit(db, after) /\ stored' = stored
    BY DEF DeleteRows, Ended, DeleteFiles, Closed
  <1>2. /\ DOMAIN new = {"id", "table", "file", "size", "rows", "begin", "end"}
        /\ new.id = NextFile /\ new.table = lake.files[x].table /\ new.file = x
        /\ new.rows = rows /\ new.begin = now /\ new.end = Null
    BY DEF New
  <1> HIDE DEF new, closed, rows
  <1>3. /\ FileTables \subseteq DOMAIN db
        /\ db.ducklake_data_file = DataFiles /\ db.ducklake_delete_file = closed \cup {new}
        /\ db.ducklake_schema_versions = Versions /\ db.ducklake_file_partition_value = Keys
    BY FileShapes DEF FileTables, DataFiles, Versions, Keys
  <1>4. /\ after.next \in Nat /\ after.next >= lake.next
        /\ after.files = [lake.files EXCEPT ![x].rows = @ \ R] /\ after.tables = lake.tables
        /\ after.versions = lake.versions /\ after.partitions = lake.partitions
    BY FileShapes DEF LakeFields
  <1>5. /\ DOMAIN after.files = DOMAIN lake.files
        /\ \A y \in DOMAIN lake.files :
              /\ DOMAIN after.files[y] = DOMAIN lake.files[y]
              /\ after.files[y].table = lake.files[y].table
              /\ after.files[y].rows =
                    IF y = x THEN lake.files[x].rows \ R ELSE lake.files[y].rows
    BY <1>4, FileShapes DEF FileShapeInv
  <1> HIDE DEF db, after
  <1>6. Commits /\ lake' = after /\ relation' = db
    BY <1>1, <1>3, <1>4, SnapshotCommits
  <1>7. RowsDeleted(x, R, new)
    BY <1>1, <1>2, <1>3, <1>5, <1>6 DEF RowsDeleted, DataFiles, DeleteFiles, rows, closed
  <1>8. FileShapeInv'
    BY <1>5, <1>6, FileShapes DEF FileShapeInv
  <1>9. QED
    BY <1>3, <1>4, <1>6, <1>7, <1>8, RowsTaken, RowsDeletedStep DEF DataFiles, Versions, Keys

\* An inlined delete adds a row to the table's inlined deletes.
LEMMA InlineDeleteKeepsFiles ==
    ASSUME IInv, FInv, format # "none", NEW x \in DOMAIN lake.files,
           NEW r \in lake.files[x].rows, InlineDelete(x, r)
    PROVE  FInv'
  <1> DEFINE after == [lake EXCEPT !.files[x].rows = @ \ {r}]
             t == lake.files[x].table
             taken == InlinedDeletes(stored, t) \cup {[file |-> x, row |-> r, begin |-> now]}
  <1>1. /\ Commit(relation, after)
        /\ stored' = [stored EXCEPT !.deletes = Put(@, t, taken)]
    BY DEF InlineDelete
  <1>2. /\ after.next \in Nat /\ after.next >= lake.next
        /\ after.files = [lake.files EXCEPT ![x].rows = @ \ {r}] /\ after.tables = lake.tables
        /\ after.versions = lake.versions /\ after.partitions = lake.partitions
    BY FileShapes DEF LakeFields
  <1>3. /\ DOMAIN after.files = DOMAIN lake.files
        /\ \A y \in DOMAIN lake.files :
              /\ DOMAIN after.files[y] = DOMAIN lake.files[y]
              /\ after.files[y].table = lake.files[y].table
              /\ after.files[y].rows =
                    IF y = x THEN lake.files[x].rows \ {r} ELSE lake.files[y].rows
    BY <1>2, FileShapes DEF FileShapeInv
  <1> HIDE DEF after
  <1>4. Commits /\ lake' = after /\ relation' = relation
    BY <1>1, <1>2, SnapshotCommits, FileShapes
  <1>5. RowDeletedInline(x, r)
    BY <1>1, <1>3, <1>4, FileShapes DEF RowDeletedInline, DataFiles, DeleteFiles
  <1>6. QED
    BY <1>2, <1>3, <1>4, <1>5, RowsTaken, RowDeletedInlineStep, FileShapes DEF FileShapeInv,
       DataFiles, Versions, Keys

\* Nothing is committed.
LEMMA NoSnapshotStep ==
    ASSUME FInv, format # "none", format' # "none", history' = history,
           FileTables \subseteq DOMAIN relation',
           \A name \in FileTables : relation'[name] = relation[name],
           stored'.deletes = stored.deletes
    PROVE  FInv'
  <1>1. /\ lake' = lake /\ now' = now /\ Snapshots' = Snapshots
        /\ \A s : At(s)' = At(s)
        /\ DataFiles' = DataFiles /\ DeleteFiles' = DeleteFiles
        /\ Versions' = Versions /\ Keys' = Keys
    BY DEF lake, now, Snapshots, At, FileTables, DataFiles, DeleteFiles, Versions, Keys, Last
  <1>2. NextFile' = NextFile
    BY <1>1 DEF NextFile, DataFiles, DeleteFiles
  <1>3. FileRowsInv /\ HistoryInv /\ DeletesInv /\ VersionsInv /\ KeysInv /\ FileShapeInv
    BY DEF FInv, FilesInv
  <1>4. FileRowsInv'
    BY <1>1, <1>2, <1>3 DEF FileRowsInv
  <1>5. DeletesInv'
    BY <1>1, <1>3 DEF DeletesInv, RowThere, At
  <1>6. VersionsInv'
    BY <1>1, <1>3 DEF VersionsInv, At
  <1>7. KeysInv'
    BY <1>1, <1>2, <1>3 DEF KeysInv, KeysOf, WrittenBy
  <1>8. FileShapeInv'
    BY <1>1, <1>3 DEF FileShapeInv
  <1>9. QED
    BY <1>1, <1>3, <1>4, <1>5, <1>6, <1>7, <1>8 DEF GoneBy, InlinedDeletes, HistoryInv, Reads, At,
       FInv, FilesInv

\* A catalog that is created has no file.
LEMMA BootstrapKeepsFiles ==
    ASSUME IInv, FInv, NEW version \in {"0.3", "1.0"}, Bootstrap(version)
    PROVE  FInv'
  <1>1. /\ format' # "none" /\ lake = EmptyLake /\ now = 1
        /\ history' = history /\ stored' = stored /\ stored.deletes = <<>>
    BY DEF Bootstrap, IInv, FInv
  <1>2. /\ FileTables \subseteq DOMAIN relation'
        /\ DataFiles' = {} /\ DeleteFiles' = {} /\ Versions' = {} /\ Keys' = {}
    BY DEF Bootstrap, MetadataTables, FileTables, DataFiles, DeleteFiles, Versions, Keys
  <1>3. /\ lake' = EmptyLake /\ now' = 1 /\ Snapshots' = {0} /\ history'[0 + 1] = EmptyLake
    <2>1. lake' = EmptyLake /\ now' = 1 /\ history'[1] = EmptyLake
      BY <1>1 DEF lake, now, Last
    <2>2. QED
      BY <2>1 DEF Snapshots
  <1>4. HistoryInv'
    BY <1>2, <1>3 DEF HistoryInv, Reads, At, EmptyLake
  <1>5. KeysInv'
    BY <1>2, <1>3 DEF KeysInv, EmptyLake
  <1>6. FileShapeInv'
    BY <1>3 DEF FileShapeInv, EmptyLake
  <1>7. QED
    BY <1>1, <1>2, <1>3, <1>4, <1>5, <1>6, FS_EmptySet DEF VersionsInv, At, EmptyLake, FileRowsInv,
       DeletesInv, FInv, FilesInv

\* No action of the client breaks the invariant of files.
LEMMA NextKeepsFiles ==
    ASSUME IInv, FInv, Next
    PROVE  FInv'
  <1>1. CASE \E version \in {"0.3", "1.0"} : Bootstrap(version)
    BY <1>1, BootstrapKeepsFiles
  <1>2. CASE CreateTable
    BY <1>2, CreateTableKeepsFiles
  <1>3. CASE Migrate
    BY <1>3, FileShapes, NoSnapshotStep DEF Migrate, FileTables, MetadataTables, MacroTables,
       DuckLakeMetadataMutation
  <1>4. CASE DropSuperseded
    <2>1. format # "none"
      <3> SUFFICES ASSUME format = "none" PROVE FALSE
        OBVIOUS
      <3>1. QED
        BY <1>4 DEF IInv, Rows, TableExists, DuckLakeEmptySupersededInlinedTables, DropSuperseded
    <2>2. QED
      BY <1>4, <2>1, NoSnapshotStep, FileShapes DEF DropSuperseded, FileTables
  <1>5. CASE \/ CreateView \/ CreateMacro
             \/ \E v \in DOMAIN lake.views : CommentOnView(v) \/ DropView(v)
             \/ \E m \in DOMAIN lake.macros : DropMacro(m)
    <2>1. format # "none"
      BY <1>5, NothingBeforeBootstrap DEF CreateView, CreateMacro
    <2>2. QED
      BY <1>5, <2>1, CommentsAreApart, Zenon
  <1>6. ASSUME NEW f \in DOMAIN lake.files,
               \/ DeleteFile(f)
               \/ \E R \in (SUBSET lake.files[f].rows) \ {{}} : DeleteRows(f, R)
               \/ \E r \in lake.files[f].rows : InlineDelete(f, r)
        PROVE  FInv'
    BY <1>6, NothingBeforeBootstrap, DeleteFileKeepsFiles, DeleteRowsKeepsFiles,
       InlineDeleteKeepsFiles
  <1>7. ASSUME NEW t \in DOMAIN lake.tables,
               \/ DropTable(t) \/ CommentOnTable(t) \/ WriteFile(t) \/ InlineInsert(t)
               \/ \E struct \in BOOLEAN : AddColumn(t, struct)
               \/ \E i \in DOMAIN lake.tables[t].columns :
                     RenameColumn(t, i) \/ DropColumn(t, i) \/ CommentOnColumn(t, i)
               \/ \E i, j \in {col.id : col \in ToSet(TopLevel(lake.tables[t].columns))} :
                     SetPartition(t, IF i = j THEN <<i>> ELSE <<i, j>>)
               \/ \E at \in DOMAIN stored.data : Flush(t, at)
        PROVE  FInv'
    <2>1. format # "none"
      BY NothingBeforeBootstrap
    <2>2. DropTable(t) => FInv'
      BY <2>1, DropTableKeepsFiles
    <2>3. WriteFile(t) \/ (\E at \in DOMAIN stored.data : Flush(t, at)) => FInv'
      BY <2>1, WritersWriteFiles
    <2>4. (\E struct \in BOOLEAN : AddColumn(t, struct)) => FInv'
      BY <2>1, SchemaChanges
    <2>5. \A i : RenameColumn(t, i) \/ DropColumn(t, i) => FInv'
      BY <2>1, SchemaChanges
    <2>6. CommentOnTable(t) \/ InlineInsert(t) \/ (\E i : CommentOnColumn(t, i)) => FInv'
      BY <2>1, CommentsAreApart
    <2>7. ASSUME NEW i, NEW j, SetPartition(t, IF i = j THEN <<i>> ELSE <<i, j>>)
          PROVE  FInv'
      <3>1. PICK columns : columns = IF i = j THEN <<i>> ELSE <<i, j>>
        OBVIOUS
      <3>2. QED
        BY <2>1, <2>7, <3>1, SetPartitionKeepsFiles DEF IsNumbered
    <2>8. QED
      BY <1>7, <2>2, <2>3, <2>4, <2>5, <2>6, <2>7, Zenon
  <1>8. QED
    BY <1>1, <1>2, <1>3, <1>4, <1>5, <1>6, <1>7, Zenon DEF Next

\* Whatever the client commits, each snapshot reads as the files that are visible in it, less
\* what delete files and inlined deletes have taken, and each taken row was there to be taken.
THEOREM SnapshotsReadTheirFiles == Spec => []FInv
  <1>1. Init => FInv
    BY DEF Init, FInv, now
  <1>2. IInv /\ FInv /\ [Next]_vars => FInv'
    BY NoSnapshotStep, FileShapes, NextKeepsFiles DEF vars, FInv, now
  <1>3. QED
    BY <1>1, <1>2, LakeAgreesWithInlinedTables, PTL DEF Spec

-----------------------------------------------------------------------------
(* What the metadata statements answer                                     *)

\* Of rows that begin in bounded snapshots, ORDER BY begin_snapshot DESC LIMIT 1 finds one, and
\* none begins later.
LEMMA LatestIsLast ==
    ASSUME NEW R, NEW n \in Nat, R # {}, \A row \in R : row.begin \in Nat /\ row.begin <= n
    PROVE  \E row \in R : Latest(R) = {row} /\ \A other \in R : other.begin <= row.begin
  <1> DEFINE S == {n - row.begin : row \in R}
  <1>1. S \in SUBSET Nat /\ S # {}
    OBVIOUS
  <1>2. PICK x \in S : \A y \in S : <<y, x>> \notin OpToRel(<, Nat)
    BY <1>1, WFMin, NatLessThanWellFounded, Zenon
  <1>3. ASSUME NEW y \in S
        PROVE  x =< y
    <2>1. x \in Nat /\ y \in Nat
      BY <1>1
    <2>2. y < x => <<y, x>> \in OpToRel(<, Nat)
      BY <2>1 DEF OpToRel
    <2>3. ~(y < x)
      BY <1>2, <2>2, Zenon
    <2>4. QED
      BY <2>1, <2>3
  <1>4. PICK row \in R : x = n - row.begin
    OBVIOUS
  <1>5. ASSUME NEW other \in R
        PROVE  other.begin <= row.begin
    <2>1. x =< n - other.begin
      BY <1>3
    <2>2. QED
      BY <1>4, <2>1
  <1>6. QED
    BY <1>5 DEF Latest

\* What is known of the files once the catalog is created.
LEMMA FilesFacts ==
    ASSUME IInv, FInv, format # "none"
    PROVE  /\ FileRowsInv /\ HistoryInv /\ DeletesInv /\ VersionsInv /\ KeysInv
           /\ now \in Nat /\ 0 < now /\ lake = At(now - 1)
           /\ Snapshots = 0 .. now - 1
           /\ \A d \in DeleteFiles : \A f \in DataFiles : f.id = d.file => f.table = d.table
  BY DEF IInv, LakeInv, FInv, FilesInv, now, Snapshots, lake, Last, At, FileRowsInv

\* The delete file before a snapshot has what any before it has taken.
PreviousRows(t, x, s) == UNION {d.rows : d \in LatestPreviousDelete(relation, t, x, s)}

\* Delete files replace each other, so that the last one has all the rows.
LEMMA PreviousDeleteHasAll ==
    ASSUME IInv, FInv, format # "none", NEW t, NEW x, NEW s \in Nat, NEW r
    PROVE  r \in PreviousRows(t, x, s)
              <=> \E d \in DeleteFiles : d.table = t /\ d.file = x /\ d.begin < s /\ r \in d.rows
  <1> DEFINE R == {d \in DeleteFiles : d.table = t /\ d.file = x /\ d.begin < s}
  <1>1. FileRowsInv /\ DeletesInv
    BY FilesFacts
  <1>2. LatestPreviousDelete(relation, t, x, s) = Latest(R)
    BY <1>1 DEF LatestPreviousDelete, Rows, TableExists, FileRowsInv, FileTables, DeleteFiles
  <1>3. CASE R = {}
    <2>1. \A d \in DeleteFiles : ~(d.table = t /\ d.file = x /\ d.begin < s)
      BY <1>3
    <2> HIDE DEF R
    <2>2. QED
      BY <1>2, <1>3, <2>1 DEF Latest, PreviousRows
  <1>4. CASE R # {}
    <2>1. \A d \in R : d.begin \in Nat /\ d.begin <= s
      BY <1>1 DEF FileRowsInv
    <2> HIDE DEF R
    <2>2. PICK last \in R : Latest(R) = {last} /\ \A d \in R : d.begin <= last.begin
      BY <1>4, <2>1, LatestIsLast
    <2> USE DEF R
    <2>3. QED
      BY <1>1, <1>2, <2>2 DEF DeletesInv, PreviousRows
  <1>5. QED
    BY <1>3, <1>4

\* Row r of file x of table t is in snapshot s.
InTable(t, x, r, s) ==
    \E f \in DataFiles :
       f.id = x /\ f.table = t /\ Visible(f, s) /\ r \in f.rows /\ ~GoneBy(x, t, r, s)

\* The rows a table has in a snapshot, read from the relations.
LEMMA SnapshotHasRows ==
    ASSUME IInv, FInv, format # "none", NEW t, NEW s \in Snapshots
    PROVE  \A p : p \in RowsOf(FilesOf(At(s), t))
                     <=> \E x, r : p = <<x, r>> /\ InTable(t, x, r, s)
  <1>1. FileRowsInv /\ Reads(s)
    BY FilesFacts DEF HistoryInv
  <1>2. ASSUME NEW x, NEW r
        PROVE  (x \in DOMAIN FilesOf(At(s), t) /\ r \in FilesOf(At(s), t)[x].rows)
                  <=> InTable(t, x, r, s)
    <2>1. ASSUME x \in DOMAIN At(s).files, At(s).files[x].table = t, r \in At(s).files[x].rows
          PROVE  InTable(t, x, r, s)
      <3>1. PICK f \in DataFiles : f.id = x /\ Visible(f, s)
        BY <1>1, <2>1 DEF Reads
      <3>2. QED
        BY <1>1, <2>1, <3>1 DEF Reads, InTable
    <2>2. ASSUME InTable(t, x, r, s)
          PROVE  /\ x \in DOMAIN At(s).files /\ At(s).files[x].table = t
                 /\ r \in At(s).files[x].rows
      BY <1>1, <2>2 DEF Reads, InTable
    <2>3. QED
      BY <2>1, <2>2 DEF FilesOf
  <1>3. \A p : p \in RowsOf(FilesOf(At(s), t))
                  <=> \E x \in DOMAIN FilesOf(At(s), t) :
                         \E r \in FilesOf(At(s), t)[x].rows : p = <<x, r>>
    BY DEF RowsOf
  <1>4. QED
    BY <1>2, <1>3, Zenon

\* The rows that leave a table in a snapshot are those it had in the one before.
LEMMA RowsLeave ==
    ASSUME IInv, FInv, format # "none", NEW t, NEW s \in Snapshots \ {0}
    PROVE  \A p : p \in DeletedIn(t, s)
                     <=> \E x, r : /\ p = <<x, r>>
                                   /\ InTable(t, x, r, s - 1) /\ ~InTable(t, x, r, s)
  BY FilesFacts, SnapshotHasRows DEF DeletedIn

\* The rows of the answer: for a delete file, and for a file that ended.
Replacing(t, f, d, begin) ==
    DuckLakeDeletionRow(f, {d}, LatestPreviousDelete(relation, t, f.id, begin), d.begin)
Ending(t, f) ==
    DuckLakeDeletionRow(f, {}, LatestPreviousDelete(relation, t, f.id, f.end), f.end)

\* A row of the answer is for a delete file or for a file that ended.
LEMMA ReportedRows ==
    ASSUME IInv, FInv, format # "none", NEW t, NEW begin, NEW end
    PROVE  \A row : row \in DuckLakeTableDeletions(relation, t, begin, end) <=>
              \/ \E f \in DataFiles : \E d \in DeleteFiles :
                    /\ f.table = t /\ d.table = t /\ d.file = f.id /\ d.begin <= end
                    /\ row = Replacing(t, f, d, begin)
              \/ \E f \in DataFiles :
                    /\ f.table = t /\ f.end # Null /\ f.end >= begin /\ f.end <= end
                    /\ row = Ending(t, f)
  <1>1. /\ Rows(relation, "ducklake_data_file") = DataFiles
        /\ Rows(relation, "ducklake_delete_file") = DeleteFiles
        /\ TableExists(relation, "ducklake_data_file")
        /\ TableExists(relation, "ducklake_delete_file")
    BY FileShapes DEF Rows, TableExists, FileTables, DataFiles, DeleteFiles
  <1> DEFINE files == {f \in DataFiles : f.table = t}
             deletes == {d \in DeleteFiles : d.table = t /\ d.begin <= end}
             pairs == {fc \in files \X deletes : fc[1].id = fc[2].file}
             ended == {f \in files : f.end # Null /\ f.end >= begin /\ f.end <= end}
  <1>2. DuckLakeTableDeletions(relation, t, begin, end)
           = {Replacing(t, fc[1], fc[2], begin) : fc \in pairs} \cup {Ending(t, f) : f \in ended}
    BY <1>1 DEF DuckLakeTableDeletions, Replacing, Ending
  <1>3. \A row : row \in {Replacing(t, fc[1], fc[2], begin) : fc \in pairs}
                   <=> \E f \in files : \E d \in deletes : d.file = f.id /\ row = Replacing(t, f, d, begin)
    <2>1. \A fc \in pairs : fc[1] \in files /\ fc[2] \in deletes /\ fc[2].file = fc[1].id
      OBVIOUS
    <2>2. ASSUME NEW f \in files, NEW d \in deletes, d.file = f.id
          PROVE  \E fc \in pairs : fc[1] = f /\ fc[2] = d
      <3>1. <<f, d>> \in pairs
        BY <2>2
      <3>2. QED
        BY <3>1
    <2> HIDE DEF files, deletes, pairs
    <2>3. QED
      BY <2>1, <2>2
  <1>4. QED
    BY <1>2, <1>3

\* The row of the answer for delete file d tells the rows that left in the range by it or one
\* before it, and the row for a file that ended those that were left.
LEMMA ReplacingTells ==
    ASSUME IInv, FInv, format # "none", NEW t, NEW begin \in Snapshots \ {0},
           NEW f \in DataFiles, f.table = t, NEW d \in DeleteFiles, NEW p
    PROVE  p \in RowsReported(Replacing(t, f, d, begin), t)
              <=> \E r \in d.rows :
                     /\ p = <<f.id, r>>
                     /\ ~\E e \in DeleteFiles : /\ e.table = t /\ e.file = f.id
                                                /\ e.begin < begin /\ r \in e.rows
                     /\ ~\E del \in InlinedDeletes(stored, t) :
                           del.file = f.id /\ del.begin < d.begin /\ del.row = r
  <1> DEFINE Before == PreviousRows(t, f.id, begin)
  <1>1. \A r : r \in Before
           <=> \E e \in DeleteFiles : e.table = t /\ e.file = f.id /\ e.begin < begin /\ r \in e.rows
    BY PreviousDeleteHasAll, FilesFacts
  <1>2. RowsReported(Replacing(t, f, d, begin), t)
           = {<<f.id, r>> : r \in (d.rows \ Before)
                    \ {del.row : del \in {del \in InlinedDeletes(stored, t) :
                                            del.file = f.id /\ del.begin < d.begin}}}
    BY DEF RowsReported, Replacing, DuckLakeDeletionRow, PreviousRows
  <1> HIDE DEF Before
  <1>3. QED
    BY <1>1, <1>2

\* The row for a file that ended tells of the rows nobody had taken before.
LEMMA EndingTells ==
    ASSUME IInv, FInv, format # "none", NEW t,
           NEW f \in DataFiles, f.table = t, f.end # Null, NEW p
    PROVE  p \in RowsReported(Ending(t, f), t)
              <=> \E r \in f.rows :
                     /\ p = <<f.id, r>>
                     /\ ~\E e \in DeleteFiles : /\ e.table = t /\ e.file = f.id
                                                /\ e.begin < f.end /\ r \in e.rows
                     /\ ~\E del \in InlinedDeletes(stored, t) :
                           del.file = f.id /\ del.begin < f.end /\ del.row = r
  <1> DEFINE Before == PreviousRows(t, f.id, f.end)
  <1>1. \A r : r \in Before
           <=> \E e \in DeleteFiles : e.table = t /\ e.file = f.id /\ e.begin < f.end /\ r \in e.rows
    BY PreviousDeleteHasAll, FilesFacts DEF FileRowsInv
  <1>2. RowsReported(Ending(t, f), t)
           = {<<f.id, r>> : r \in (f.rows \ Before)
                    \ {del.row : del \in {del \in InlinedDeletes(stored, t) :
                                            del.file = f.id /\ del.begin < f.end}}}
    BY DEF RowsReported, Ending, DuckLakeDeletionRow, PreviousRows
  <1> HIDE DEF Before
  <1>3. QED
    BY <1>1, <1>2

\* The rows that the answer of the metadata, and the inlined deletes, tell of.
ToldByFiles(t, begin, end) ==
    UNION {RowsReported(row, t) : row \in DuckLakeTableDeletions(relation, t, begin, end)}
ToldInline(t, begin, end) ==
    {<<del.file, del.row>> : del \in {del \in InlinedDeletes(stored, t) : del.begin \in begin..end}}
Told(t, begin, end) == ToldByFiles(t, begin, end) \cup ToldInline(t, begin, end)

\* All that is told: by a delete file, by a file that ended, or by an inlined delete.
LEMMA WhatIsTold ==
    ASSUME IInv, FInv, format # "none", NEW t, NEW begin, NEW end, NEW p
    PROVE  /\ \A del \in InlinedDeletes(stored, t) :
                 del.begin \in begin..end /\ p = <<del.file, del.row>> => p \in Told(t, begin, end)
           /\ \A f \in DataFiles : \A d \in DeleteFiles :
                 /\ f.table = t /\ d.table = t /\ d.file = f.id /\ d.begin <= end
                 /\ p \in RowsReported(Replacing(t, f, d, begin), t)
                 => p \in Told(t, begin, end)
           /\ \A f \in DataFiles :
                 /\ f.table = t /\ f.end # Null /\ f.end >= begin /\ f.end <= end
                 /\ p \in RowsReported(Ending(t, f), t)
                 => p \in Told(t, begin, end)
           /\ p \in Told(t, begin, end) =>
                 \/ \E del \in InlinedDeletes(stored, t) :
                       del.begin \in begin..end /\ p = <<del.file, del.row>>
                 \/ \E f \in DataFiles : \E d \in DeleteFiles :
                       /\ f.table = t /\ d.table = t /\ d.file = f.id /\ d.begin <= end
                       /\ p \in RowsReported(Replacing(t, f, d, begin), t)
                 \/ \E f \in DataFiles :
                       /\ f.table = t /\ f.end # Null /\ f.end >= begin /\ f.end <= end
                       /\ p \in RowsReported(Ending(t, f), t)
  BY ReportedRows DEF Told, ToldInline, ToldByFiles

\* Nothing is told that did not leave the table between the two snapshots.
LEMMA ToldRowsLeft ==
    ASSUME IInv, FInv, format # "none", NEW t,
           NEW begin \in Snapshots \ {0}, NEW end \in Snapshots \ {0}, begin <= end,
           NEW p \in Told(t, begin, end)
    PROVE  \E s \in begin..end : p \in DeletedIn(t, s)
  <1>1. /\ FileRowsInv /\ HistoryInv /\ DeletesInv /\ now \in Nat /\ Snapshots = 0 .. now - 1
        /\ \A d \in DeleteFiles : \A f \in DataFiles : f.id = d.file => f.table = d.table
    BY FilesFacts
  <1>2. /\ begin \in Nat /\ end \in Nat /\ 0 < begin /\ end < now
        /\ \A s \in begin..end : s \in Snapshots \ {0} /\ s - 1 \in Snapshots
    BY <1>1
  <1>3. ASSUME NEW f \in DataFiles, f.table = t, NEW r, NEW s \in begin..end,
               RowThere(f.id, r, s - 1),
               (f.end # Null /\ f.end = s) \/ GoneBy(f.id, t, r, s)
        PROVE  <<f.id, r>> \in DeletedIn(t, s)
    <2>1. Reads(s - 1) /\ Reads(s)
      BY <1>1, <1>2 DEF HistoryInv
    <2>2. PICK g \in DataFiles : g.id = f.id /\ Visible(g, s - 1)
      BY <1>3, <2>1 DEF Reads, RowThere
    <2>3. ~InTable(t, f.id, r, s)
      BY <1>1, <1>2, <1>3 DEF FileRowsInv, Visible, InTable
    <2>4. QED
      BY <1>1, <1>2, <1>3, <2>1, <2>2, <2>3, RowsLeave DEF FileRowsInv, Reads, RowThere, InTable
  <1>4. CASE \E del \in InlinedDeletes(stored, t) :
                del.begin \in begin..end /\ p = <<del.file, del.row>>
    <2>1. PICK del \in InlinedDeletes(stored, t) :
             del.begin \in begin..end /\ p = <<del.file, del.row>>
      BY <1>4
    <2>2. PICK f \in DataFiles : f.id = del.file /\ f.table = t
      BY <1>1, <2>1 DEF DeletesInv, InlinedDeletes
    <2>3. QED
      BY <1>1, <1>2, <1>3, <2>1, <2>2 DEF GoneBy, DeletesInv, InlinedDeletes
  <1>5. ASSUME NEW f \in DataFiles, NEW d \in DeleteFiles, f.table = t,
               d.table = t, d.file = f.id, d.begin <= end,
               p \in RowsReported(Replacing(t, f, d, begin), t)
        PROVE  \E s \in begin..end : p \in DeletedIn(t, s)
    <2>1. PICK r \in d.rows :
             /\ p = <<f.id, r>>
             /\ ~\E e \in DeleteFiles : /\ e.table = t /\ e.file = f.id
                                        /\ e.begin < begin /\ r \in e.rows
      BY <1>5, ReplacingTells
    <2>2. PICK e \in DeleteFiles : /\ e.file = d.file /\ e.begin <= d.begin /\ r \in e.rows
                                   /\ RowThere(e.file, r, e.begin - 1)
      BY <1>1, <2>1 DEF DeletesInv
    <2>3. QED
      BY <1>1, <1>2, <1>3, <1>5, <2>1, <2>2 DEF FileRowsInv, GoneBy
  <1>6. ASSUME NEW f \in DataFiles, f.table = t, f.end # Null, f.end >= begin, f.end <= end,
               p \in RowsReported(Ending(t, f), t)
        PROVE  \E s \in begin..end : p \in DeletedIn(t, s)
    <2>1. PICK r \in f.rows :
             /\ p = <<f.id, r>>
             /\ ~\E e \in DeleteFiles : /\ e.table = t /\ e.file = f.id
                                        /\ e.begin < f.end /\ r \in e.rows
             /\ ~\E del \in InlinedDeletes(stored, t) :
                   del.file = f.id /\ del.begin < f.end /\ del.row = r
      BY <1>6, EndingTells
    <2>2. f.end \in begin..end /\ f.begin \in Nat /\ f.begin < f.end
      BY <1>1, <1>2, <1>6 DEF FileRowsInv
    <2>3. ~GoneBy(f.id, t, r, f.end - 1)
      <3>1. \A del \in InlinedDeletes(stored, t) : del.begin \in Nat
        BY <1>1 DEF DeletesInv, InlinedDeletes
      <3>2. QED
        BY <1>1, <1>6, <2>1, <2>2, <3>1 DEF FileRowsInv, GoneBy
    <2>4. RowThere(f.id, r, f.end - 1)
      BY <1>1, <1>2, <1>6, <2>1, <2>2, <2>3 DEF Visible, HistoryInv, Reads, RowThere
    <2>5. QED
      BY <1>3, <1>6, <2>1, <2>2, <2>4
  <1>7. QED
    BY <1>4, <1>5, <1>6, WhatIsTold

\* All that left the table between the two snapshots is told.
LEMMA RowsLeftAreTold ==
    ASSUME IInv, FInv, format # "none", NEW t,
           NEW begin \in Snapshots \ {0}, NEW end \in Snapshots \ {0}, begin <= end,
           NEW s \in begin..end, NEW p \in DeletedIn(t, s)
    PROVE  p \in Told(t, begin, end)
  <1>1. /\ FileRowsInv /\ DeletesInv /\ now \in Nat /\ Snapshots = 0 .. now - 1
        /\ \A d \in DeleteFiles : \A f \in DataFiles : f.id = d.file => f.table = d.table
    BY FilesFacts
  <1>2. begin \in Nat /\ end \in Nat /\ 0 < begin /\ end < now /\ s \in Snapshots \ {0}
    BY <1>1
  <1>3. PICK x, r : p = <<x, r>> /\ InTable(t, x, r, s - 1) /\ ~InTable(t, x, r, s)
    BY <1>2, RowsLeave
  <1>4. PICK f \in DataFiles : /\ f.id = x /\ f.table = t /\ Visible(f, s - 1) /\ r \in f.rows
                               /\ ~GoneBy(x, t, r, s - 1)
    BY <1>3 DEF InTable
  <1>5. \A d \in DeleteFiles : d.file = x => d.table = t /\ d.begin \in Nat
    BY <1>1, <1>4 DEF FileRowsInv
  <1>6. \A del \in InlinedDeletes(stored, t) : del.begin \in Nat
    BY <1>1 DEF DeletesInv, InlinedDeletes
  <1>7. /\ ~\E d \in DeleteFiles : d.table = t /\ d.file = f.id /\ d.begin < s /\ r \in d.rows
        /\ ~\E del \in InlinedDeletes(stored, t) :
              del.file = f.id /\ del.begin < s /\ del.row = r
    BY <1>2, <1>4, <1>5, <1>6 DEF GoneBy
  <1>8. CASE ~Visible(f, s)
    BY <1>1, <1>2, <1>3, <1>4, <1>7, <1>8, EndingTells, WhatIsTold DEF Visible, FileRowsInv
  <1>9. CASE GoneBy(x, t, r, s)
    <2>1. CASE \E d \in DeleteFiles : d.file = x /\ d.begin <= s /\ r \in d.rows
      <3>1. PICK d \in DeleteFiles : d.file = x /\ d.begin <= s /\ r \in d.rows
        BY <2>1
      <3>2. d.table = t /\ d.begin = s
        BY <1>2, <1>4, <1>5, <1>7, <3>1
      <3>3. \A e \in DeleteFiles : e.table = t /\ e.file = f.id /\ e.begin < begin => e.begin < s
        BY <1>2, <1>4, <1>5
      <3>4. p \in RowsReported(Replacing(t, f, d, begin), t)
        BY <1>3, <1>4, <1>7, <3>1, <3>2, <3>3, ReplacingTells
      <3>5. QED
        BY <1>2, <1>4, <3>1, <3>2, <3>4, WhatIsTold
    <2>2. CASE \E del \in InlinedDeletes(stored, t) :
                  del.file = x /\ del.begin <= s /\ del.row = r
      <3>1. PICK del \in InlinedDeletes(stored, t) :
               del.file = x /\ del.begin <= s /\ del.row = r
        BY <2>2
      <3>2. QED
        BY <1>2, <1>3, <1>4, <1>6, <1>7, <3>1, WhatIsTold
    <2>3. QED
      BY <1>9, <2>1, <2>2 DEF GoneBy
  <1>10. QED
    BY <1>3, <1>4, <1>8, <1>9 DEF InTable

\* DeletionsAreReported: the answer for a range of snapshots tells each row that left the table
\* in it and no other, for any number of files, delete files and inlined deletes.
THEOREM DeletionsAlwaysReported == Spec => []DeletionsAreReported
  <1>1. IInv /\ FInv => DeletionsAreReported
    <2> SUFFICES ASSUME IInv, FInv, format # "none",
                        NEW t, NEW begin \in Snapshots \ {0}, NEW end \in Snapshots \ {0},
                        begin <= end
                 PROVE  Told(t, begin, end) = UNION {DeletedIn(t, s) : s \in begin..end}
      BY DEF DeletionsAreReported, Told, ToldByFiles, ToldInline
    <2>1. QED
      BY ToldRowsLeft, RowsLeftAreTold
  <1>2. QED
    BY <1>1, LakeAgreesWithInlinedTables, SnapshotsReadTheirFiles, PTL

\* The rows of a file in the answer, of which it is its delete files.
OfFile(t, f) ==
    LET deletes == {d \in Rows(relation, "ducklake_delete_file") : d.table = t /\ d.file = f.id}
    IN  {DuckLakeCompactionRow(relation, t, f, d) : d \in IF deletes = {} THEN {Null} ELSE deletes}

\* The answer has the rows of each live file of the table.
LEMMA CompactionFiles ==
    ASSUME IInv, FInv, format # "none", NEW t
    PROVE  DuckLakeFilesForCompaction(relation, t, [live |-> TRUE, min |-> Null, max |-> Null])
              = UNION {OfFile(t, f) : f \in {f \in DataFiles : f.table = t /\ f.end = Null}}
  <1> DEFINE limits == [live |-> TRUE, min |-> Null, max |-> Null]
  <1>1. \A f : (f \in DataFiles /\ f.table = t /\ f.end = Null)
                <=> (f \in DataFiles /\ f.table = t /\ (limits.live => f.end = Null)
                     /\ (limits.min # Null => f.size >= limits.min)
                     /\ (limits.max # Null => f.size < limits.max))
    OBVIOUS
  <1> HIDE DEF limits
  <1>2. Rows(relation, "ducklake_data_file") = DataFiles
    BY FileShapes DEF Rows, TableExists, FileTables, DataFiles
  <1>3. DuckLakeFilesForCompaction(relation, t, limits)
           = UNION {OfFile(t, f) : f \in {f \in Rows(relation, "ducklake_data_file") :
                 /\ f.table = t
                 /\ limits.live => f.end = Null
                 /\ limits.min # Null => f.size >= limits.min
                 /\ limits.max # Null => f.size < limits.max}}
    BY Zenon DEF DuckLakeFilesForCompaction, OfFile
  <1>4. {f \in Rows(relation, "ducklake_data_file") :
           /\ f.table = t
           /\ limits.live => f.end = Null
           /\ limits.min # Null => f.size >= limits.min
           /\ limits.max # Null => f.size < limits.max}
           = {f \in DataFiles : f.table = t /\ f.end = Null}
    BY <1>1, <1>2
  <1>5. QED
    BY <1>3, <1>4, Zenon DEF limits

\* The version row that counts is the last one that a file's snapshot knew.
LEMMA VersionOfWriter ==
    ASSUME IInv, FInv, format # "none", NEW f \in DataFiles
    PROVE  SchemaVersionForDataFile(relation, f.table, f.begin) = At(f.begin).versions[f.table]
  <1> DEFINE t == f.table
             R == {row \in Versions : row.table = t /\ row.begin <= f.begin}
             V == At(f.begin).versions[t]
             row == [table |-> t, begin |-> V, version |-> V]
  <1>1. FileRowsInv /\ VersionsInv /\ Snapshots = 0 .. now - 1 /\ now \in Nat
    BY FilesFacts
  <1>2. f.begin \in Nat /\ f.begin \in Snapshots /\ t \in DOMAIN At(f.begin).versions
    BY <1>1 DEF FileRowsInv, VersionsInv
  <1>3. /\ row \in R
        /\ \A other \in R : other.begin <= V /\ other.begin \in Nat /\ other.begin <= f.begin
        /\ \A other \in R : other = [table |-> t, begin |-> other.begin, version |-> other.begin]
    BY <1>1, <1>2 DEF VersionsInv
  <1>4. Latest(R) = {row}
    <2> HIDE DEF R, row, V
    <2>1. PICK last \in R : Latest(R) = {last} /\ \A other \in R : other.begin <= last.begin
      BY <1>2, <1>3, LatestIsLast
    <2>2. QED
      BY <1>3, <2>1 DEF row
  <1>5. SchemaVersionForDataFile(relation, t, f.begin) = row.version
    BY <1>4, FileShapes DEF Rows, TableExists, FileTables, Versions, SchemaVersionForDataFile
  <1>6. QED
    BY <1>5

\* Rows that are numbered from 1.
LEMMA NumberedRows ==
    ASSUME NEW n \in Nat, NEW rec, NEW C, C = {rec[i] : i \in 1 .. n},
           \A i \in 1 .. n : rec[i].index = i
    PROVE  IsFiniteSet(C) /\ Cardinality(C) = n
  <1> DEFINE f == [i \in 1 .. n |-> rec[i]]
  <1>1. f \in Bijection(1 .. n, C)
    BY DEF Bijection, Injection, Surjection, IsInjective
  <1>2. QED
    <2> HIDE DEF f
    <2>1. QED
      BY <1>1, FS_Bijection, FS_Interval DEF ExistsBijection

\* The keys of a file in the order of their index are those of its table's partition.
LEMMA KeysInOrder ==
    ASSUME FileTables \subseteq DOMAIN relation, NEW x, NEW n \in Nat, NEW p,
           KeysOf(x) = {[file |-> x, index |-> i, value |-> p[i]] : i \in 1 .. n}
    PROVE  PartitionValuesForDataFile(relation, x) = [i \in 1 .. n |-> p[i]]
  <1> DEFINE rec == [i \in 1 .. n |-> [file |-> x, index |-> i, value |-> p[i]]]
             K == {row \in Rows(relation, "ducklake_file_partition_value") : row.file = x}
             below(row) == {other \in K : other.index < row.index}
             sorted == [i \in 1 .. Cardinality(K) |->
                           CHOOSE row \in K : Cardinality(below(row)) = i - 1]
  <1>1. K = {rec[i] : i \in 1 .. n}
    BY DEF Rows, TableExists, FileTables, Keys, KeysOf
  <1> HIDE DEF K
  <1>2. Cardinality(K) = n
    <2>1. K = {rec[i] : i \in 1 .. n} /\ \A i \in 1 .. n : rec[i].index = i
      BY <1>1
    <2> HIDE DEF rec
    <2>2. QED
      BY <2>1, NumberedRows
  <1>3. ASSUME NEW i \in 1 .. n
        PROVE  Cardinality(below(rec[i])) = i - 1
    <2>1. i - 1 \in Nat
      OBVIOUS
    <2>2. \A k \in 1 .. n : rec[k] \in K /\ rec[k].index = k
      BY <1>1
    <2> HIDE DEF rec
    <2>3. below(rec[i]) = {rec[k] : k \in 1 .. i - 1}
      BY <1>1, <2>2
    <2>4. \A k \in 1 .. i - 1 : rec[k].index = k
      BY <2>2
    <2> HIDE DEF below
    <2>5. QED
      BY <2>1, <2>3, <2>4, NumberedRows
  <1>4. \A i \in 1 .. n : rec[i] \in K /\ rec[i].value = p[i]
    BY <1>1
  <1> HIDE DEF rec, below
  <1>5. ASSUME NEW i \in 1 .. n
        PROVE  sorted[i] = rec[i]
    BY <1>1, <1>2, <1>3, <1>4
  <1>6. DOMAIN sorted = 1 .. n
    BY <1>2
  <1>7. PartitionValuesForDataFile(relation, x) = [i \in DOMAIN sorted |-> sorted[i].value]
    BY DEF PartitionValuesForDataFile, Sorted, below, K
  <1> HIDE DEF sorted
  <1>8. QED
    BY <1>4, <1>5, <1>6, <1>7

\* The answer's keys of a file are those it was written with.
LEMMA KeysOfPartition ==
    ASSUME IInv, FInv, format # "none", NEW f \in DataFiles
    PROVE  PartitionValuesForDataFile(relation, f.id) = WrittenBy(f.table, f.begin)
  <1>1. PICK p : p = WrittenBy(f.table, f.begin)
    OBVIOUS
  <1>2. /\ Len(p) \in Nat /\ p = [i \in 1 .. Len(p) |-> p[i]]
        /\ KeysOf(f.id) = {[file |-> f.id, index |-> i, value |-> p[i]] : i \in 1 .. Len(p)}
    BY <1>1, FilesFacts DEF KeysInv, IsNumbered, NumberedKeys
  <1>3. PICK n \in Nat : n = Len(p)
    BY <1>2
  <1>4. PartitionValuesForDataFile(relation, f.id) = [i \in 1 .. n |-> p[i]]
    BY <1>2, <1>3, KeysInOrder, FileShapes
  <1>5. QED
    BY <1>1, <1>2, <1>3, <1>4

\* CompactionSeesTheSchemaOfTheWriter: compaction sees the live files and no other, each with its
\* delete files, the schema version of its writer and the keys it was written with, however often
\* the schema or the partition changed.
THEOREM CompactionAlwaysSeesTheSchemaOfTheWriter == Spec => []CompactionSeesTheSchemaOfTheWriter
  <1>1. IInv /\ FInv => CompactionSeesTheSchemaOfTheWriter
    <2> DEFINE deletes(f) == {d \in DeleteFiles : d.file = f.id}
               row(t, f, d) == [file |-> f.id, delete |-> d, version |-> At(f.begin).versions[t],
                                keys |-> WrittenBy(t, f.begin)]
               expected(t, f) ==
                   {row(t, f, d) : d \in IF deletes(f) = {} THEN {Null} ELSE deletes(f)}
    <2> SUFFICES ASSUME IInv, FInv, format # "none", NEW t \in DOMAIN lake.tables, NEW rows,
                        rows = DuckLakeFilesForCompaction(
                                  relation, t, [live |-> TRUE, min |-> Null, max |-> Null])
                 PROVE  /\ {r.file : r \in rows} = DOMAIN FilesOf(lake, t)
                        /\ \A f \in DataFiles :
                              f.id \in DOMAIN FilesOf(lake, t) =>
                                  {r \in rows : r.file = f.id} = expected(t, f)
      BY DEF CompactionSeesTheSchemaOfTheWriter, DataFiles, DeleteFiles
    <2>1. FileRowsInv /\ HistoryInv /\ now \in Nat /\ 0 < now /\ lake = At(now - 1)
          /\ Snapshots = 0 .. now - 1
          /\ \A d \in DeleteFiles : \A f \in DataFiles : f.id = d.file => f.table = d.table
      BY FilesFacts
    <2> DEFINE live == {f \in DataFiles : f.table = t /\ f.end = Null}
    <2>2. rows = UNION {OfFile(t, f) : f \in live}
      BY CompactionFiles
    <2>3. \A x : x \in DOMAIN FilesOf(lake, t) <=> \E f \in live : f.id = x
      BY <2>1 DEF HistoryInv, Visible, FileRowsInv, Reads, FilesOf
    <2>4. ASSUME NEW f \in live
          PROVE  OfFile(t, f) = expected(t, f)
      <3>1. deletes(f) = {d \in Rows(relation, "ducklake_delete_file") :
                             d.table = t /\ d.file = f.id}
        BY <2>1, FileShapes DEF Rows, TableExists, FileTables, DeleteFiles
      <3>2. \A d : DuckLakeCompactionRow(relation, t, f, d) = row(t, f, d)
        BY VersionOfWriter, KeysOfPartition DEF DuckLakeCompactionRow
      <3> HIDE DEF row, deletes
      <3>3. QED
        BY <3>1, <3>2 DEF OfFile
    <2>5. \A f \in live : expected(t, f) # {} /\ \A r \in expected(t, f) : r.file = f.id
      <3>1. \A f : \E d : d \in IF deletes(f) = {} THEN {Null} ELSE deletes(f)
        OBVIOUS
      <3>2. \A f, d : row(t, f, d).file = f.id
        OBVIOUS
      <3> HIDE DEF deletes, row
      <3>3. QED
        BY <3>1, <3>2
    <2>6. \A f, g \in DataFiles : f.id = g.id => f = g
      BY <2>1 DEF FileRowsInv
    <2> HIDE DEF expected, live
    <2>7. \A r : r \in rows <=> \E f \in live : r \in expected(t, f)
      BY <2>2, <2>4
    <2>8. live \subseteq DataFiles
      BY DEF live
    <2>9. \A x : x \in {r.file : r \in rows} <=> x \in DOMAIN FilesOf(lake, t)
      <3>1. ASSUME NEW r \in rows
            PROVE  r.file \in DOMAIN FilesOf(lake, t)
        <4>1. PICK f \in live : r \in expected(t, f)
          BY <2>7
        <4>2. QED
          BY <2>3, <2>5, <4>1
      <3>2. ASSUME NEW f \in live
            PROVE  \E r \in rows : r.file = f.id
        BY <2>5, <2>7
      <3>3. QED
        BY <2>3, <3>1, <3>2
    <2>10. ASSUME NEW f \in DataFiles, f.id \in DOMAIN FilesOf(lake, t)
           PROVE  {r \in rows : r.file = f.id} = expected(t, f)
      <3>1. f \in live
        BY <2>3, <2>6, <2>8, <2>10
      <3>2. \A r : r \in rows /\ r.file = f.id <=> r \in expected(t, f)
        <4>1. ASSUME NEW r \in rows, r.file = f.id
              PROVE  r \in expected(t, f)
          <5>1. PICK g \in live : r \in expected(t, g)
            BY <2>7
          <5>2. QED
            BY <2>5, <2>6, <2>8, <4>1, <5>1
        <4>2. QED
          BY <2>5, <2>7, <3>1, <4>1
      <3>3. QED
        BY <3>2
    <2>11. QED
      BY <2>9, <2>10
  <1>2. QED
    BY <1>1, LakeAgreesWithInlinedTables, SnapshotsReadTheirFiles, PTL

-----------------------------------------------------------------------------
(* What a snapshot reads back                                              *)

TableRows == relation.ducklake_table
ColumnRows == relation.ducklake_column
TagRows == relation.ducklake_tag
ColumnTagRows == relation.ducklake_column_tag
ViewRows == relation.ducklake_view
MacroRows == Rows(relation, "ducklake_macro")
PartitionRows == relation.ducklake_partition_column

ReadTables ==
    {"ducklake_table", "ducklake_column", "ducklake_tag", "ducklake_column_tag", "ducklake_view",
     "ducklake_partition_column"}

\* What is read of a row, and what of a relation in a snapshot.
Content(row) == [field \in DOMAIN row \ {"begin", "end"} |-> row[field]]
Seen(rows, s) == {Content(row) : row \in {row \in rows : Visible(row, s)}}

\* No two rows of a snapshot read the same.
Distinct(rows, s) ==
    \A row, other \in rows :
        Visible(row, s) /\ Visible(other, s) /\ Content(row) = Content(other) => row = other

\* Rows with these fields, of snapshots before n.
Timed(rows, fields, n) ==
    \A row \in rows :
        /\ DOMAIN row = fields \cup {"begin", "end"}
        /\ row.begin \in Nat /\ row.begin < n
        /\ row.end # Null => row.end \in Nat /\ row.end < n

IdField == {"id"}
TablesAgree(seen, was) == {x.id : x \in seen} = DOMAIN was.tables
TablesInv ==
    /\ Timed(TableRows, IdField, now)
    /\ \A s \in Snapshots : TablesAgree(Seen(TableRows, s), At(s))

ViewsAgree(seen, was) == {x.id : x \in seen} = DOMAIN was.views
ViewsInv ==
    /\ Timed(ViewRows, IdField, now)
    /\ \A v \in DOMAIN lake.views :
          v \in Nat /\ v < lake.next /\ v \notin DOMAIN lake.tables
    /\ \A s \in Snapshots : ViewsAgree(Seen(ViewRows, s), At(s))

\* In the order that the client wants, which goes by id: the top-level columns first.
Ordered(col, other) ==
    \/ col.parent = other.parent /\ col.id < other.id
    \/ col.parent = Null /\ other.parent # Null
    \/ col.parent # Null /\ other.parent # Null /\ col.parent < other.parent

IsColumns(cols) ==
    /\ Len(cols) \in Nat
    /\ cols = [i \in 1 .. Len(cols) |-> cols[i]]
    /\ \A i \in 1 .. Len(cols) :
          /\ cols[i] = [id |-> cols[i].id, name |-> cols[i].name, parent |-> cols[i].parent,
                        tags |-> cols[i].tags]
          /\ cols[i].id \in Nat
          /\ cols[i].parent # Null => cols[i].parent \in Nat
    /\ \A i, j \in 1 .. Len(cols) : i < j => Ordered(cols[i], cols[j])
    /\ \A i, j \in 1 .. Len(cols) : cols[i].id = cols[j].id => i = j

ColumnFields == {"table", "id", "name", "order", "parent"}
ColumnContent(t, col) ==
    [table |-> t, id |-> col.id, name |-> col.name, order |-> col.id, parent |-> col.parent]
ContentOfColumns(t, cols) == {ColumnContent(t, cols[i]) : i \in 1 .. Len(cols)}

ColumnsAgree(seen, was) ==
    \A t \in DOMAIN was.tables :
        /\ IsColumns(was.tables[t].columns) /\ Len(was.tables[t].columns) >= 1
        /\ {x \in seen : x.table = t} = ContentOfColumns(t, was.tables[t].columns)

ColumnsInv ==
    /\ \A t \in DOMAIN lake.tables : DOMAIN lake.tables[t] = {"tags", "columns"}
    /\ Timed(ColumnRows, ColumnFields, now)
    /\ \E n \in Nat : \A row \in ColumnRows : row.id <= n
    /\ \A row \in ColumnRows :
          /\ row.table \in Nat /\ row.table < lake.next /\ row.id \in Nat
          /\ row.parent # Null => row.parent \in Nat /\ row.parent < row.id
    /\ \A s \in Snapshots :
          Distinct(ColumnRows, s) /\ ColumnsAgree(Seen(ColumnRows, s), At(s))

TagFields == {"object", "key", "value"}
TagsOf(seen, object) == {<<x.key, x.value>> : x \in {x \in seen : x.object = object}}
TagsAgree(seen, was) ==
    /\ \A t \in DOMAIN was.tables : was.tables[t].tags = TagsOf(seen, t)
    /\ \A v \in DOMAIN was.views : was.views[v] = TagsOf(seen, v)
TagsInv ==
    /\ Timed(TagRows, TagFields, now)
    /\ \A row \in TagRows : row.object \in Nat /\ row.object < lake.next
    /\ \A s \in Snapshots : TagsAgree(Seen(TagRows, s), At(s))

ColumnTagFields == {"table", "column", "key", "value"}
ColumnTagsOf(seen, t, column) ==
    {<<x.key, x.value>> : x \in {x \in seen : x.table = t /\ x.column = column}}
ColumnTagsAgree(seen, was) ==
    \A t \in DOMAIN was.tables :
        \A i \in 1 .. Len(was.tables[t].columns) :
            was.tables[t].columns[i].tags =
                ColumnTagsOf(seen, t, was.tables[t].columns[i].id)
ColumnTagsInv ==
    /\ Timed(ColumnTagRows, ColumnTagFields, now)
    /\ \A row \in ColumnTagRows :
          \E col \in ColumnRows : col.table = row.table /\ col.id = row.column
    /\ \A s \in Snapshots : ColumnTagsAgree(Seen(ColumnTagRows, s), At(s))

\* What is written of the implementations of a macro is not changed afterwards.
MacroImpls == Rows(relation, "ducklake_macro_impl")
MacroParameters == Rows(relation, "ducklake_macro_parameters")
ImplsOf(m) == {[macro |-> m, impl |-> i] : i \in 1 .. 2}
ParametersOf(m) == {[macro |-> m, impl |-> 1, column |-> c, name |-> c] : c \in 1 .. 2}
TwoImplementations == <<<<1, 2>>, <<>>>>
MacrosAgree(seen, was) ==
    /\ {x.id : x \in seen} = DOMAIN was.macros
    /\ \A m \in DOMAIN was.macros : was.macros[m] = TwoImplementations
MacrosInv ==
    /\ format = "0.3" => MacroTables \cap DOMAIN relation = {}
    /\ format = "1.0" => MacroTables \subseteq DOMAIN relation
    /\ Timed(MacroRows, IdField, now)
    /\ \A row \in MacroRows : row.id \in Nat /\ row.id < lake.next
    /\ \A row \in MacroImpls \cup MacroParameters : row.macro \in Nat /\ row.macro < lake.next
    /\ \A macro \in MacroRows :
          /\ {row \in MacroImpls : row.macro = macro.id} = ImplsOf(macro.id)
          /\ {row \in MacroParameters : row.macro = macro.id} = ParametersOf(macro.id)
    /\ \A s \in Snapshots : MacrosAgree(Seen(MacroRows, s), At(s))

DataFileFields == {"id", "table", "size", "rows"}
FileSizesAgree(seen, was) ==
    /\ {x.id : x \in seen} = DOMAIN was.files
    /\ \A x \in seen : was.files[x.id].table = x.table /\ was.files[x.id].size = x.size
FileSizesInv ==
    /\ Timed(DataFiles, DataFileFields, now)
    /\ \A row \in DataFiles : IsFiniteSet(row.rows) /\ row.size \in Nat
    /\ \A s \in Snapshots : FileSizesAgree(Seen(DataFiles, s), At(s))

\* The delete files that a snapshot reads are one for each file that has one.
DeleteFileFields == {"id", "table", "file", "size", "rows"}
DeleteSizesAgree(seen, was) ==
    /\ {x.file : x \in seen} = DOMAIN was.deletes
    /\ DOMAIN was.deletes \subseteq DOMAIN was.files
    /\ \A x \in seen : was.files[x.file].table = x.table /\ was.deletes[x.file] = x.size
    /\ \A x, y \in seen : x.file = y.file => x = y
DeleteSizesInv ==
    /\ Timed(DeleteFiles, DeleteFileFields, now)
    /\ \A row \in DeleteFiles : IsFiniteSet(row.rows) /\ row.size \in Nat
    /\ \A s \in Snapshots : DeleteSizesAgree(Seen(DeleteFiles, s), At(s))

\* A partition column is an id, or before the migration the position of a top-level column,
\* which come first.
Means(t, i, column) ==
    LET cols == lake.tables[t].columns
    IN  \E k \in 1 .. Len(cols) :
           cols[k].parent = Null /\ cols[k].id = lake.partitions[t][i] /\ column = k - 1
MeansColumn(t, i, column) ==
    IF format = "0.3" THEN Means(t, i, column) ELSE column = lake.partitions[t][i]

PartitionRowsOf(t) == {row \in PartitionRows : row.table = t}
PartitionInv ==
    /\ \A row \in PartitionRows :
          /\ DOMAIN row = {"table", "index", "column"}
          /\ row.table \in Nat /\ row.table < lake.next
          /\ row.table \in DOMAIN lake.tables => row.table \in DOMAIN lake.partitions
    /\ \A t \in DOMAIN lake.partitions :
          /\ \A row \in PartitionRowsOf(t) :
                row.index \in DOMAIN lake.partitions[t] /\ MeansColumn(t, row.index, row.column)
          /\ \A i \in DOMAIN lake.partitions[t] : \E row \in PartitionRowsOf(t) : row.index = i

RowsInv ==
    /\ ReadTables \subseteq DOMAIN relation
    /\ TablesInv /\ ViewsInv /\ ColumnsInv /\ TagsInv /\ ColumnTagsInv /\ MacrosInv
    /\ FileSizesInv /\ DeleteSizesInv /\ PartitionInv

RInv ==
    /\ format \in {"none", "0.3", "1.0"}
    /\ format = "none" => lake = EmptyLake /\ now = 1 /\ relation = <<>>
    /\ format # "none" => RowsInv

-----------------------------------------------------------------------------
(* Orders                                                                  *)

\* A set of numbers that is not empty has a least one.
LEMMA HasLeast ==
    ASSUME NEW S \in SUBSET Nat, S # {}
    PROVE  \E x \in S : \A y \in S : x <= y
  <1>1. PICK x \in S : \A y \in S : <<y, x>> \notin OpToRel(<, Nat)
    BY WFMin, NatLessThanWellFounded, Zenon
  <1>2. ASSUME NEW y \in S
        PROVE  x <= y
    <2>1. x \in Nat /\ y \in Nat
      OBVIOUS
    <2>2. y < x => <<y, x>> \in OpToRel(<, Nat)
      BY <2>1 DEF OpToRel
    <2>3. ~(y < x)
      BY <1>1, <2>2, Zenon
    <2>4. QED
      BY <2>1, <2>3
  <1>3. QED
    BY <1>2

\* A set of numbers with a bound that is not empty has a greatest one, which Max is.
LEMMA HasGreatest ==
    ASSUME NEW S \in SUBSET Nat, S # {}, NEW n \in Nat, \A x \in S : x <= n
    PROVE  Max(S) \in S /\ \A y \in S : y <= Max(S)
  <1> DEFINE T == {n - x : x \in S}
  <1>1. T \in SUBSET Nat /\ T # {}
    <2>1. \A x \in S : n - x \in Nat
      OBVIOUS
    <2>2. QED
      BY <2>1
  <1>2. PICK z \in T : \A y \in T : z <= y
    BY <1>1, HasLeast
  <1>3. PICK x \in S : z = n - x
    OBVIOUS
  <1>4. ASSUME NEW y \in S
        PROVE  x >= y
    <2>1. n - x <= n - y
      BY <1>2, <1>3
    <2> HIDE DEF T
    <2>2. QED
      BY <2>1
  <1>5. QED
    BY <1>4 DEF Max

\* What 1 .. n counts without repetition has n elements.
LEMMA Counted ==
    ASSUME NEW n \in Nat, NEW f, NEW S, S = {f[i] : i \in 1 .. n},
           \A i, j \in 1 .. n : f[i] = f[j] => i = j
    PROVE  IsFiniteSet(S) /\ Cardinality(S) = n
  <1> DEFINE g == [i \in 1 .. n |-> f[i]]
  <1>1. g \in Bijection(1 .. n, S)
    BY DEF Bijection, Injection, Surjection, IsInjective
  <1>2. QED
    <2> HIDE DEF g
    <2>1. QED
      BY <1>1, FS_Bijection, FS_Interval DEF ExistsBijection

\* What comes before a row, in an order that is a set of pairs.
Before(R, B, row) == {other \in R : <<other, row>> \in B}

GoesThrough(f, n, R, B) ==
    /\ \A i \in 1 .. n : f[i] \in R
    /\ \A row \in R : \E i \in 1 .. n : row = f[i]
    /\ \A i, j \in 1 .. n : <<f[i], f[j]>> \in B <=> i < j

\* The set that f goes through in its order: the i-th has i - 1 before it, and no other has.
LEMMA InOrder ==
    ASSUME NEW n \in Nat, NEW f, NEW R, NEW B, GoesThrough(f, n, R, B)
    PROVE  /\ Cardinality(R) = n
           /\ \A i \in 1 .. n : \A row \in R :
                 Cardinality(Before(R, B, row)) = i - 1 <=> row = f[i]
  <1> DEFINE below(row) == Before(R, B, row)
  <1>1. \A i, j \in 1 .. n : f[i] = f[j] => i = j
    <2> SUFFICES ASSUME NEW i \in 1 .. n, NEW j \in 1 .. n, f[i] = f[j], i < j
                 PROVE  FALSE
      OBVIOUS
    <2>1. <<f[i], f[j]>> \in B /\ <<f[i], f[i]>> \notin B
      BY DEF GoesThrough
    <2>2. QED
      BY <2>1
  <1>2. Cardinality(R) = n
    <2>1. R = {f[i] : i \in 1 .. n}
      BY DEF GoesThrough
    <2>2. QED
      BY <1>1, <2>1, Counted
  <1>3. ASSUME NEW i \in 1 .. n
        PROVE  Cardinality(below(f[i])) = i - 1
    <2>1. i - 1 \in Nat /\ \A k : k \in 1 .. i - 1 <=> k \in 1 .. n /\ k < i
      OBVIOUS
    <2>2. below(f[i]) = {f[k] : k \in 1 .. i - 1}
      BY <2>1 DEF Before, GoesThrough
    <2> HIDE DEF below
    <2>3. QED
      BY <1>1, <2>1, <2>2, Counted
  <1> HIDE DEF below
  <1>4. ASSUME NEW i \in 1 .. n, NEW row \in R
        PROVE  Cardinality(below(row)) = i - 1 <=> row = f[i]
    <2>1. PICK j \in 1 .. n : row = f[j]
      BY DEF GoesThrough
    <2>2. QED
      BY <1>1, <1>3, <2>1
  <1>5. QED
    BY <1>2, <1>4 DEF below

\* A set of positions is gone through in its order, and what is picked with it.
LEMMA PickedInOrder ==
    ASSUME NEW n \in Nat, NEW I \in SUBSET (1 .. n)
    PROVE  \E e \in [1 .. Cardinality(I) -> I] :
              /\ Cardinality(I) \in Nat
              /\ \A i \in I : \E k \in 1 .. Cardinality(I) : e[k] = i
              /\ \A j, k \in 1 .. Cardinality(I) : j < k <=> e[j] < e[k]
              /\ \A s : Picked(s, I) = [k \in 1 .. Cardinality(I) |-> s[e[k]]]
  <1> DEFINE m == Cardinality(I)
             below(i) == {j \in I : j < i}
             rank == [i \in I |-> Cardinality(below(i))]
  <1>1. IsFiniteSet(I) /\ m \in Nat /\ \A i \in I : i \in 1 .. n /\ i \in Int
    <2>1. IsFiniteSet(1 .. n)
      BY FS_Interval
    <2>2. IsFiniteSet(I)
      BY <2>1, FS_Subset
    <2>3. QED
      BY <2>2, FS_CardinalityType
  <1>2. ASSUME NEW i \in I
        PROVE  /\ IsFiniteSet(below(i))
               /\ rank[i] \in 0 .. m - 1
    BY <1>1, FS_Subset, FS_CardinalityType
  <1>3. ASSUME NEW i \in I, NEW k \in I, i < k
        PROVE  rank[i] < rank[k]
    <2>1. below(i) \in SUBSET below(k) /\ i \in below(k) /\ i \notin below(i)
      <3>1. \A j \in I : j \in Int
        BY <1>1
      <3>2. \A j \in below(i) : j \in below(k)
        BY <1>3, <3>1
      <3>3. i \in below(k) /\ i \notin below(i)
        BY <1>3, <3>1
      <3>4. QED
        BY <3>2, <3>3
    <2>2. IsFiniteSet(below(k)) /\ rank[i] = Cardinality(below(i)) /\ rank[k] = Cardinality(below(k))
      BY <1>2
    <2>3. /\ Cardinality(below(i)) <= Cardinality(below(k))
          /\ Cardinality(below(i)) # Cardinality(below(k))
      <3> HIDE DEF below
      <3>1. QED
        BY <2>1, <2>2, FS_Subset
    <2>4. QED
      BY <1>2, <2>2, <2>3
  <1> HIDE DEF rank
  <1>4. \A i, k \in I : rank[i] = rank[k] => i = k
    <2> SUFFICES ASSUME NEW i \in I, NEW k \in I, rank[i] = rank[k]
                 PROVE  i = k
      OBVIOUS
    <2>1. rank[i] \in Int
      <3>1. rank[i] \in 0 .. m - 1
        BY <1>2
      <3>2. QED
        BY <3>1
    <2>2. QED
      BY <1>1, <1>3, <2>1
  <1>5. IsFiniteSet(0 .. m - 1) /\ Cardinality(0 .. m - 1) = m
    <2> HIDE DEF m
    <2>1. QED
      BY <1>1, FS_Interval
  <1>6. \A r \in 0 .. m - 1 : \E i \in I : rank[i] = r
    <2>1. rank \in Surjection(I, 0 .. m - 1)
      BY <1>2, <1>4, <1>5, FS_Injection DEF rank, Injection, IsInjective
    <2>2. QED
      BY <2>1 DEF Surjection
  <1> DEFINE e == [k \in 1 .. m |-> CHOOSE i \in I : Cardinality(below(i)) = k - 1]
  <1>7. \A i \in I : rank[i] = Cardinality(below(i))
    BY DEF rank
  <1> HIDE DEF below
  <1>8. \A k \in 1 .. m : e[k] \in I /\ rank[e[k]] = k - 1
    <2> SUFFICES ASSUME NEW k \in 1 .. m
                 PROVE  e[k] \in I /\ rank[e[k]] = k - 1
      OBVIOUS
    <2>1. PICK i \in I : Cardinality(below(i)) = k - 1
      BY <1>1, <1>6, <1>7
    <2>2. QED
      BY <1>7, <2>1
  <1>9. \A s : Picked(s, I) = [k \in 1 .. m |-> s[e[k]]]
    <2> DEFINE sorted == Sorted(I, LAMBDA i, j : i < j)
    <2>1. sorted = e
      BY DEF Sorted, below
    <2>2. \A s : Picked(s, I) = [k \in DOMAIN sorted |-> s[sorted[k]]]
      BY DEF Picked
    <2> HIDE DEF sorted
    <2>3. DOMAIN e = 1 .. m
      OBVIOUS
    <2> HIDE DEF e
    <2>4. QED
      BY <2>1, <2>2, <2>3
  <1>10. e \in [1 .. m -> I]
    BY <1>8
  <1> HIDE DEF e, m
  <1>11. \A i \in I : \E k \in 1 .. m : e[k] = i
    <2> SUFFICES ASSUME NEW i \in I
                 PROVE  \E k \in 1 .. m : e[k] = i
      OBVIOUS
    <2>1. rank[i] + 1 \in 1 .. m /\ (rank[i] + 1) - 1 = rank[i]
      BY <1>1, <1>2 DEF rank, below
    <2>2. QED
      BY <1>4, <1>8, <2>1
  <1>12. \A j, k \in 1 .. m : j < k <=> e[j] < e[k]
    <2> SUFFICES ASSUME NEW j \in 1 .. m, NEW k \in 1 .. m
                 PROVE  j < k <=> e[j] < e[k]
      OBVIOUS
    <2>1. /\ e[j] \in I /\ rank[e[j]] = j - 1
          /\ e[k] \in I /\ rank[e[k]] = k - 1
      BY <1>8
    <2>2. e[j] \in Int /\ e[k] \in Int
      BY <1>1, <2>1
    <2>3. QED
      BY <1>3, <2>1, <2>2
  <1>13. QED
    BY <1>1, <1>9, <1>10, <1>11, <1>12 DEF m
\* Some rows of a relation end, and others are added.
Written(rows, fields, H, new, after) ==
    /\ after = {Closed(row, H) : row \in rows} \cup new
    /\ \A row \in new :
          DOMAIN row = fields \cup {"begin", "end"} /\ row.begin = now /\ row.end = Null

\* The rows of H that have not ended are those that read as gone.
Ends(rows, H, gone) ==
    \A row \in rows : row.end = Null => (row \in H <=> Content(row) \in gone)

\* What is read then.
Rest(rows, gone, new) == (Seen(rows, now - 1) \ gone) \cup {Content(row) : row \in new}

\* What is read of a row does not change when it ends.
LEMMA ContentOfClosed ==
    ASSUME NEW row, NEW H, {"begin", "end"} \subseteq DOMAIN row
    PROVE  /\ Content(Closed(row, H)) = Content(row)
           /\ DOMAIN Closed(row, H) = DOMAIN row
           /\ Closed(row, H).begin = row.begin
           /\ Closed(row, H).end = IF row.end = Null /\ row \in H THEN now ELSE row.end
  BY DEF Closed, Content

\* A snapshot reads what it read, and the next one also what is added, less what ended.
LEMMA SeenAfter ==
    ASSUME now \in Nat, 0 < now, NEW rows, NEW fields, Timed(rows, fields, now),
           NEW H, NEW new, NEW after, Written(rows, fields, H, new, after), NEW gone,
           Ends(rows, H, gone)
    PROVE  /\ Timed(after, fields, now + 1)
           /\ \A s \in 0 .. now - 1 : Seen(after, s) = Seen(rows, s)
           /\ Seen(after, now) = Rest(rows, gone, new)
           /\ \A s \in 0 .. now - 1 : Distinct(rows, s) => Distinct(after, s)
           /\ (/\ Distinct(rows, now - 1)
               /\ \A row, other \in new : Content(row) = Content(other) => row = other
               /\ \A row \in new : Content(row) \notin Seen(rows, now - 1) \ gone)
              => Distinct(after, now)
  <1> DEFINE C(row) == Closed(row, H)
  <1>1. \A row \in rows : /\ DOMAIN row = fields \cup {"begin", "end"}
                          /\ row.begin \in Nat /\ row.begin < now
                          /\ row.end # Null => row.end \in Nat /\ row.end < now
    BY DEF Timed
  <1>2. \A row \in rows : /\ Content(C(row)) = Content(row)
                          /\ DOMAIN C(row) = DOMAIN row
                          /\ C(row).begin = row.begin
                          /\ C(row).end = IF row.end = Null /\ row \in H THEN now ELSE row.end
    BY <1>1, ContentOfClosed
  <1>3. \A row \in new :
           DOMAIN row = fields \cup {"begin", "end"} /\ row.begin = now /\ row.end = Null
    BY DEF Written
  <1>4. \A row : row \in after <=> (row \in new \/ \E old \in rows : row = C(old))
    BY DEF Written
  <1> HIDE DEF C
  <1>5. Timed(after, fields, now + 1)
    <2>1. \A row \in after : /\ row.begin \in Nat /\ row.begin < now + 1
                             /\ row.end # Null => row.end \in Nat /\ row.end < now + 1
      BY <1>1, <1>2, <1>3, <1>4, NullAssumption
    <2>2. QED
      BY <1>1, <1>2, <1>3, <1>4, <2>1 DEF Timed
  <1>6. ASSUME NEW s \in 0 .. now - 1
        PROVE  /\ \A row \in rows : Visible(C(row), s) <=> Visible(row, s)
               /\ \A row \in new : ~Visible(row, s)
    BY <1>1, <1>2, <1>3, NullAssumption DEF Visible
  <1>7. /\ \A row \in rows : Visible(C(row), now) <=> row.end = Null /\ row \notin H
        /\ \A row \in rows : Visible(row, now - 1) <=> row.end = Null
        /\ \A row \in new : Visible(row, now)
    BY <1>1, <1>2, <1>3, NullAssumption DEF Visible
  <1>8. ASSUME NEW s \in 0 .. now - 1
        PROVE  /\ Seen(after, s) = Seen(rows, s)
               /\ Distinct(rows, s) => Distinct(after, s)
    BY <1>2, <1>4, <1>6 DEF Seen, Distinct
  <1>9. Seen(after, now) = Rest(rows, gone, new)
    BY <1>2, <1>4, <1>7 DEF Seen, Ends, Rest
  <1>10. ASSUME Distinct(rows, now - 1),
                \A row, other \in new : Content(row) = Content(other) => row = other,
                \A row \in new : Content(row) \notin Seen(rows, now - 1) \ gone
         PROVE  Distinct(after, now)
    BY <1>2, <1>4, <1>7, <1>10 DEF Seen, Ends, Distinct
  <1>11. QED
    BY <1>5, <1>8, <1>9, <1>10

\* A relation that nothing happens to reads as in the last snapshot.
LEMMA SeenKept ==
    ASSUME now \in Nat, 0 < now, NEW rows, NEW fields, Timed(rows, fields, now)
    PROVE  /\ Timed(rows, fields, now + 1)
           /\ Seen(rows, now) = Seen(rows, now - 1)
           /\ Distinct(rows, now - 1) => Distinct(rows, now)
  <1>1. Timed(rows, fields, now + 1)
    BY DEF Timed
  <1>2. QED
    BY <1>1, NullAssumption DEF Timed, Visible, Seen, Distinct

\* What is read of a new row is what is new.
LEMMA ContentOfNew ==
    ASSUME NEW row, "begin" \notin DOMAIN row, "end" \notin DOMAIN row,
           row = [field \in DOMAIN row |-> row[field]]
    PROVE  /\ Content(New(row)) = row
           /\ DOMAIN New(row) = DOMAIN row \cup {"begin", "end"}
           /\ New(row).begin = now /\ New(row).end = Null
           /\ \A field \in DOMAIN row : New(row)[field] = row[field]
  BY DEF New, Content
-----------------------------------------------------------------------------
(* What a commit does to what is read                                      *)

\* The snapshots after a commit are those before it, as they were, and the new one.
LEMMA SnapshotsAfter ==
    ASSUME Commits
    PROVE  /\ now \in Nat /\ 0 < now /\ now' = now + 1 /\ now - 1 \in Snapshots
           /\ lake = At(now - 1)
           /\ \A s \in Snapshots' :
                 \/ s \in 0 .. now - 1 /\ s \in Snapshots /\ At(s)' = At(s)
                 \/ s = now /\ At(s)' = lake'
  BY CommitFacts DEF At

\* A relation that is written reads as before in the snapshots before, and one that is not
\* written reads in the new snapshot as in the last.
LEMMA TablesWritten ==
    ASSUME Commits, TablesInv, NEW H, NEW new, NEW gone,
           Written(TableRows, IdField, H, new, TableRows'),
           Ends(TableRows, H, gone),
           TablesAgree(Rest(TableRows, gone, new), lake')
    PROVE  TablesInv'
  BY SnapshotsAfter, SeenAfter DEF TablesInv

\* Tables are read as before where neither their rows nor the tables of the lake change.
LEMMA TablesKept ==
    ASSUME Commits, TablesInv, TableRows' = TableRows,
           DOMAIN lake'.tables = DOMAIN lake.tables
    PROVE  TablesInv'
  BY SnapshotsAfter, SeenKept DEF TablesInv, TablesAgree

\* What has to be shown of the rows of views that a commit writes.
LEMMA ViewsWritten ==
    ASSUME Commits, ViewsInv, NEW H, NEW new, NEW gone,
           Written(ViewRows, IdField, H, new, ViewRows'),
           Ends(ViewRows, H, gone),
           ViewsAgree(Rest(ViewRows, gone, new), lake'),
           \A v \in DOMAIN lake'.views :
              v \in Nat /\ v < lake'.next /\ v \notin DOMAIN lake'.tables
    PROVE  ViewsInv'
  BY SnapshotsAfter, SeenAfter DEF ViewsInv

\* Views are read as before where neither their rows nor the views of the lake change.
LEMMA ViewsKept ==
    ASSUME Commits, ViewsInv, ViewRows' = ViewRows, DOMAIN lake'.views = DOMAIN lake.views,
           \A t \in DOMAIN lake'.tables : t \in DOMAIN lake.tables \/ t = lake.next
    PROVE  ViewsInv'
  <1>1. \A v \in DOMAIN lake'.views :
           v \in Nat /\ v < lake'.next /\ v \notin DOMAIN lake'.tables
    BY CommitFacts DEF ViewsInv
  <1>2. QED
    BY <1>1, SnapshotsAfter, SeenKept DEF ViewsInv, ViewsAgree

\* What has to be shown of the rows of columns that a commit writes.
LEMMA ColumnsWritten ==
    ASSUME Commits, ColumnsInv, NEW H, NEW new, NEW gone,
           Written(ColumnRows, ColumnFields, H, new, ColumnRows'),
           Ends(ColumnRows, H, gone),
           \A row, other \in new : Content(row) = Content(other) => row = other,
           \A row \in new : Content(row) \notin Seen(ColumnRows, now - 1) \ gone,
           \A row \in new :
              /\ row.table \in Nat /\ row.table < lake'.next /\ row.id \in Nat
              /\ row.parent # Null => row.parent \in Nat /\ row.parent < row.id,
           NEW n \in Nat, \A row \in new : row.id <= n,
           \A t \in DOMAIN lake'.tables : DOMAIN lake'.tables[t] = {"tags", "columns"},
           ColumnsAgree(Rest(ColumnRows, gone, new), lake')
    PROVE  ColumnsInv'
  <1>1. /\ Timed(ColumnRows', ColumnFields, now + 1)
        /\ \A s \in 0 .. now - 1 : Seen(ColumnRows', s) = Seen(ColumnRows, s)
        /\ Seen(ColumnRows', now) = Rest(ColumnRows, gone, new)
        /\ \A s \in 0 .. now - 1 : Distinct(ColumnRows, s) => Distinct(ColumnRows', s)
        /\ Distinct(ColumnRows, now - 1) => Distinct(ColumnRows', now)
    BY SnapshotsAfter, SeenAfter DEF ColumnsInv
  <1>2. \A row \in ColumnRows : /\ Closed(row, H).table = row.table /\ Closed(row, H).id = row.id
                                /\ Closed(row, H).parent = row.parent
    BY DEF Closed, ColumnsInv, Timed, ColumnFields
  <1>3. \A row \in ColumnRows' : row \in new \/ \E old \in ColumnRows : row = Closed(old, H)
    BY DEF Written
  <1>4. \A row \in ColumnRows' :
           /\ row.table \in Nat /\ row.table < lake'.next /\ row.id \in Nat
           /\ row.parent # Null => row.parent \in Nat /\ row.parent < row.id
    BY <1>2, <1>3, CommitFacts DEF ColumnsInv
  <1>5. \E m \in Nat : \A row \in ColumnRows' : row.id <= m
    <2>1. PICK m \in Nat : \A row \in ColumnRows : row.id <= m
      BY DEF ColumnsInv
    <2>2. QED
      BY <1>2, <1>3, <1>4, <2>1
  <1>6. QED
    BY <1>1, <1>4, <1>5, SnapshotsAfter DEF ColumnsInv

\* Columns are read as before where their rows stay and no table of the lake is another.
LEMMA ColumnsKept ==
    ASSUME Commits, ColumnsInv, ColumnRows' = ColumnRows,
           \A t \in DOMAIN lake'.tables :
              /\ t \in DOMAIN lake.tables /\ DOMAIN lake'.tables[t] = {"tags", "columns"}
              /\ IsColumns(lake'.tables[t].columns) /\ Len(lake'.tables[t].columns) >= 1
              /\ ContentOfColumns(t, lake'.tables[t].columns)
                    = ContentOfColumns(t, lake.tables[t].columns)
    PROVE  ColumnsInv'
  <1>1. \A row \in ColumnRows :
              /\ row.table \in Nat /\ row.table < lake'.next /\ row.id \in Nat
              /\ row.parent # Null => row.parent \in Nat /\ row.parent < row.id
    BY CommitFacts DEF ColumnsInv
  <1>2. QED
    BY <1>1, SnapshotsAfter, SeenKept DEF ColumnsInv, ColumnsAgree

\* What has to be shown of the rows of comments that a commit writes.
LEMMA TagsWritten ==
    ASSUME Commits, TagsInv, NEW H, NEW new, NEW gone,
           Written(TagRows, TagFields, H, new, TagRows'),
           Ends(TagRows, H, gone),
           \A row \in new : row.object \in Nat /\ row.object < lake'.next,
           TagsAgree(Rest(TagRows, gone, new), lake')
    PROVE  TagsInv'
  <1>1. \A row \in TagRows' : row.object \in Nat /\ row.object < lake'.next
    BY CommitFacts DEF Closed, TagsInv, Timed, TagFields, Written
  <1>2. QED
    BY <1>1, SnapshotsAfter, SeenAfter DEF TagsInv

\* Comments are read as before where their rows stay and no object has another comment.
LEMMA TagsKept ==
    ASSUME Commits, TagsInv, TagRows' = TagRows,
           \A t \in DOMAIN lake'.tables :
              \/ t \in DOMAIN lake.tables /\ lake'.tables[t].tags = lake.tables[t].tags
              \/ t = lake.next /\ lake'.tables[t].tags = {},
           \A v \in DOMAIN lake'.views :
              \/ v \in DOMAIN lake.views /\ lake'.views[v] = lake.views[v]
              \/ v = lake.next /\ lake'.views[v] = {}
    PROVE  TagsInv'
  <1>1. Timed(TagRows, TagFields, now + 1) /\ Seen(TagRows, now) = Seen(TagRows, now - 1)
    BY SnapshotsAfter, SeenKept DEF TagsInv
  <1>2. TagsOf(Seen(TagRows, now - 1), lake.next) = {}
    <2>1. \A x \in Seen(TagRows, now - 1) : x.object \in Nat /\ x.object < lake.next
      BY DEF Content, TagsInv, Timed, TagFields, Seen
    <2>2. QED
      BY <2>1, CommitFacts DEF TagsOf
  <1>3. TagsAgree(Seen(TagRows, now - 1), lake)
    BY SnapshotsAfter DEF TagsInv
  <1>4. TagsAgree(Seen(TagRows, now), lake')
    BY <1>1, <1>2, <1>3 DEF TagsAgree
  <1>5. QED
    BY <1>1, <1>4, SnapshotsAfter, CommitFacts DEF TagsInv

\* Every column that was is still told of by a row.
ColumnsStay ==
    \A col \in ColumnRows : \E row \in ColumnRows' : row.table = col.table /\ row.id = col.id

\* Rows of columns that end or are added leave every column a row.
LEMMA WrittenColumnsStay ==
    ASSUME ColumnsInv, NEW H, NEW new, Written(ColumnRows, ColumnFields, H, new, ColumnRows')
    PROVE  ColumnsStay
  <1>1. \A row \in ColumnRows : Closed(row, H).table = row.table /\ Closed(row, H).id = row.id
    BY DEF Closed, ColumnsInv, Timed, ColumnFields
  <1>2. QED
    BY <1>1 DEF Written, ColumnsStay

\* What has to be shown of the rows of comments on columns that a commit writes.
LEMMA ColumnTagsWritten ==
    ASSUME Commits, ColumnTagsInv, NEW H, NEW new, NEW gone,
           Written(ColumnTagRows, ColumnTagFields, H, new, ColumnTagRows'),
           Ends(ColumnTagRows, H, gone), ColumnsStay,
           \A row \in new : \E col \in ColumnRows : col.table = row.table /\ col.id = row.column,
           ColumnTagsAgree(Rest(ColumnTagRows, gone, new), lake')
    PROVE  ColumnTagsInv'
  <1>1. \A row \in ColumnTagRows' :
           \E col \in ColumnRows' : col.table = row.table /\ col.id = row.column
    BY DEF Closed, ColumnTagsInv, Timed, ColumnTagFields, Written, ColumnsStay
  <1>2. QED
    BY <1>1, SnapshotsAfter, SeenAfter DEF ColumnTagsInv

\* A column has the tags it had, or is new.
TagsStay(t, cols) ==
    \A i \in 1 .. Len(cols) :
       \/ /\ t \in DOMAIN lake.tables
          /\ \E j \in 1 .. Len(lake.tables[t].columns) :
                /\ lake.tables[t].columns[j].id = cols[i].id
                /\ lake.tables[t].columns[j].tags = cols[i].tags
       \/ /\ cols[i].tags = {}
          /\ ~ \E row \in ColumnRows : row.table = t /\ row.id = cols[i].id

\* Comments on columns are read as before where their rows stay and the columns keep them.
LEMMA ColumnTagsKept ==
    ASSUME Commits, ColumnTagsInv, ColumnTagRows' = ColumnTagRows, ColumnsStay,
           \A t \in DOMAIN lake'.tables : TagsStay(t, lake'.tables[t].columns)
    PROVE  ColumnTagsInv'
  <1> DEFINE seen == Seen(ColumnTagRows, now - 1)
  <1>1. ASSUME NEW t, NEW id, ~ \E row \in ColumnRows : row.table = t /\ row.id = id
        PROVE  ColumnTagsOf(seen, t, id) = {}
    <2>1. \A x \in seen : \E row \in ColumnRows : row.table = x.table /\ row.id = x.column
      BY DEF Content, ColumnTagsInv, Timed, ColumnTagFields, Seen
    <2>2. QED
      BY <1>1, <2>1 DEF ColumnTagsOf
  <1>2. ColumnTagsAgree(seen, lake)
    BY SnapshotsAfter DEF ColumnTagsInv
  <1> HIDE DEF seen
  <1>3. ColumnTagsAgree(seen, lake')
    <2> SUFFICES ASSUME NEW t \in DOMAIN lake'.tables,
                        NEW i \in 1 .. Len(lake'.tables[t].columns)
                 PROVE  lake'.tables[t].columns[i].tags
                           = ColumnTagsOf(seen, t, lake'.tables[t].columns[i].id)
      BY DEF ColumnTagsAgree
    <2> DEFINE c == lake'.tables[t].columns[i]
    <2>1. CASE \E j \in 1 .. Len(lake.tables[t].columns) :
                  /\ t \in DOMAIN lake.tables
                  /\ lake.tables[t].columns[j].id = c.id
                  /\ lake.tables[t].columns[j].tags = c.tags
      BY <1>2, <2>1 DEF ColumnTagsAgree
    <2>2. CASE c.tags = {} /\ ~ \E row \in ColumnRows : row.table = t /\ row.id = c.id
      BY <1>1, <2>2
    <2>3. QED
      BY <2>1, <2>2 DEF TagsStay
  <1>4. QED
    BY <1>3, SnapshotsAfter, SeenKept DEF ColumnsStay, ColumnTagsInv, seen

\* What is written of macros: M has the macro that is new, or none.
MacrosOf(M) ==
    /\ DOMAIN relation' = DOMAIN relation
    /\ M \subseteq {lake.next} /\ (M # {} => lake'.next = lake.next + 1)
    /\ MacroImpls' = MacroImpls \cup UNION {ImplsOf(m) : m \in M}
    /\ MacroParameters' = MacroParameters \cup UNION {ParametersOf(m) : m \in M}

\* What has to be shown of the rows of macros that a commit writes.
LEMMA MacrosWritten ==
    ASSUME Commits, MacrosInv, NEW H, NEW new, NEW gone, NEW M, MacrosOf(M),
           Written(MacroRows, IdField, H, new, MacroRows'),
           Ends(MacroRows, H, gone), \A row \in new : row.id \in M,
           MacrosAgree(Rest(MacroRows, gone, new), lake')
    PROVE  MacrosInv'
  <1>1. \A row \in MacroRows' : row.id \in M \/ \E old \in MacroRows : row.id = old.id
    BY DEF Closed, MacrosInv, Timed, IdField, Written
  <1>2. /\ lake.next \in Nat /\ lake'.next \in Nat /\ lake'.next >= lake.next
        /\ \A m \in M : m = lake.next /\ m < lake'.next
    BY CommitFacts DEF MacrosOf
  <1>3. /\ \A m : \A row \in ImplsOf(m) \cup ParametersOf(m) : row.macro = m
    BY DEF ImplsOf, ParametersOf
  <1>4. /\ \A row \in MacroImpls' : row \in MacroImpls \/ \E m \in M : row \in ImplsOf(m)
        /\ \A row \in MacroParameters' :
              row \in MacroParameters \/ \E m \in M : row \in ParametersOf(m)
        /\ \A m \in M : ImplsOf(m) \subseteq MacroImpls' /\ ParametersOf(m) \subseteq MacroParameters'
        /\ MacroImpls \subseteq MacroImpls' /\ MacroParameters \subseteq MacroParameters'
    BY DEF MacrosOf
  <1>5. \A row \in MacroImpls' \cup MacroParameters' : row.macro \in Nat /\ row.macro < lake'.next
    BY <1>2, <1>3, <1>4 DEF MacrosInv
  <1>6. ASSUME NEW macro \in MacroRows'
        PROVE  /\ {row \in MacroImpls' : row.macro = macro.id} = ImplsOf(macro.id)
               /\ {row \in MacroParameters' : row.macro = macro.id} = ParametersOf(macro.id)
    <2>1. CASE macro.id \in M
      BY <1>2, <1>3, <1>4, <2>1 DEF MacrosInv
    <2>2. CASE \E old \in MacroRows : macro.id = old.id
      <3>1. PICK old \in MacroRows : macro.id = old.id
        BY <2>2
      <3>2. QED
        BY <1>2, <1>3, <1>4, <3>1 DEF MacrosInv
    <2>3. QED
      BY <1>1, <2>1, <2>2
  <1>7. /\ format' = "0.3" => MacroTables \cap DOMAIN relation' = {}
        /\ format' = "1.0" => MacroTables \subseteq DOMAIN relation'
    BY DEF Commits, MacrosOf, MacrosInv
  <1>8. QED
    BY <1>1, <1>2, <1>5, <1>6, <1>7, SnapshotsAfter, SeenAfter DEF MacrosInv

\* Macros are read as before where neither their rows nor the macros of the lake change.
LEMMA MacrosKept ==
    ASSUME Commits, MacrosInv, DOMAIN relation' = DOMAIN relation,
           \A name \in MacroTables : Rows(relation', name) = Rows(relation, name),
           lake'.macros = lake.macros
    PROVE  MacrosInv'
  <1>1. MacroRows' = MacroRows /\ MacroImpls' = MacroImpls /\ MacroParameters' = MacroParameters
    BY DEF MacroTables, MacroRows, MacroImpls, MacroParameters
  <1>2. Timed(MacroRows, IdField, now + 1) /\ Seen(MacroRows, now) = Seen(MacroRows, now - 1)
    BY SnapshotsAfter, SeenKept DEF MacrosInv
  <1>3. MacrosAgree(Seen(MacroRows, now), lake')
    BY <1>2, SnapshotsAfter DEF MacrosInv, MacrosAgree
  <1>4. \A s \in Snapshots' : MacrosAgree(Seen(MacroRows, s), At(s)')
    BY <1>3, SnapshotsAfter DEF MacrosInv
  <1>5. /\ \A row \in MacroRows : row.id \in Nat /\ row.id < lake'.next
        /\ \A row \in MacroImpls \cup MacroParameters : row.macro \in Nat /\ row.macro < lake'.next
    BY CommitFacts DEF MacrosInv
  <1>6. QED
    BY <1>1, <1>2, <1>4, <1>5, SnapshotsAfter DEF MacrosInv, Commits

\* What has to be shown of the rows of data files that a commit writes.
LEMMA FileSizesWritten ==
    ASSUME Commits, FileSizesInv, NEW H, NEW new, NEW gone,
           Written(DataFiles, DataFileFields, H, new, DataFiles'),
           Ends(DataFiles, H, gone), \A row \in new : IsFiniteSet(row.rows) /\ row.size \in Nat,
           FileSizesAgree(Rest(DataFiles, gone, new), lake')
    PROVE  FileSizesInv'
  <1>1. \A row \in DataFiles' : IsFiniteSet(row.rows) /\ row.size \in Nat
    BY DEF Closed, FileSizesInv, Timed, DataFileFields, Written
  <1>2. QED
    BY <1>1, SnapshotsAfter, SeenAfter DEF FileSizesInv

\* Sizes of data files are read as before where their rows stay and the lake has the same.
LEMMA FileSizesKept ==
    ASSUME Commits, FileSizesInv, DataFiles' = DataFiles,
           DOMAIN lake'.files = DOMAIN lake.files,
           \A f \in DOMAIN lake.files :
              /\ lake'.files[f].table = lake.files[f].table
              /\ lake'.files[f].size = lake.files[f].size
    PROVE  FileSizesInv'
  BY SnapshotsAfter, SeenKept DEF FileSizesInv, FileSizesAgree

\* What has to be shown of the rows of delete files that a commit writes.
LEMMA DeleteSizesWritten ==
    ASSUME Commits, DeleteSizesInv, NEW H, NEW new, NEW gone,
           Written(DeleteFiles, DeleteFileFields, H, new, DeleteFiles'),
           Ends(DeleteFiles, H, gone), \A row \in new : IsFiniteSet(row.rows) /\ row.size \in Nat,
           DeleteSizesAgree(Rest(DeleteFiles, gone, new), lake')
    PROVE  DeleteSizesInv'
  <1>1. \A row \in DeleteFiles' : IsFiniteSet(row.rows) /\ row.size \in Nat
    BY DEF Closed, DeleteSizesInv, Timed, DeleteFileFields, Written
  <1>2. QED
    BY <1>1, SnapshotsAfter, SeenAfter DEF DeleteSizesInv

\* Sizes of delete files are read as before where their rows stay and the lake has the same.
LEMMA DeleteSizesKept ==
    ASSUME Commits, DeleteSizesInv, DeleteFiles' = DeleteFiles, lake'.deletes = lake.deletes,
           \A f \in DOMAIN lake.files :
              f \in DOMAIN lake'.files /\ lake'.files[f].table = lake.files[f].table
    PROVE  DeleteSizesInv'
  BY SnapshotsAfter, SeenKept DEF DeleteSizesInv, DeleteSizesAgree

\* Partition columns mean the same where their rows and the columns they stand for stay.
LEMMA PartitionsKept ==
    ASSUME Commits, PartitionInv, PartitionRows' = PartitionRows,
           \A t \in DOMAIN lake'.partitions :
              t \in DOMAIN lake.partitions /\ lake'.partitions[t] = lake.partitions[t],
           \A t \in DOMAIN lake'.tables :
              \/ t = lake.next
              \/ t \in DOMAIN lake.tables /\ (t \in DOMAIN lake.partitions
                                                 => t \in DOMAIN lake'.partitions),
           \A t \in DOMAIN lake'.partitions : \A i \in DOMAIN lake.partitions[t] : \A column :
              MeansColumn(t, i, column) => MeansColumn(t, i, column)'
    PROVE  PartitionInv'
  BY CommitFacts DEF PartitionInv, PartitionRowsOf

\* Nothing is written but these relations, and no field of the lake changes but these.
RowsSame(names) ==
    /\ DOMAIN relation' = DOMAIN relation
    /\ \A name \in DOMAIN relation \ names : relation'[name] = relation[name]
LakeSame(fields) == \A field \in LakeFields \ fields : lake'[field] = lake[field]

\* What is read of the relations that are not written, about what does not change.
LEMMA PartsKept ==
    ASSUME Commits, RowsInv, NEW names, RowsSame(names), NEW fields, LakeSame(fields)
    PROVE  /\ ReadTables \subseteq DOMAIN relation'
           /\ "ducklake_table" \notin names /\ "tables" \notin fields => TablesInv'
           /\ "ducklake_view" \notin names /\ {"tables", "views"} \cap fields = {} => ViewsInv'
           /\ "ducklake_column" \notin names /\ "tables" \notin fields => ColumnsInv'
           /\ "ducklake_tag" \notin names /\ {"tables", "views"} \cap fields = {} => TagsInv'
           /\ {"ducklake_column_tag", "ducklake_column"} \cap names = {} /\ "tables" \notin fields
                 => ColumnTagsInv'
           /\ MacroTables \cap names = {} /\ "macros" \notin fields => MacrosInv'
           /\ "ducklake_data_file" \notin names /\ "files" \notin fields => FileSizesInv'
           /\ "ducklake_delete_file" \notin names /\ {"files", "deletes"} \cap fields = {}
                 => DeleteSizesInv'
           /\ "ducklake_partition_column" \notin names /\ {"tables", "partitions"} \cap fields = {}
                 => PartitionInv'
  <1>1. /\ TablesInv /\ ViewsInv /\ ColumnsInv /\ TagsInv /\ ColumnTagsInv /\ MacrosInv
        /\ FileSizesInv /\ DeleteSizesInv /\ PartitionInv
        /\ ReadTables \subseteq DOMAIN relation /\ FileTables \subseteq DOMAIN relation
    BY FileShapes DEF RowsInv, Commits
  <1>2. /\ DOMAIN relation' = DOMAIN relation
        /\ \A name \in ReadTables \cup FileTables : name \notin names => relation'[name] = relation[name]
    BY <1>1 DEF RowsSame
  <1>3. \A field \in LakeFields : field \notin fields => lake'[field] = lake[field]
    BY DEF LakeSame
  <1>4. "tables" \notin fields => lake'.tables = lake.tables
    BY <1>3 DEF LakeFields
  <1>5. "views" \notin fields => lake'.views = lake.views
    BY <1>3 DEF LakeFields
  <1>6. "ducklake_table" \notin names /\ "tables" \notin fields => TablesInv'
    BY <1>1, <1>2, <1>4, TablesKept DEF ReadTables, TableRows
  <1>7. "ducklake_view" \notin names /\ {"tables", "views"} \cap fields = {} => ViewsInv'
    BY <1>1, <1>2, <1>4, <1>5, ViewsKept DEF ReadTables, ViewRows
  <1>8. "ducklake_column" \notin names /\ "tables" \notin fields => ColumnsInv'
    BY <1>1, <1>2, <1>4, ColumnsKept, SnapshotsAfter DEF ColumnsInv, ColumnsAgree, ReadTables,
       ColumnRows
  <1>9. "ducklake_tag" \notin names /\ {"tables", "views"} \cap fields = {} => TagsInv'
    BY <1>1, <1>2, <1>4, <1>5, TagsKept DEF ReadTables, TagRows
  <1>10. {"ducklake_column_tag", "ducklake_column"} \cap names = {} /\ "tables" \notin fields
            => ColumnTagsInv'
    BY <1>1, <1>2, <1>4, ColumnTagsKept DEF ReadTables, ColumnRows, ColumnsStay, TagsStay,
       ColumnTagRows
  <1>11. MacroTables \cap names = {} /\ "macros" \notin fields => MacrosInv'
    BY <1>1, <1>2, <1>3, MacrosKept DEF RowsSame, Rows, TableExists, LakeFields
  <1>12. "ducklake_data_file" \notin names /\ "files" \notin fields => FileSizesInv'
    BY <1>1, <1>2, <1>3, FileSizesKept DEF LakeFields, FileTables, DataFiles
  <1>13. "ducklake_delete_file" \notin names /\ {"files", "deletes"} \cap fields = {}
            => DeleteSizesInv'
    BY <1>1, <1>2, <1>3, DeleteSizesKept DEF LakeFields, FileTables, DeleteFiles
  <1>14. "ducklake_partition_column" \notin names /\ {"tables", "partitions"} \cap fields = {}
            => PartitionInv'
    BY <1>1, <1>2, <1>3, PartitionsKept DEF LakeFields, MeansColumn, Means, Commits, ReadTables,
       PartitionRows
  <1>15. QED
    BY <1>1, <1>2, <1>6, <1>7, <1>8, <1>9, <1>10, <1>11, <1>12, <1>13, <1>14

\* The parts of the invariant make it whole.
LEMMA RInvFromParts ==
    ASSUME Commits, RInv, ReadTables \subseteq DOMAIN relation',
           TablesInv', ViewsInv', ColumnsInv', TagsInv', ColumnTagsInv', MacrosInv',
           FileSizesInv', DeleteSizesInv', PartitionInv'
    PROVE  RInv'
  BY DEF Commits, RInv, RowsInv

\* The lake is that of the last snapshot.
LEMMA LastSnapshot ==
    ASSUME LakeInv
    PROVE  now \in Nat /\ 0 < now /\ now - 1 \in Snapshots /\ lake = At(now - 1)
  BY DEF LakeInv, now, lake, Last, Snapshots, At

\* What is known of what is read in the last snapshot.
LEMMA ReadFacts ==
    ASSUME IInv, RInv, format # "none"
    PROVE  /\ RowsInv /\ ReadTables \subseteq DOMAIN relation
           /\ TablesInv /\ ViewsInv /\ ColumnsInv /\ TagsInv /\ ColumnTagsInv /\ MacrosInv
           /\ FileSizesInv /\ DeleteSizesInv /\ PartitionInv
           /\ TablesAgree(Seen(TableRows, now - 1), lake)
           /\ ViewsAgree(Seen(ViewRows, now - 1), lake)
           /\ ColumnsAgree(Seen(ColumnRows, now - 1), lake)
           /\ Distinct(ColumnRows, now - 1)
           /\ TagsAgree(Seen(TagRows, now - 1), lake)
           /\ ColumnTagsAgree(Seen(ColumnTagRows, now - 1), lake)
           /\ MacrosAgree(Seen(MacroRows, now - 1), lake)
           /\ FileSizesAgree(Seen(DataFiles, now - 1), lake)
           /\ DeleteSizesAgree(Seen(DeleteFiles, now - 1), lake)
  <1>1. /\ RowsInv /\ ReadTables \subseteq DOMAIN relation
        /\ TablesInv /\ ViewsInv /\ ColumnsInv /\ TagsInv /\ ColumnTagsInv /\ MacrosInv
        /\ FileSizesInv /\ DeleteSizesInv /\ PartitionInv
    BY DEF RInv, RowsInv
  <1>2. now - 1 \in Snapshots /\ lake = At(now - 1)
    BY LastSnapshot DEF IInv
  <1>3. QED
    BY <1>1, <1>2
       DEF TablesInv, ViewsInv, ColumnsInv, TagsInv, ColumnTagsInv, MacrosInv, FileSizesInv,
           DeleteSizesInv

\* What is visible in the last snapshot is what has not ended.
LEMMA SeenLast ==
    ASSUME now \in Nat, 0 < now, NEW rows, NEW fields, Timed(rows, fields, now)
    PROVE  /\ \A row \in rows : Visible(row, now - 1) <=> row.end = Null
           /\ \A x : x \in Seen(rows, now - 1) <=> \E row \in rows : row.end = Null /\ x = Content(row)
  BY NullAssumption DEF Timed, Visible, Seen

-----------------------------------------------------------------------------
(* Comments, views and macros                                              *)

\* A row with an id, as it is written and as it is read.
LEMMA NewId ==
    ASSUME NEW v
    PROVE  /\ Content(New([id |-> v])) = [id |-> v]
           /\ DOMAIN New([id |-> v]) = IdField \cup {"begin", "end"}
           /\ New([id |-> v]).begin = now /\ New([id |-> v]).end = Null
           /\ New([id |-> v]).id = v
  <1> DEFINE row == [id |-> v]
  <1> HIDE DEF row
  <1>1. QED
    BY ContentOfNew DEF IdField, row

\* A comment as it is written.
Comment(o) == New([object |-> o, key |-> "comment", value |-> now])

\* The tags of an object end, and a comment may take their place.
TagsReplaced(o, new) ==
    /\ TagRows' = {Closed(row, {tag \in TagRows : tag.object = o}) : row \in TagRows} \cup new
    /\ new = {} \/ new = {Comment(o)}
    /\ \A t \in DOMAIN lake'.tables :
          \/ t # o /\ t \in DOMAIN lake.tables /\ lake'.tables[t].tags = lake.tables[t].tags
          \/ t = o /\ new # {} /\ lake'.tables[t].tags = {<<"comment", now>>}
    /\ \A v \in DOMAIN lake'.views :
          \/ v # o /\ v \in DOMAIN lake.views /\ lake'.views[v] = lake.views[v]
          \/ v = o /\ new # {} /\ lake'.views[v] = {<<"comment", now>>}

\* Such a commit keeps what is read, of comments and of everything else.
LEMMA TagsReplacedStep ==
    ASSUME Commits, RInv, NEW o \in Nat, o < lake.next, NEW new, TagsReplaced(o, new)
    PROVE  TagsInv'
  <1> DEFINE H == {row \in TagRows : row.object = o}
             gone == {x \in Seen(TagRows, now - 1) : x.object = o}
             rest == Rest(TagRows, gone, new)
  <1>1. /\ now \in Nat /\ 0 < now /\ TagsInv /\ Timed(TagRows, TagFields, now)
        /\ lake.next \in Nat /\ lake'.next \in Nat /\ lake'.next >= lake.next
        /\ TagsAgree(Seen(TagRows, now - 1), lake)
    BY SnapshotsAfter, CommitFacts, ReadFacts DEF TagsInv, Commits
  <1>2. Ends(TagRows, H, gone)
    BY <1>1, SeenLast DEF Content, Timed, TagFields, Ends
  <1>3. /\ Content(Comment(o)) = [object |-> o, key |-> "comment", value |-> now]
        /\ DOMAIN Comment(o) = TagFields \cup {"begin", "end"}
        /\ Comment(o).begin = now /\ Comment(o).end = Null /\ Comment(o).object = o
    <2> DEFINE row == [object |-> o, key |-> "comment", value |-> now]
    <2>1. /\ "begin" \notin DOMAIN row /\ "end" \notin DOMAIN row /\ DOMAIN row = TagFields
          /\ row = [field \in DOMAIN row |-> row[field]] /\ row.object = o
      BY DEF TagFields
    <2> HIDE DEF row
    <2>2. QED
      BY <2>1, ContentOfNew DEF Comment, row, TagFields
  <1>4. Written(TagRows, TagFields, H, new, TagRows')
    BY <1>3 DEF Written, TagsReplaced
  <1>5. \A row \in new : row.object \in Nat /\ row.object < lake'.next
    BY <1>1, <1>3 DEF TagsReplaced
  <1>6. \A x : x \in rest <=> \/ x \in Seen(TagRows, now - 1) /\ x.object # o
                              \/ new # {} /\ x = Content(Comment(o))
    BY DEF Rest, TagsReplaced
  <1> HIDE DEF rest, gone, H
  <1>7. ASSUME NEW p, p # o
        PROVE  TagsOf(rest, p) = TagsOf(Seen(TagRows, now - 1), p)
    BY <1>3, <1>6, <1>7 DEF TagsOf
  <1>8. TagsAgree(rest, lake')
    BY <1>1, <1>3, <1>6, <1>7 DEF TagsOf, TagsAgree, TagsReplaced
  <1>9. QED
    BY <1>1, <1>2, <1>4, <1>5, <1>8, TagsWritten DEF rest

\* Comments on a table and on a view.
LEMMA CommentOnTableReads ==
    ASSUME IInv, FInv, RInv, format # "none", NEW t \in DOMAIN lake.tables, CommentOnTable(t)
    PROVE  RInv'
  <1> DEFINE tags == {Closed(row, {tag \in TagRows : tag.object = t}) : row \in TagRows}
                     \cup {Comment(t)}
             db == [relation EXCEPT !.ducklake_tag = tags]
             after == [lake EXCEPT !.tables[t].tags = {<<"comment", now>>}]
  <1>1. Commit(db, after)
    BY DEF CommentOnTable, Ended, TagRows, Closed, Comment
  <1> HIDE DEF tags
  <1>2. /\ DOMAIN lake = LakeFields /\ lake.next \in Nat /\ FileTables \subseteq DOMAIN relation
        /\ ReadTables \subseteq DOMAIN relation
        /\ t \in Nat /\ t < lake.next
        /\ \A u \in DOMAIN lake.tables : DOMAIN lake.tables[u] = {"tags", "columns"}
    BY FileShapes DEF IInv, LakeInv, RInv, RowsInv, ColumnsInv
  <1>3. /\ FileTables \subseteq DOMAIN db /\ DOMAIN db = DOMAIN relation
        /\ db.ducklake_tag = tags
        /\ \A name \in DOMAIN relation \ {"ducklake_tag"} : db[name] = relation[name]
    BY <1>2 DEF FileTables, ReadTables
  <1>4. /\ after.next = lake.next
        /\ \A field \in LakeFields \ {"tables"} : after[field] = lake[field]
        /\ after.views = lake.views
        /\ DOMAIN after.tables = DOMAIN lake.tables
        /\ \A u \in DOMAIN lake.tables :
              /\ DOMAIN after.tables[u] = {"tags", "columns"}
              /\ after.tables[u].columns = lake.tables[u].columns
              /\ after.tables[u].tags = IF u = t THEN {<<"comment", now>>} ELSE lake.tables[u].tags
    BY <1>2 DEF LakeFields
  <1> HIDE DEF db, after
  <1>5. Commits /\ lake' = after /\ relation' = db
    BY <1>1, <1>2, <1>3, <1>4, SnapshotCommits
  <1>6. RowsSame({"ducklake_tag"}) /\ LakeSame({"tables"}) /\ TagRows' = tags
    BY <1>3, <1>4, <1>5 DEF RowsSame, LakeSame, TagRows
  <1>7. /\ RowsInv /\ TablesInv /\ ViewsInv /\ ColumnsInv /\ ColumnTagsInv /\ PartitionInv
        /\ ColumnsAgree(Seen(ColumnRows, now - 1), lake)
    BY <1>1, ReadFacts
  <1>8. TablesInv'
    BY <1>2, <1>3, <1>4, <1>5, <1>7, TablesKept DEF ReadTables, TableRows
  <1>9. ViewsInv'
    BY <1>2, <1>3, <1>4, <1>5, <1>7, ViewsKept DEF ReadTables, ViewRows
  <1>10. ColumnRows' = ColumnRows /\ ColumnTagRows' = ColumnTagRows /\ PartitionRows' = PartitionRows
    BY <1>2, <1>3, <1>5 DEF ReadTables, ColumnRows, ColumnTagRows, PartitionRows
  <1>11. ColumnsInv'
    BY <1>4, <1>5, <1>7, <1>10, ColumnsKept DEF ColumnsAgree
  <1>12. ColumnTagsInv'
    BY <1>4, <1>5, <1>7, <1>10, ColumnTagsKept DEF ColumnsStay, TagsStay
  <1>13. PartitionInv'
    <2>1. lake'.partitions = lake.partitions /\ format' = format
      BY <1>4, <1>5 DEF LakeFields, Commits
    <2>2. QED
      BY <1>4, <1>5, <1>7, <1>10, <2>1, PartitionsKept, CommitFacts DEF KeysInv, MeansColumn, Means
  <1>14. TagsInv'
    <2>1. TagsReplaced(t, {Comment(t)})
      BY <1>4, <1>5, <1>6, <1>7 DEF ViewsInv, TagsReplaced, tags
    <2>2. QED
      BY <1>2, <1>5, <2>1, TagsReplacedStep
  <1>15. QED
    BY <1>5, <1>6, <1>7, <1>8, <1>9, <1>11, <1>12, <1>13, <1>14, PartsKept, RInvFromParts
       DEF MacroTables

\* COMMENT ON VIEW.
LEMMA CommentOnViewReads ==
    ASSUME IInv, FInv, RInv, format # "none", NEW v \in DOMAIN lake.views, CommentOnView(v)
    PROVE  RInv'
  <1> DEFINE tags == {Closed(row, {tag \in TagRows : tag.object = v}) : row \in TagRows}
                     \cup {Comment(v)}
             db == [relation EXCEPT !.ducklake_tag = tags]
             after == [lake EXCEPT !.views[v] = {<<"comment", now>>}]
  <1>1. Commit(db, after)
    BY DEF CommentOnView, Ended, TagRows, Closed, Comment
  <1> HIDE DEF tags
  <1>2. /\ DOMAIN lake = LakeFields /\ lake.next \in Nat /\ FileTables \subseteq DOMAIN relation
        /\ ReadTables \subseteq DOMAIN relation
        /\ v \in Nat /\ v < lake.next /\ v \notin DOMAIN lake.tables
    BY FileShapes DEF RInv, RowsInv, ViewsInv
  <1>3. /\ FileTables \subseteq DOMAIN db /\ DOMAIN db = DOMAIN relation
        /\ db.ducklake_tag = tags
        /\ \A name \in DOMAIN relation \ {"ducklake_tag"} : db[name] = relation[name]
    BY <1>2 DEF FileTables, ReadTables
  <1>4. /\ after.next = lake.next
        /\ \A field \in LakeFields \ {"views"} : after[field] = lake[field]
        /\ after.tables = lake.tables
        /\ DOMAIN after.views = DOMAIN lake.views
        /\ \A u \in DOMAIN lake.views :
              after.views[u] = IF u = v THEN {<<"comment", now>>} ELSE lake.views[u]
    BY <1>2 DEF LakeFields
  <1> HIDE DEF db, after
  <1>5. Commits /\ lake' = after /\ relation' = db
    BY <1>1, <1>2, <1>3, <1>4, SnapshotCommits
  <1>6. RowsSame({"ducklake_tag"}) /\ LakeSame({"views"}) /\ TagRows' = tags
    BY <1>3, <1>4, <1>5 DEF RowsSame, LakeSame, TagRows
  <1>7. RowsInv /\ ViewsInv
    BY <1>1, ReadFacts
  <1>8. ViewsInv'
    BY <1>2, <1>3, <1>4, <1>5, <1>7, ViewsKept DEF ReadTables, ViewRows
  <1>9. TagsInv'
    <2>1. TagsReplaced(v, {Comment(v)})
      BY <1>2, <1>4, <1>5, <1>6 DEF TagsReplaced, tags
    <2>2. QED
      BY <1>2, <1>5, <2>1, TagsReplacedStep
  <1>10. QED
    BY <1>5, <1>6, <1>7, <1>8, <1>9, PartsKept, RInvFromParts DEF MacroTables

\* A view is created, and dropped with its comment.
LEMMA CreateViewReads ==
    ASSUME IInv, FInv, RInv, CreateView
    PROVE  RInv'
  <1> DEFINE v == lake.next
             new == {New([id |-> v])}
             db == [relation EXCEPT !.ducklake_view = ViewRows \cup new]
             after == [lake EXCEPT !.next = v + 1, !.views = Put(@, v, {})]
  <1>1. format # "none" /\ Commit(db, after)
    BY DEF CreateView, ViewRows
  <1>2. /\ DOMAIN lake = LakeFields /\ lake.next \in Nat /\ FileTables \subseteq DOMAIN relation
        /\ ReadTables \subseteq DOMAIN relation
        /\ \A t \in DOMAIN lake.tables : t < lake.next
    BY <1>1, FileShapes DEF IInv, LakeInv, RInv, RowsInv
  <1>3. /\ FileTables \subseteq DOMAIN db /\ DOMAIN db = DOMAIN relation
        /\ db.ducklake_view = ViewRows \cup new
        /\ \A name \in DOMAIN relation \ {"ducklake_view"} : db[name] = relation[name]
    BY <1>2 DEF FileTables, ReadTables
  <1>4. /\ after.next = lake.next + 1
        /\ \A field \in LakeFields \ {"next", "views"} : after[field] = lake[field]
        /\ after.tables = lake.tables
        /\ DOMAIN after.views = DOMAIN lake.views \cup {v}
        /\ \A u \in DOMAIN after.views : after.views[u] = IF u = v THEN {} ELSE lake.views[u]
    BY <1>2 DEF LakeFields, Put
  <1> HIDE DEF db, after
  <1>5. Commits /\ lake' = after /\ relation' = db
    BY <1>1, <1>2, <1>3, <1>4, SnapshotCommits
  <1>6. RowsSame({"ducklake_view"}) /\ LakeSame({"next", "views"})
    BY <1>3, <1>4, <1>5 DEF RowsSame, LakeSame
  <1>7. /\ RowsInv /\ ViewsInv /\ TagsInv /\ now \in Nat /\ 0 < now
        /\ ViewsAgree(Seen(ViewRows, now - 1), lake)
    BY <1>1, <1>5, ReadFacts, SnapshotsAfter
  <1>8. /\ Content(New([id |-> v])) = [id |-> v]
        /\ DOMAIN New([id |-> v]) = IdField \cup {"begin", "end"}
        /\ New([id |-> v]).begin = now /\ New([id |-> v]).end = Null
        /\ New([id |-> v]).id = v
    BY NewId
  <1>9. ViewsInv'
    <2>1. Written(ViewRows, IdField, {}, new, ViewRows')
      BY <1>3, <1>5, <1>8 DEF ViewRows, Closed, Written
    <2>2. ViewsAgree(Rest(ViewRows, {}, new), lake')
      BY <1>4, <1>5, <1>7, <1>8 DEF Rest, ViewsAgree
    <2> HIDE DEF new
    <2>3. QED
      BY <1>2, <1>4, <1>5, <1>7, <2>1, <2>2, ViewsWritten DEF ViewsInv, Ends
  <1>10. TagsInv'
    BY <1>2, <1>3, <1>4, <1>5, <1>7, TagsKept DEF ReadTables, TagRows
  <1>11. QED
    BY <1>5, <1>6, <1>7, <1>9, <1>10, PartsKept, RInvFromParts DEF MacroTables

\* DROP VIEW, which ends the comments on it too.
LEMMA DropViewReads ==
    ASSUME IInv, FInv, RInv, format # "none", NEW v \in DOMAIN lake.views, DropView(v)
    PROVE  RInv'
  <1> DEFINE H == {row \in ViewRows : row.id = v}
             views == {Closed(row, H) : row \in ViewRows}
             tags == {Closed(row, {tag \in TagRows : tag.object = v}) : row \in TagRows}
             db == [relation EXCEPT !.ducklake_view = views, !.ducklake_tag = tags]
             after == [lake EXCEPT !.views = Without(@, {v})]
  <1>1. Commit(db, after)
    BY DEF DropView, Ended, ViewRows, TagRows, Closed
  <1> HIDE DEF tags, views
  <1>2. /\ DOMAIN lake = LakeFields /\ lake.next \in Nat /\ FileTables \subseteq DOMAIN relation
        /\ ReadTables \subseteq DOMAIN relation
        /\ v \in Nat /\ v < lake.next /\ v \notin DOMAIN lake.tables
    BY FileShapes DEF RInv, RowsInv, ViewsInv
  <1>3. /\ FileTables \subseteq DOMAIN db /\ DOMAIN db = DOMAIN relation
        /\ db.ducklake_view = views /\ db.ducklake_tag = tags
        /\ \A name \in DOMAIN relation \ {"ducklake_view", "ducklake_tag"} : db[name] = relation[name]
    BY <1>2 DEF FileTables, ReadTables
  <1>4. /\ after.next = lake.next
        /\ \A field \in LakeFields \ {"views"} : after[field] = lake[field]
        /\ after.tables = lake.tables
        /\ DOMAIN after.views = DOMAIN lake.views \ {v}
        /\ \A u \in DOMAIN after.views : after.views[u] = lake.views[u]
    BY <1>2 DEF LakeFields, Without
  <1> HIDE DEF db, after
  <1>5. Commits /\ lake' = after /\ relation' = db
    BY <1>1, <1>2, <1>3, <1>4, SnapshotCommits
  <1>6. /\ RowsSame({"ducklake_view", "ducklake_tag"}) /\ LakeSame({"views"})
        /\ ViewRows' = views /\ TagRows' = tags
    BY <1>3, <1>4, <1>5 DEF RowsSame, LakeSame, ViewRows, TagRows
  <1>7. /\ RowsInv /\ ViewsInv /\ now \in Nat /\ 0 < now
        /\ ViewsAgree(Seen(ViewRows, now - 1), lake)
    BY <1>1, <1>5, ReadFacts, SnapshotsAfter
  <1>8. ViewsInv'
    <2> DEFINE gone == {x \in Seen(ViewRows, now - 1) : x.id = v}
    <2>1. Ends(ViewRows, H, gone)
      BY <1>7, SeenLast DEF Content, ViewsInv, Timed, IdField, Ends
    <2>2. ViewsAgree(Rest(ViewRows, gone, {}), lake')
      BY <1>4, <1>5, <1>7 DEF Rest, ViewsAgree
    <2>3. \A u \in DOMAIN lake'.views : u \in Nat /\ u < lake'.next /\ u \notin DOMAIN lake'.tables
      BY <1>2, <1>4, <1>5, <1>7 DEF ViewsInv
    <2> HIDE DEF gone, H
    <2>4. QED
      BY <1>5, <1>6, <1>7, <2>1, <2>2, <2>3, ViewsWritten DEF Written, views
  <1>9. TagsInv'
    <2>1. TagsReplaced(v, {})
      BY <1>2, <1>4, <1>5, <1>6 DEF TagsReplaced, tags
    <2>2. QED
      BY <1>2, <1>5, <2>1, TagsReplacedStep
  <1>10. QED
    BY <1>5, <1>6, <1>7, <1>8, <1>9, PartsKept, RInvFromParts DEF MacroTables

\* A macro is created with its implementations, and dropped without them.
LEMMA CreateMacroReads ==
    ASSUME IInv, FInv, RInv, CreateMacro
    PROVE  RInv'
  <1> DEFINE m == lake.next
             new == {New([id |-> m])}
             impls == MacroImpls \cup ImplsOf(m)
             parameters == MacroParameters \cup ParametersOf(m)
             db == [relation EXCEPT !.ducklake_macro = MacroRows \cup new,
                                    !.ducklake_macro_impl = impls,
                                    !.ducklake_macro_parameters = parameters]
             after == [lake EXCEPT !.next = m + 1, !.macros = Put(@, m, TwoImplementations)]
  <1>1. format = "1.0" /\ MacroTables \subseteq DOMAIN relation
    BY DEF CreateMacro, RInv, RowsInv, MacrosInv
  <1>2. /\ MacroRows = relation.ducklake_macro /\ MacroImpls = relation.ducklake_macro_impl
        /\ MacroParameters = relation.ducklake_macro_parameters
    BY <1>1 DEF MacroTables, MacroRows, MacroImpls, MacroParameters, Rows, TableExists
  <1>3. Commit(db, after)
    BY <1>2 DEF CreateMacro, ImplsOf, ParametersOf, TwoImplementations
  <1> HIDE DEF impls, parameters
  <1>4. /\ DOMAIN lake = LakeFields /\ lake.next \in Nat /\ FileTables \subseteq DOMAIN relation
        /\ ReadTables \subseteq DOMAIN relation
        /\ \A t \in DOMAIN lake.tables : t < lake.next
    BY <1>1, FileShapes DEF IInv, LakeInv, RInv, RowsInv
  <1>5. /\ FileTables \subseteq DOMAIN db /\ DOMAIN db = DOMAIN relation
        /\ db.ducklake_macro = MacroRows \cup new
        /\ db.ducklake_macro_impl = impls /\ db.ducklake_macro_parameters = parameters
        /\ \A name \in DOMAIN relation \ MacroTables : db[name] = relation[name]
    BY <1>1, <1>4 DEF FileTables, MacroTables
  <1>6. /\ after.next = lake.next + 1
        /\ \A field \in LakeFields \ {"next", "macros"} : after[field] = lake[field]
        /\ DOMAIN after.macros = DOMAIN lake.macros \cup {m}
        /\ \A u \in DOMAIN after.macros :
              after.macros[u] = IF u = m THEN TwoImplementations ELSE lake.macros[u]
    BY <1>4 DEF LakeFields, Put
  <1> HIDE DEF db, after
  <1>7. Commits /\ lake' = after /\ relation' = db
    BY <1>1, <1>3, <1>4, <1>5, <1>6, SnapshotCommits
  <1>8. RowsSame(MacroTables) /\ LakeSame({"next", "macros"})
    BY <1>5, <1>6, <1>7 DEF RowsSame, LakeSame
  <1>9. /\ RowsInv /\ ViewsInv /\ TagsInv /\ MacrosInv /\ now \in Nat /\ 0 < now
        /\ MacrosAgree(Seen(MacroRows, now - 1), lake)
    BY <1>1, <1>7, ReadFacts, SnapshotsAfter
  <1>10. MacrosInv'
    <2>1. /\ MacroRows' = MacroRows \cup new /\ MacroImpls' = impls /\ MacroParameters' = parameters
      BY <1>1, <1>5, <1>7 DEF MacroTables, MacroRows, MacroImpls, MacroParameters, Rows, TableExists
    <2>2. Written(MacroRows, IdField, {}, new, MacroRows')
      BY <2>1, NewId DEF Closed, Written
    <2>3. MacrosAgree(Rest(MacroRows, {}, new), lake')
      BY <1>6, <1>7, <1>9, NewId DEF Rest, MacrosAgree
    <2>4. Ends(MacroRows, {}, {}) /\ \A row \in new : row.id \in {m}
      BY NewId DEF Ends
    <2>5. MacrosOf({m})
      BY <1>5, <1>6, <1>7, <2>1 DEF MacrosOf, impls, parameters
    <2> HIDE DEF new
    <2>6. QED
      BY <1>7, <1>9, <2>2, <2>3, <2>4, <2>5, MacrosWritten
  <1>11. QED
    BY <1>7, <1>8, <1>9, <1>10, PartsKept, RInvFromParts DEF MacroTables

\* DROP MACRO, which leaves the rows of its implementations.
LEMMA DropMacroReads ==
    ASSUME IInv, FInv, RInv, format # "none", NEW m \in DOMAIN lake.macros, DropMacro(m)
    PROVE  RInv'
  <1> DEFINE H == {row \in MacroRows : row.id = m}
             macros == {Closed(row, H) : row \in MacroRows}
             db == [relation EXCEPT !.ducklake_macro = macros]
             after == [lake EXCEPT !.macros = Without(@, {m})]
  <1>1. "ducklake_macro" \in DOMAIN relation /\ MacroRows = relation.ducklake_macro
    BY ReadFacts DEF RInv, MacrosAgree, Seen, MacroRows, Rows, TableExists
  <1>2. Commit(db, after)
    BY <1>1 DEF DropMacro, Ended, Closed
  <1> HIDE DEF macros
  <1>3. /\ DOMAIN lake = LakeFields /\ lake.next \in Nat /\ FileTables \subseteq DOMAIN relation
        /\ ReadTables \subseteq DOMAIN relation
    BY FileShapes DEF RInv, RowsInv
  <1>4. /\ FileTables \subseteq DOMAIN db /\ DOMAIN db = DOMAIN relation
        /\ db.ducklake_macro = macros
        /\ \A name \in DOMAIN relation \ {"ducklake_macro"} : db[name] = relation[name]
    BY <1>1, <1>3 DEF FileTables
  <1>5. /\ after.next = lake.next
        /\ \A field \in LakeFields \ {"macros"} : after[field] = lake[field]
        /\ DOMAIN after.macros = DOMAIN lake.macros \ {m}
        /\ \A u \in DOMAIN after.macros : after.macros[u] = lake.macros[u]
    BY <1>3 DEF LakeFields, Without
  <1> HIDE DEF db, after
  <1>6. Commits /\ lake' = after /\ relation' = db
    BY <1>2, <1>3, <1>4, <1>5, SnapshotCommits
  <1>7. RowsSame({"ducklake_macro"}) /\ LakeSame({"macros"})
    BY <1>4, <1>5, <1>6 DEF RowsSame, LakeSame
  <1>8. /\ RowsInv /\ MacrosInv /\ now \in Nat /\ 0 < now
        /\ MacrosAgree(Seen(MacroRows, now - 1), lake)
    BY <1>6, ReadFacts, SnapshotsAfter
  <1>9. MacrosInv'
    <2> DEFINE gone == {x \in Seen(MacroRows, now - 1) : x.id = m}
    <2>1. /\ MacroRows' = macros /\ MacroImpls' = MacroImpls /\ MacroParameters' = MacroParameters
      BY <1>1, <1>4, <1>6 DEF MacroRows, MacroImpls, MacroParameters, Rows, TableExists
    <2>2. \A row \in MacroRows : Content(row).id = row.id
      BY <1>8 DEF Content, MacrosInv, Timed, IdField
    <2>3. Ends(MacroRows, H, gone)
      BY <1>8, <2>2, SeenLast DEF Ends, MacrosInv
    <2>4. MacrosAgree(Rest(MacroRows, gone, {}), lake')
      BY <1>5, <1>6, <1>8 DEF Rest, MacrosAgree
    <2> HIDE DEF gone, H
    <2>5. QED
      BY <1>4, <1>6, <1>8, <2>1, <2>3, <2>4, MacrosWritten DEF MacrosOf, Written, macros
  <1>10. QED
    BY <1>6, <1>7, <1>8, <1>9, PartsKept, RInvFromParts DEF MacroTables

-----------------------------------------------------------------------------
(* Files                                                                   *)

\* A file that is written is read with its size.
LEMMA FileWrittenReads ==
    ASSUME Commits, RInv, NEW t, NEW rows, IsFiniteSet(rows),
           DataFiles' = DataFiles \cup {DataFile(t, rows)}, DeleteFiles' = DeleteFiles,
           lake'.files = WithFile(NextFile, t, rows), lake'.deletes = lake.deletes
    PROVE  FileSizesInv' /\ DeleteSizesInv'
  <1> DEFINE new == {DataFile(t, rows)}
  <1>1. /\ now \in Nat /\ 0 < now /\ FileRowsInv
        /\ FileSizesInv /\ FileSizesAgree(Seen(DataFiles, now - 1), lake) /\ DeleteSizesInv
    BY SnapshotsAfter, CommitFacts, ReadFacts DEF Commits
  <1>2. /\ Content(DataFile(t, rows))
              = [id |-> NextFile, table |-> t, size |-> 1 + Cardinality(rows), rows |-> rows]
        /\ DOMAIN DataFile(t, rows) = DataFileFields \cup {"begin", "end"}
        /\ DataFile(t, rows).begin = now /\ DataFile(t, rows).end = Null
        /\ DataFile(t, rows).rows = rows /\ DataFile(t, rows).size = 1 + Cardinality(rows)
    <2> DEFINE row == [id |-> NextFile, table |-> t, size |-> 1 + Cardinality(rows), rows |-> rows]
    <2> HIDE DEF row
    <2>1. QED
      BY ContentOfNew DEF DataFile, DataFileFields, row
  <1>3. \A x \in Seen(DataFiles, now - 1) : x.id # NextFile
    <2>1. \A row \in DataFiles : row.id # NextFile
      BY <1>1, NextFileIsNext DEF FileRowsInv
    <2>2. QED
      BY <1>1, <2>1 DEF Content, FileSizesInv, Timed, DataFileFields, Seen
  <1>4. /\ DOMAIN lake'.files = DOMAIN lake.files \cup {NextFile}
        /\ \A f \in DOMAIN lake.files : f # NextFile /\ lake'.files[f] = lake.files[f]
        /\ lake'.files[NextFile].table = t /\ lake'.files[NextFile].size = 1 + Cardinality(rows)
    BY <1>1, <1>3 DEF FileSizesAgree, WithFile, Put
  <1>5. FileSizesAgree(Rest(DataFiles, {}, new), lake')
    <2> DEFINE content == Content(DataFile(t, rows))
    <2>1. \A x : x \in Rest(DataFiles, {}, new) <=> x \in Seen(DataFiles, now - 1) \/ x = content
      BY DEF Rest
    <2>2. content.id = NextFile /\ content.table = t /\ content.size = 1 + Cardinality(rows)
      BY <1>2
    <2> HIDE DEF content, new
    <2>3. QED
      BY <1>1, <1>4, <2>1, <2>2 DEF FileSizesAgree
  <1>6. Written(DataFiles, DataFileFields, {}, new, DataFiles')
    BY <1>2 DEF Closed, Written
  <1>7. Ends(DataFiles, {}, {}) /\ \A row \in new : IsFiniteSet(row.rows) /\ row.size \in Nat
    BY <1>2, FS_CardinalityType DEF Ends
  <1> HIDE DEF new
  <1>8. QED
    BY <1>1, <1>4, <1>5, <1>6, <1>7, DeleteSizesKept, FileSizesWritten

\* Those who write a file: an insert and a flush of inlined rows.
LEMMA WritersRead ==
    ASSUME IInv, FInv, RInv, format # "none", NEW t \in DOMAIN lake.tables
    PROVE  /\ WriteFile(t) => RInv'
           /\ \A at \in DOMAIN stored.data : Flush(t, at) => RInv'
  <1> USE FileShapes DEF LakeFields
  <1>1. ReadTables \subseteq DOMAIN relation
    BY DEF RInv, RowsInv
  <1>2. ASSUME WriteFile(t)
        PROVE  RInv'
    <2> DEFINE keys == PartitionKeys(NextFile, t)
               rows == 1 .. RowsPerFile
               db == [relation EXCEPT !.ducklake_data_file = @ \cup {DataFile(t, rows)},
                                      !.ducklake_file_partition_value = @ \cup keys]
               after == [lake EXCEPT !.files = WithFile(NextFile, t, rows)]
    <2>1. Commit(db, after) /\ IsFiniteSet(rows)
      <3>1. IsFiniteSet(rows)
        BY FS_Interval, BoundsAreNaturals
      <3>2. QED
        BY <1>2, <3>1 DEF WriteFile, PartitionKeys
    <2>2. /\ FileTables \subseteq DOMAIN db /\ DOMAIN db = DOMAIN relation
          /\ db.ducklake_data_file = DataFiles \cup {DataFile(t, rows)}
          /\ db.ducklake_delete_file = DeleteFiles
          /\ \A name \in DOMAIN relation \ {"ducklake_data_file", "ducklake_file_partition_value"} :
                db[name] = relation[name]
      BY DEF DataFiles, DeleteFiles, FileTables
    <2>3. /\ after.next \in Nat /\ after.next >= lake.next
          /\ after.files = WithFile(NextFile, t, rows) /\ after.deletes = lake.deletes
          /\ \A field \in LakeFields \ {"files"} : after[field] = lake[field]
      OBVIOUS
    <2> HIDE DEF db, after, keys, rows
    <2>4. Commits /\ lake' = after /\ relation' = db
      BY <2>1, <2>2, <2>3, SnapshotCommits
    <2>5. /\ RowsSame({"ducklake_data_file", "ducklake_file_partition_value"})
          /\ LakeSame({"files"}) /\ RowsInv
      BY <2>2, <2>3, <2>4, ReadFacts DEF RowsSame, LakeSame
    <2>6. FileSizesInv' /\ DeleteSizesInv'
      BY <2>1, <2>2, <2>3, <2>4, FileWrittenReads DEF DataFiles, DeleteFiles
    <2>7. QED
      BY <2>4, <2>5, <2>6, PartsKept, RInvFromParts DEF MacroTables
  <1>3. ASSUME NEW at \in DOMAIN stored.data, Flush(t, at)
        PROVE  RInv'
    <2> DEFINE rows == stored.data[at]
               db == [relation EXCEPT !.ducklake_data_file = @ \cup {DataFile(t, rows)}]
    <2>1. PICK inlined : Commit(db, [lake EXCEPT !.files = WithFile(NextFile, t, rows),
                                                 !.inlined = inlined])
      BY <1>3 DEF Flush
    <2> DEFINE after == [lake EXCEPT !.files = WithFile(NextFile, t, rows), !.inlined = inlined]
    <2>2. Commit(db, after)
      BY <2>1
    <2>3. IsFiniteSet(rows)
      <3>1. rows \subseteq 0 .. now - 1 /\ now \in Nat
        BY LastSnapshot DEF IInv, InlinedInv
      <3>2. IsFiniteSet(0 .. now - 1)
        BY <3>1, FS_Interval
      <3> HIDE DEF rows
      <3>3. QED
        BY <3>1, <3>2, FS_Subset
    <2>4. /\ FileTables \subseteq DOMAIN db /\ DOMAIN db = DOMAIN relation
          /\ db.ducklake_data_file = DataFiles \cup {DataFile(t, rows)}
          /\ db.ducklake_delete_file = DeleteFiles
          /\ \A name \in DOMAIN relation \ {"ducklake_data_file"} : db[name] = relation[name]
      BY DEF DataFiles, DeleteFiles, FileTables
    <2>5. /\ after.next \in Nat /\ after.next >= lake.next
          /\ after.files = WithFile(NextFile, t, rows) /\ after.deletes = lake.deletes
          /\ \A field \in LakeFields \ {"files", "inlined"} : after[field] = lake[field]
      <3> HIDE DEF db, rows
      <3>1. after.files = WithFile(NextFile, t, rows) /\ after.deletes = lake.deletes
        OBVIOUS
      <3>2. \A field \in LakeFields \ {"files", "inlined"} : after[field] = lake[field]
        OBVIOUS
      <3> HIDE DEF after
      <3>3. QED
        BY <3>1, <3>2
    <2> HIDE DEF db, after, rows
    <2>6. Commits /\ lake' = after /\ relation' = db
      BY <2>2, <2>4, <2>5, SnapshotCommits
    <2>7. RowsSame({"ducklake_data_file"}) /\ LakeSame({"files", "inlined"}) /\ RowsInv
      BY <2>4, <2>5, <2>6, ReadFacts DEF RowsSame, LakeSame
    <2>8. FileSizesInv' /\ DeleteSizesInv'
      BY <2>3, <2>4, <2>5, <2>6, FileWrittenReads DEF DataFiles, DeleteFiles
    <2>9. QED
      BY <2>6, <2>7, <2>8, PartsKept, RInvFromParts DEF MacroTables
  <1>4. QED
    BY <1>2, <1>3

\* Inlined rows and inlined deletes are read of no file.
LEMMA InlinedReads ==
    ASSUME IInv, FInv, RInv, format # "none"
    PROVE  /\ \A t \in DOMAIN lake.tables : InlineInsert(t) => RInv'
           /\ \A f \in DOMAIN lake.files : \A r : InlineDelete(f, r) => RInv'
  <1> USE FileShapes DEF LakeFields
  <1>1. ReadTables \subseteq DOMAIN relation
    BY DEF RInv, RowsInv
  <1>2. ASSUME NEW t \in DOMAIN lake.tables, InlineInsert(t)
        PROVE  RInv'
    <2>1. PICK rows, inlined : Commit([relation EXCEPT !.ducklake_inlined_data_tables = rows],
                                      [lake EXCEPT !.inlined = inlined])
      BY <1>2 DEF InlineInsert
    <2> DEFINE db == [relation EXCEPT !.ducklake_inlined_data_tables = rows]
               after == [lake EXCEPT !.inlined = inlined]
    <2>2. /\ FileTables \subseteq DOMAIN db /\ DOMAIN db = DOMAIN relation
          /\ \A name \in DOMAIN relation \ {"ducklake_inlined_data_tables"} : db[name] = relation[name]
      BY DEF FileTables
    <2>3. /\ after.next \in Nat /\ after.next >= lake.next
          /\ \A field \in LakeFields \ {"inlined"} : after[field] = lake[field]
      OBVIOUS
    <2>4. Commit(db, after)
      BY <2>1
    <2> HIDE DEF db, after
    <2>5. Commits /\ lake' = after /\ relation' = db
      BY <2>2, <2>3, <2>4, SnapshotCommits
    <2>6. RowsSame({"ducklake_inlined_data_tables"}) /\ LakeSame({"inlined"}) /\ RowsInv
      BY <2>2, <2>3, <2>5, ReadFacts DEF RowsSame, LakeSame
    <2>7. QED
      BY <2>5, <2>6, PartsKept, RInvFromParts DEF MacroTables
  <1>3. ASSUME NEW f \in DOMAIN lake.files, NEW r, InlineDelete(f, r)
        PROVE  RInv'
    <2> DEFINE after == [lake EXCEPT !.files[f].rows = @ \ {r}]
    <2>1. Commit(relation, after)
      BY <1>3 DEF InlineDelete
    <2>2. /\ after.next \in Nat /\ after.next >= lake.next
          /\ DOMAIN after.files = DOMAIN lake.files /\ after.deletes = lake.deletes
          /\ \A field \in LakeFields \ {"files"} : after[field] = lake[field]
      OBVIOUS
    <2>3. \A g \in DOMAIN lake.files :
             /\ after.files[g].table = lake.files[g].table
             /\ after.files[g].size = lake.files[g].size
      BY DEF FileShapeInv
    <2> HIDE DEF after
    <2>4. Commits /\ lake' = after /\ relation' = relation
      BY <2>1, <2>2, SnapshotCommits
    <2>5. RowsSame({}) /\ LakeSame({"files"}) /\ RowsInv /\ FileSizesInv /\ DeleteSizesInv
      BY <2>2, <2>4, ReadFacts DEF RowsSame, LakeSame
    <2>6. FileSizesInv' /\ DeleteSizesInv'
      BY <2>2, <2>3, <2>4, <2>5, FileSizesKept, DeleteSizesKept DEF DataFiles, DeleteFiles
    <2>7. QED
      BY <2>4, <2>5, <2>6, PartsKept, RInvFromParts DEF MacroTables
  <1>4. QED
    BY <1>2, <1>3

\* Files that end are not read any more, nor the delete files of theirs.
LEMMA FilesEndedRead ==
    ASSUME Commits, RInv, NEW gone, NEW H, NEW D,
           DataFiles' = {Closed(f, H) : f \in DataFiles},
           DeleteFiles' = {Closed(d, D) : d \in DeleteFiles},
           \A f \in DataFiles : f.end = Null => (f \in H <=> f.id \in gone),
           \A d \in DeleteFiles : d.end = Null => (d \in D <=> d.file \in gone),
           lake'.files = Without(lake.files, gone), lake'.deletes = Without(lake.deletes, gone)
    PROVE  FileSizesInv' /\ DeleteSizesInv'
  <1>1. /\ now \in Nat /\ 0 < now /\ FileSizesInv /\ DeleteSizesInv
        /\ FileSizesAgree(Seen(DataFiles, now - 1), lake)
        /\ DeleteSizesAgree(Seen(DeleteFiles, now - 1), lake)
    BY SnapshotsAfter, ReadFacts DEF Commits
  <1>2. /\ DOMAIN lake'.files = DOMAIN lake.files \ gone
        /\ \A f \in DOMAIN lake'.files : lake'.files[f] = lake.files[f]
        /\ DOMAIN lake'.deletes = DOMAIN lake.deletes \ gone
        /\ \A f \in DOMAIN lake'.deletes : lake'.deletes[f] = lake.deletes[f]
    BY DEF Without
  <1>3. FileSizesInv'
    <2> DEFINE ended == {x \in Seen(DataFiles, now - 1) : x.id \in gone}
    <2>1. Ends(DataFiles, H, ended)
      BY <1>1, SeenLast DEF Content, FileSizesInv, Timed, DataFileFields, Ends
    <2>2. \A x : x \in Rest(DataFiles, ended, {}) <=> x \in Seen(DataFiles, now - 1) /\ x.id \notin gone
      BY DEF Rest
    <2> HIDE DEF ended
    <2>3. QED
      BY <1>1, <1>2, <2>1, <2>2, FileSizesWritten DEF FileSizesAgree, Written
  <1>4. DeleteSizesInv'
    <2> DEFINE ended == {x \in Seen(DeleteFiles, now - 1) : x.file \in gone}
    <2>1. Ends(DeleteFiles, D, ended)
      BY <1>1, SeenLast DEF Content, DeleteSizesInv, Timed, DeleteFileFields, Ends
    <2>2. \A x : x \in Rest(DeleteFiles, ended, {})
                    <=> x \in Seen(DeleteFiles, now - 1) /\ x.file \notin gone
      BY DEF Rest
    <2> HIDE DEF ended
    <2>3. QED
      BY <1>1, <1>2, <2>1, <2>2, DeleteSizesWritten DEF DeleteSizesAgree, Written
  <1>5. QED
    BY <1>3, <1>4

\* The end of a data file, and of the delete file it has.
LEMMA DeleteFileReads ==
    ASSUME IInv, FInv, RInv, format # "none", NEW x \in DOMAIN lake.files, DeleteFile(x)
    PROVE  RInv'
  <1> DEFINE gone == {x}
             H == {f \in DataFiles : f.id = x}
             D == {d \in DeleteFiles : d.file = x}
             files == {Closed(f, H) : f \in DataFiles}
             deletes == {Closed(d, D) : d \in DeleteFiles}
             db == [relation EXCEPT !.ducklake_data_file = files, !.ducklake_delete_file = deletes]
             after == [lake EXCEPT !.files = Without(@, gone), !.deletes = Without(@, gone)]
  <1>1. Commit(db, after)
    BY DEF DeleteFile, Ended, DataFiles, DeleteFiles, Closed
  <1> HIDE DEF files, deletes
  <1>2. /\ DOMAIN lake = LakeFields /\ lake.next \in Nat /\ FileTables \subseteq DOMAIN relation
        /\ ReadTables \subseteq DOMAIN relation
    BY FileShapes DEF RInv, RowsInv
  <1>3. /\ FileTables \subseteq DOMAIN db /\ DOMAIN db = DOMAIN relation
        /\ db.ducklake_data_file = files /\ db.ducklake_delete_file = deletes
        /\ \A name \in DOMAIN relation \ {"ducklake_data_file", "ducklake_delete_file"} :
              db[name] = relation[name]
    BY <1>2 DEF FileTables
  <1>4. /\ after.next = lake.next
        /\ after.files = Without(lake.files, gone) /\ after.deletes = Without(lake.deletes, gone)
        /\ \A field \in LakeFields \ {"files", "deletes"} : after[field] = lake[field]
    BY <1>2 DEF LakeFields
  <1> HIDE DEF db, after
  <1>5. Commits /\ lake' = after /\ relation' = db
    BY <1>1, <1>2, <1>3, <1>4, SnapshotCommits
  <1>6. /\ RowsSame({"ducklake_data_file", "ducklake_delete_file"})
        /\ LakeSame({"files", "deletes"}) /\ RowsInv
    BY <1>3, <1>4, <1>5, ReadFacts DEF RowsSame, LakeSame
  <1>7. FileSizesInv' /\ DeleteSizesInv'
    <2>1. /\ \A f \in DataFiles : f \in H <=> f.id \in gone
          /\ \A d \in DeleteFiles : d \in D <=> d.file \in gone
      OBVIOUS
    <2> HIDE DEF gone, H, D
    <2>2. QED
      BY <1>3, <1>4, <1>5, <2>1, FilesEndedRead DEF DataFiles, DeleteFiles, files, deletes
  <1>8. QED
    BY <1>5, <1>6, <1>7, PartsKept, RInvFromParts DEF MacroTables

\* A delete file takes the place of the one before it, with a size of its own.
LEMMA DeleteRowsReads ==
    ASSUME IInv, FInv, RInv, format # "none", NEW x \in DOMAIN lake.files,
           NEW R \in SUBSET lake.files[x].rows, DeleteRows(x, R)
    PROVE  RInv'
  <1> DEFINE old == {d \in DeleteFiles : d.file = x /\ d.end = Null}
             rows == R \cup UNION {d.rows : d \in old}
             row == [id |-> NextFile, table |-> lake.files[x].table, file |-> x,
                     size |-> Cardinality(rows), rows |-> rows]
             closed == {Closed(d, old) : d \in DeleteFiles}
             db == [relation EXCEPT !.ducklake_delete_file = closed \cup {New(row)}]
             after == [lake EXCEPT !.files[x].rows = @ \ R,
                                   !.deletes = Put(@, x, Cardinality(rows))]
  <1>1. Commit(db, after)
    BY DEF DeleteRows, Ended, DeleteFiles, Closed
  <1>2. /\ DOMAIN lake = LakeFields /\ lake.next \in Nat /\ FileTables \subseteq DOMAIN relation
        /\ ReadTables \subseteq DOMAIN relation /\ FileShapeInv
    BY FileShapes DEF RInv, RowsInv
  <1>3. /\ "begin" \notin DOMAIN row /\ "end" \notin DOMAIN row /\ DOMAIN row = DeleteFileFields
        /\ row = [field \in DOMAIN row |-> row[field]]
        /\ row.file = x /\ row.table = lake.files[x].table
        /\ row.rows = rows /\ row.size = Cardinality(rows)
    BY DEF DeleteFileFields
  <1> HIDE DEF closed, rows, row
  <1>4. /\ FileTables \subseteq DOMAIN db /\ DOMAIN db = DOMAIN relation
        /\ db.ducklake_delete_file = closed \cup {New(row)}
        /\ \A name \in DOMAIN relation \ {"ducklake_delete_file"} : db[name] = relation[name]
    BY <1>2 DEF FileTables
  <1>5. /\ after.next = lake.next
        /\ after.files = [lake.files EXCEPT ![x].rows = @ \ R]
        /\ after.deletes = Put(lake.deletes, x, Cardinality(rows))
        /\ \A field \in LakeFields \ {"files", "deletes"} : after[field] = lake[field]
    BY <1>2 DEF LakeFields
  <1>6. /\ DOMAIN after.files = DOMAIN lake.files
        /\ \A f \in DOMAIN lake.files :
              /\ after.files[f].table = lake.files[f].table
              /\ after.files[f].size = lake.files[f].size
    BY <1>2, <1>5 DEF FileShapeInv
  <1>7. /\ DOMAIN after.deletes = DOMAIN lake.deletes \cup {x}
        /\ \A f \in DOMAIN after.deletes :
              after.deletes[f] = IF f = x THEN Cardinality(rows) ELSE lake.deletes[f]
    BY <1>5 DEF Put
  <1> HIDE DEF db, after
  <1>8. Commits /\ lake' = after /\ relation' = db
    BY <1>1, <1>2, <1>4, <1>5, SnapshotCommits
  <1>9. /\ RowsSame({"ducklake_delete_file"}) /\ LakeSame({"files", "deletes"}) /\ RowsInv
        /\ FileSizesInv /\ DeleteSizesInv /\ now \in Nat /\ 0 < now
        /\ FileSizesAgree(Seen(DataFiles, now - 1), lake)
        /\ DeleteSizesAgree(Seen(DeleteFiles, now - 1), lake)
    BY <1>4, <1>5, <1>8, ReadFacts, SnapshotsAfter DEF RowsSame, LakeSame
  <1>10. DataFiles' = DataFiles /\ DeleteFiles' = closed \cup {New(row)}
    BY <1>2, <1>4, <1>8 DEF FileTables, DataFiles, DeleteFiles
  <1>11. FileSizesInv'
    BY <1>6, <1>8, <1>9, <1>10, FileSizesKept
  <1>12. IsFiniteSet(rows)
    <2>1. IsFiniteSet(lake.files[x].rows)
      <3>1. PICK f \in DataFiles : f.id = x /\ f.end = Null
        BY <1>8, LiveFiles
      <3>2. QED
        BY <1>8, <1>9, <3>1, FS_Subset, LiveFiles DEF FileSizesInv
    <2>2. IsFiniteSet(R)
      BY <2>1, FS_Subset
    <2>3. \A d, other \in old : d.rows = other.rows
      <3>1. \A d \in DeleteFiles : Content(d).file = d.file /\ Content(d).rows = d.rows
        BY <1>9 DEF Content, DeleteSizesInv, Timed, DeleteFileFields
      <3>2. QED
        BY <1>9, <3>1, SeenLast DEF DeleteSizesInv, DeleteSizesAgree
    <2>4. CASE old = {}
      BY <2>2, <2>4 DEF rows
    <2>5. CASE old # {}
      <3>1. PICK d \in DeleteFiles : d \in old
        BY <2>5
      <3>2. UNION {e.rows : e \in old} = d.rows
        BY <2>3, <3>1
      <3>3. QED
        BY <1>9, <2>2, <3>1, <3>2, FS_Union DEF DeleteSizesInv, rows
    <2>6. QED
      BY <2>4, <2>5
  <1>13. DeleteSizesInv'
    <2> DEFINE ended == {y \in Seen(DeleteFiles, now - 1) : y.file = x}
               new == {New(row)}
               rest == Rest(DeleteFiles, ended, new)
    <2>1. Ends(DeleteFiles, old, ended)
      BY <1>9, SeenLast DEF Content, DeleteSizesInv, Timed, DeleteFileFields, Ends
    <2>2. /\ Content(New(row)) = row
          /\ DOMAIN New(row) = DeleteFileFields \cup {"begin", "end"}
          /\ New(row).begin = now /\ New(row).end = Null
          /\ New(row).rows = rows /\ New(row).size = Cardinality(rows)
      BY <1>3, ContentOfNew DEF DeleteFileFields
    <2>3. Written(DeleteFiles, DeleteFileFields, old, new, DeleteFiles')
      BY <1>10, <2>2 DEF Written, closed
    <2>4. \A d \in new : IsFiniteSet(d.rows) /\ d.size \in Nat
      BY <1>12, <2>2, FS_CardinalityType
    <2>5. \A y : y \in rest <=> (y \in Seen(DeleteFiles, now - 1) /\ y.file # x) \/ y = row
      BY <2>2 DEF Rest
    <2> HIDE DEF ended, new, rest, old
    <2>6. {y.file : y \in rest} = DOMAIN after.deletes
      BY <1>3, <1>7, <1>9, <2>5 DEF DeleteSizesAgree
    <2>7. DOMAIN after.deletes \subseteq DOMAIN after.files
      BY <1>6, <1>7, <1>9 DEF DeleteSizesAgree
    <2>8. \A y \in rest : after.files[y.file].table = y.table /\ after.deletes[y.file] = y.size
      BY <1>3, <1>6, <1>7, <1>9, <2>5, <2>6, <2>7 DEF DeleteSizesAgree
    <2>9. DeleteSizesAgree(rest, lake')
      BY <1>3, <1>8, <1>9, <2>5, <2>6, <2>7, <2>8 DEF DeleteSizesAgree
    <2>10. QED
      BY <1>8, <1>9, <2>1, <2>3, <2>4, <2>9, DeleteSizesWritten DEF rest
  <1>14. QED
    BY <1>8, <1>9, <1>11, <1>13, PartsKept, RInvFromParts DEF MacroTables

-----------------------------------------------------------------------------
(* Columns                                                                 *)

\* The columns of one table change, and what is told of its partition stays true.
ColumnsChange(t) ==
    /\ RowsSame({"ducklake_column", "ducklake_schema_versions"})
    /\ LakeSame({"tables", "versions"})
    /\ DOMAIN lake'.tables = DOMAIN lake.tables
    /\ \A u \in DOMAIN lake.tables :
          /\ DOMAIN lake'.tables[u] = {"tags", "columns"}
          /\ lake'.tables[u].tags = lake.tables[u].tags
          /\ u # t => lake'.tables[u].columns = lake.tables[u].columns
    /\ IsColumns(lake'.tables[t].columns) /\ Len(lake'.tables[t].columns) >= 1
    /\ TagsStay(t, lake'.tables[t].columns)
    /\ t \in DOMAIN lake.partitions => \A i \in DOMAIN lake.partitions[t] : \A column :
          MeansColumn(t, i, column) => MeansColumn(t, i, column)'

\* How that is written, with ids up to n.
ColumnsWriting(t, H, new, gone, n) ==
    /\ Written(ColumnRows, ColumnFields, H, new, ColumnRows') /\ Ends(ColumnRows, H, gone)
    /\ \A x \in gone : x.table = t
    /\ \A row, other \in new : Content(row) = Content(other) => row = other
    /\ \A row \in new :
          /\ row.table = t /\ Content(row).table = t /\ row.id \in Nat /\ row.id <= n
          /\ row.parent # Null => row.parent \in Nat /\ row.parent < row.id
          /\ Content(row) \notin Seen(ColumnRows, now - 1) \ gone
    /\ \A x : (x \in Rest(ColumnRows, gone, new) /\ x.table = t)
                  <=> x \in ContentOfColumns(t, lake'.tables[t].columns)

\* What has to be shown where the columns of one table change.
LEMMA ColumnsOfOneTable ==
    ASSUME Commits, RInv, NEW t \in DOMAIN lake.tables, ColumnsChange(t),
           NEW H, NEW new, NEW gone, NEW n \in Nat, ColumnsWriting(t, H, new, gone, n)
    PROVE  RInv'
  <1>1. /\ RowsSame({"ducklake_column", "ducklake_schema_versions"})
        /\ LakeSame({"tables", "versions"})
        /\ DOMAIN lake'.tables = DOMAIN lake.tables
        /\ \A u \in DOMAIN lake.tables :
              /\ DOMAIN lake'.tables[u] = {"tags", "columns"}
              /\ lake'.tables[u].tags = lake.tables[u].tags
              /\ u # t => lake'.tables[u].columns = lake.tables[u].columns
        /\ Written(ColumnRows, ColumnFields, H, new, ColumnRows') /\ Ends(ColumnRows, H, gone)
    BY DEF ColumnsChange, ColumnsWriting
  <1>2. /\ RowsInv /\ TablesInv /\ ViewsInv /\ ColumnsInv /\ TagsInv /\ ColumnTagsInv
        /\ PartitionInv /\ ReadTables \subseteq DOMAIN relation
        /\ ColumnsAgree(Seen(ColumnRows, now - 1), lake)
    BY ReadFacts DEF Commits
  <1>3. /\ TableRows' = TableRows /\ ViewRows' = ViewRows /\ TagRows' = TagRows
        /\ ColumnTagRows' = ColumnTagRows /\ PartitionRows' = PartitionRows
    BY <1>1, <1>2 DEF RowsSame, ReadTables, TableRows, ViewRows, TagRows, ColumnTagRows, PartitionRows
  <1>4. lake'.views = lake.views /\ lake'.partitions = lake.partitions /\ lake'.next = lake.next
    BY <1>1 DEF LakeSame, LakeFields
  <1>5. /\ t \in Nat /\ t < lake'.next /\ DOMAIN lake.partitions \subseteq DOMAIN lake.tables
        /\ format' = format
    BY <1>4, CommitFacts DEF LakeInv, KeysInv, Commits
  <1>6. TablesInv'
    BY <1>1, <1>2, <1>3, TablesKept
  <1>7. ViewsInv'
    BY <1>1, <1>2, <1>3, <1>4, ViewsKept
  <1>8. TagsInv'
    BY <1>1, <1>2, <1>3, <1>4, TagsKept
  <1>9. ColumnsInv'
    BY <1>1, <1>2, <1>5, ColumnsWritten DEF ColumnsAgree, ColumnsChange, ColumnsWriting, Rest
  <1>10. ColumnTagsInv'
    <2>1. \A u \in DOMAIN lake.tables : TagsStay(u, lake.tables[u].columns)
      BY DEF TagsStay
    <2>2. QED
      BY <1>1, <1>2, <1>3, <2>1, ColumnTagsKept, WrittenColumnsStay DEF ColumnsChange
  <1>11. PartitionInv'
    <2>1. ASSUME NEW u \in DOMAIN lake.partitions, NEW i \in DOMAIN lake.partitions[u],
                 NEW column, MeansColumn(u, i, column)
          PROVE  MeansColumn(u, i, column)'
      <3>1. CASE u = t
        BY <2>1, <3>1 DEF ColumnsChange
      <3>2. CASE u # t
        BY <1>1, <1>4, <1>5, <2>1, <3>2 DEF MeansColumn, Means
      <3>3. QED
        BY <3>1, <3>2
    <2>2. QED
      BY <1>1, <1>2, <1>3, <1>4, <2>1, PartitionsKept
  <1>12. QED
    BY <1>1, <1>2, <1>6, <1>7, <1>8, <1>9, <1>10, <1>11, PartsKept, RInvFromParts DEF MacroTables

\* A row of a column as it is written and as it is read.
LEMMA NewColumn ==
    ASSUME NEW t, NEW id, NEW parent
    PROVE  /\ Content(Column(t, id, parent)) = ColumnContent(t, ColumnOf(id, parent))
           /\ Content(Column(t, id, parent)).table = t
           /\ DOMAIN Column(t, id, parent) = ColumnFields \cup {"begin", "end"}
           /\ Column(t, id, parent).begin = now /\ Column(t, id, parent).end = Null
           /\ Column(t, id, parent).table = t /\ Column(t, id, parent).id = id
           /\ Column(t, id, parent).parent = parent
  <1> DEFINE row == [table |-> t, id |-> id, name |-> now, order |-> id, parent |-> parent]
  <1>1. /\ "begin" \notin DOMAIN row /\ "end" \notin DOMAIN row /\ DOMAIN row = ColumnFields
        /\ row = [field \in DOMAIN row |-> row[field]]
        /\ row.table = t /\ row.id = id /\ row.parent = parent
        /\ row = ColumnContent(t, ColumnOf(id, parent))
    BY DEF ColumnFields, ColumnContent, ColumnOf
  <1>2. Column(t, id, parent) = New(row)
    BY DEF Column
  <1> HIDE DEF row
  <1>3. QED
    BY <1>1, <1>2, ContentOfNew DEF ColumnFields

\* Columns of a table have the rows they are told by, one each.
LEMMA ColumnsOfTable ==
    ASSUME Commits, RInv, NEW t \in DOMAIN lake.tables, NEW cols, cols = lake.tables[t].columns
    PROVE  /\ IsColumns(cols) /\ Len(cols) >= 1 /\ DOMAIN cols = 1 .. Len(cols)
           /\ \A x : (x \in Seen(ColumnRows, now - 1) /\ x.table = t)
                        <=> x \in ContentOfColumns(t, cols)
           /\ \A i \in 1 .. Len(cols) : \E row \in ColumnRows :
                 row.end = Null /\ Content(row) = ColumnContent(t, cols[i])
           /\ \A row \in ColumnRows : row.end = Null /\ row.table = t =>
                 \E i \in 1 .. Len(cols) : Content(row) = ColumnContent(t, cols[i])
           /\ \A row, other \in ColumnRows :
                 row.end = Null /\ other.end = Null /\ Content(row) = Content(other) => row = other
           /\ \A row \in ColumnRows :
                 /\ Content(row).table = row.table /\ Content(row).id = row.id
                 /\ Content(row).parent = row.parent /\ Content(row).name = row.name
                 /\ Content(row).order = row.order
                 /\ DOMAIN row = ColumnFields \cup {"begin", "end"}
  <1>1. /\ ColumnsInv /\ ColumnsAgree(Seen(ColumnRows, now - 1), lake)
        /\ Distinct(ColumnRows, now - 1) /\ now \in Nat /\ 0 < now
        /\ Timed(ColumnRows, ColumnFields, now)
    BY ReadFacts, SnapshotsAfter DEF Commits, ColumnsInv
  <1>2. \A x : (x \in Seen(ColumnRows, now - 1) /\ x.table = t)
                  <=> x \in ContentOfColumns(t, cols)
    BY <1>1 DEF ColumnsAgree
  <1>3. \A row \in ColumnRows :
           /\ Content(row).table = row.table /\ Content(row).id = row.id
           /\ Content(row).parent = row.parent /\ Content(row).name = row.name
           /\ Content(row).order = row.order
           /\ DOMAIN row = ColumnFields \cup {"begin", "end"}
    BY <1>1 DEF Content, Timed, ColumnFields
  <1>4. /\ \A row \in ColumnRows : Visible(row, now - 1) <=> row.end = Null
        /\ \A x : x \in Seen(ColumnRows, now - 1)
                     <=> \E row \in ColumnRows : row.end = Null /\ x = Content(row)
    BY <1>1, SeenLast
  <1>5. \A row \in ColumnRows : row.end = Null /\ row.table = t =>
            \E i \in 1 .. Len(cols) : Content(row) = ColumnContent(t, cols[i])
    BY <1>2, <1>3, <1>4 DEF ContentOfColumns
  <1>6. \A i \in 1 .. Len(cols) : \E row \in ColumnRows :
           row.end = Null /\ Content(row) = ColumnContent(t, cols[i])
    BY <1>2, <1>4 DEF ContentOfColumns
  <1>7. QED
    BY <1>1, <1>2, <1>3, <1>4, <1>5, <1>6 DEF Distinct, ColumnsAgree, IsColumns

\* What is picked of consecutive positions.
LEMMA PickedInterval ==
    ASSUME NEW a \in Nat, NEW l \in Nat
    PROVE  \A s : Picked(s, a + 1 .. a + l) = [k \in 1 .. l |-> s[a + k]]
  <1> DEFINE f == [k \in 1 .. l |-> a + k]
             I == a + 1 .. a + l
             B == {p \in I \X I : p[1] < p[2]}
             below(i) == {j \in I : j < i}
  <1>1. (\A k \in 1 .. l : f[k] \in I) /\ \A i \in I : \E k \in 1 .. l : i = f[k]
    <2>1. \A i \in I : i - a \in 1 .. l /\ f[i - a] = i
      OBVIOUS
    <2>2. \A k \in 1 .. l : f[k] \in I
      OBVIOUS
    <2> HIDE DEF f, I
    <2>3. QED
      BY <2>1, <2>2
  <1>2. \A j, k \in 1 .. l : <<f[j], f[k]>> \in B <=> j < k
    <2>1. \A j, k \in 1 .. l : f[j] \in I /\ f[k] \in I /\ (f[j] < f[k] <=> j < k)
      OBVIOUS
    <2> HIDE DEF f, I
    <2>2. QED
      BY <2>1
  <1>3. \A i \in I : below(i) = Before(I, B, i)
    <2>1. \A i, j \in I : j < i <=> <<j, i>> \in B
      BY DEF B
    <2> HIDE DEF I, B
    <2>2. QED
      BY <2>1 DEF Before
  <1>4. \A k \in 1 .. l : f[k] = a + k /\ f[k] \in I
    BY <1>1
  <1> HIDE DEF f, I, B
  <1>5. /\ Cardinality(I) = l
        /\ \A k \in 1 .. l : \A i \in I : Cardinality(Before(I, B, i)) = k - 1 <=> i = f[k]
    <2>1. GoesThrough(f, l, I, B)
      BY <1>1, <1>2 DEF GoesThrough
    <2>2. QED
      BY <2>1, InOrder
  <1> HIDE DEF below
  <1>6. \A k \in 1 .. l : (CHOOSE i \in I : Cardinality(below(i)) = k - 1) = a + k
    BY <1>3, <1>4, <1>5
  <1>7. \A s : Picked(s, I) = [k \in 1 .. l |-> s[a + k]]
    <2> DEFINE sorted == Sorted(I, LAMBDA i, j : i < j)
    <2>1. sorted = [k \in 1 .. Cardinality(I) |-> CHOOSE i \in I : Cardinality(below(i)) = k - 1]
      BY DEF Sorted, below
    <2>2. \A s : Picked(s, I) = [k \in DOMAIN sorted |-> s[sorted[k]]]
      BY DEF Picked
    <2> HIDE DEF sorted
    <2>3. DOMAIN sorted = 1 .. l /\ \A k \in 1 .. l : sorted[k] = a + k
      BY <1>5, <1>6, <2>1
    <2>4. QED
      BY <2>2, <2>3
  <1>8. QED
    BY <1>7 DEF I

\* The m top-level columns come first.
TopLevelUpTo(cols, n, m) ==
    /\ \A i \in 1 .. m : cols[i].parent = Null
    /\ \A i \in m + 1 .. n : cols[i].parent # Null
    /\ TopLevel(cols) = [k \in 1 .. m |-> cols[k]]
    /\ Nested(cols) = [k \in 1 .. n - m |-> cols[m + k]]

\* Columns in their order have the top-level ones first, and TopLevel and Nested part them.
LEMMA TopLevelFirst ==
    ASSUME NEW cols, IsColumns(cols)
    PROVE  \E m \in 0 .. Len(cols) : TopLevelUpTo(cols, Len(cols), m)
  <1> DEFINE n == Len(cols)
             S == {i \in 1 .. n : cols[i].parent # Null}
  <1>1. n \in Nat /\ DOMAIN cols = 1 .. n
    BY DEF IsColumns
  <1>2. \E m \in 0 .. n : /\ \A i \in 1 .. m : cols[i].parent = Null
                          /\ \A i \in m + 1 .. n : cols[i].parent # Null
    <2>1. CASE S = {}
      BY <1>1, <2>1
    <2>2. CASE S # {}
      <3>1. PICK x \in S : \A y \in S : x <= y
        <4>1. S \in SUBSET Nat
          BY <1>1
        <4> HIDE DEF S
        <4>2. QED
          BY <2>2, <4>1, HasLeast
      <3>2. x \in 1 .. n /\ cols[x].parent # Null
        BY <3>1
      <3>3. \A i \in x .. n : cols[i].parent # Null
        BY <1>1, <3>2 DEF IsColumns, Ordered
      <3>4. \A i \in 1 .. x - 1 : cols[i].parent = Null
        BY <1>1, <3>1, <3>2
      <3>5. x - 1 \in 0 .. n /\ (x - 1) + 1 = x
        BY <1>1, <3>2
      <3>6. QED
        BY <3>3, <3>4, <3>5
    <2>3. QED
      BY <2>1, <2>2
  <1>3. PICK m \in 0 .. n : /\ \A i \in 1 .. m : cols[i].parent = Null
                            /\ \A i \in m + 1 .. n : cols[i].parent # Null
    BY <1>2
  <1>4. {i \in DOMAIN cols : cols[i].parent = Null} = 1 .. m
    BY <1>1, <1>3
  <1>5. {i \in DOMAIN cols : cols[i].parent # Null} = m + 1 .. n
    BY <1>1, <1>3
  <1>6. TopLevel(cols) = [k \in 1 .. m |-> cols[k]]
    <2>1. Picked(cols, 0 + 1 .. 0 + m) = [k \in 1 .. m |-> cols[0 + k]]
      BY <1>1, PickedInterval
    <2>2. 0 + 1 .. 0 + m = 1 .. m /\ \A k \in 1 .. m : 0 + k = k
      BY <1>1
    <2>3. QED
      BY <1>4, <2>1, <2>2 DEF TopLevel
  <1>7. Nested(cols) = [k \in 1 .. n - m |-> cols[m + k]]
    <2>1. n - m \in Nat /\ m \in Nat /\ m + (n - m) = n
      BY <1>1
    <2>2. Picked(cols, m + 1 .. m + (n - m)) = [k \in 1 .. n - m |-> cols[m + k]]
      BY <2>1, PickedInterval
    <2>3. QED
      BY <1>5, <2>1, <2>2 DEF Nested
  <1>8. QED
    BY <1>3, <1>6, <1>7 DEF TopLevelUpTo

\* The length of a sequence is told by its domain.
LEMMA LengthIs ==
    ASSUME NEW n \in Nat, NEW s, DOMAIN s = 1 .. n
    PROVE  Len(s) = n
  OBVIOUS

\* What makes a sequence of columns.
LEMMA IsColumnsIf ==
    ASSUME NEW n \in Nat, NEW cols, Len(cols) = n, cols = [i \in 1 .. n |-> cols[i]],
           \A i \in 1 .. n :
              cols[i] = [id |-> cols[i].id, name |-> cols[i].name, parent |-> cols[i].parent,
                         tags |-> cols[i].tags],
           \A i \in 1 .. n : cols[i].id \in Nat /\ (cols[i].parent # Null => cols[i].parent \in Nat),
           \A i, j \in 1 .. n : i < j => Ordered(cols[i], cols[j]),
           \A i, j \in 1 .. n : cols[i].id = cols[j].id => i = j
    PROVE  IsColumns(cols)
  BY DEF IsColumns

\* A column with another name, and what is told of the columns then.
Renamed(renames, cols, i, name) == renames = [cols EXCEPT ![i].name = name]

\* Columns in their order stay so with another name.
LEMMA RenamedColumns ==
    ASSUME NEW cols, IsColumns(cols), NEW i, i \in 1 .. Len(cols), NEW name, NEW renames,
           Renamed(renames, cols, i, name)
    PROVE  /\ IsColumns(renames) /\ Len(renames) = Len(cols)
           /\ \A j \in 1 .. Len(cols) :
                 /\ renames[j].id = cols[j].id /\ renames[j].parent = cols[j].parent
                 /\ renames[j].tags = cols[j].tags
           /\ renames[i].name = name
           /\ \A t, x : x \in ContentOfColumns(t, cols) /\ x.id = cols[i].id
                           => x = ColumnContent(t, cols[i])
           /\ \A t, x : x \in ContentOfColumns(t, renames)
                 <=> \/ x \in ContentOfColumns(t, cols) /\ x # ColumnContent(t, cols[i])
                     \/ x = ColumnContent(t, renames[i])
  <1>1. /\ Len(cols) \in Nat
        /\ \A j \in 1 .. Len(cols) :
              cols[j] = [id |-> cols[j].id, name |-> cols[j].name, parent |-> cols[j].parent,
                         tags |-> cols[j].tags]
        /\ \A j, k \in 1 .. Len(cols) : cols[j].id = cols[k].id => j = k
        /\ cols = [j \in 1 .. Len(cols) |-> cols[j]]
    BY DEF IsColumns
  <1>2. [cols[i] EXCEPT !.name = name]
           = [id |-> cols[i].id, name |-> name, parent |-> cols[i].parent, tags |-> cols[i].tags]
    <2>1. PICK a, b, c, d : cols[i] = [id |-> a, name |-> b, parent |-> c, tags |-> d]
      BY <1>1
    <2>2. QED
      BY <2>1
  <1>3. PICK n \in Nat : n = Len(cols)
    BY <1>1
  <1>4. renames = [j \in 1 .. n |-> IF j = i THEN [cols[i] EXCEPT !.name = name] ELSE cols[j]]
    BY <1>1, <1>3 DEF Renamed
  <1>5. Len(renames) = n /\ renames = [j \in 1 .. n |-> renames[j]]
    BY <1>3, <1>4, LengthIs
  <1>6. /\ renames[i] = [id |-> cols[i].id, name |-> name, parent |-> cols[i].parent,
                         tags |-> cols[i].tags]
        /\ \A j \in 1 .. n : j # i => renames[j] = cols[j]
    BY <1>2, <1>3, <1>4
  <1>7. \A j \in 1 .. n :
           /\ renames[j].id = cols[j].id /\ renames[j].parent = cols[j].parent
           /\ renames[j].tags = cols[j].tags
           /\ renames[j] = [id |-> renames[j].id, name |-> renames[j].name,
                            parent |-> renames[j].parent, tags |-> renames[j].tags]
    BY <1>1, <1>3, <1>6
  <1>8. IsColumns(renames)
    <2>1. \A j, k \in 1 .. n : j < k => Ordered(cols[j], cols[k])
      BY <1>3 DEF IsColumns
    <2>2. \A j, k \in 1 .. n : j < k => Ordered(renames[j], renames[k])
      BY <1>7, <2>1 DEF Ordered
    <2>3. \A j, k \in 1 .. n : renames[j].id = renames[k].id => j = k
      BY <1>1, <1>3, <1>7
    <2>4. QED
      BY <1>3, <1>5, <1>7, <2>2, <2>3, IsColumnsIf DEF IsColumns
  <1>9. ASSUME NEW t
        PROVE  /\ \A x : x \in ContentOfColumns(t, cols) /\ x.id = cols[i].id
                            => x = ColumnContent(t, cols[i])
               /\ \A x : x \in ContentOfColumns(t, renames)
                    <=> \/ x \in ContentOfColumns(t, cols) /\ x # ColumnContent(t, cols[i])
                        \/ x = ColumnContent(t, renames[i])
    <2>1. \A j \in 1 .. n : /\ ColumnContent(t, cols[j]).id = cols[j].id
                            /\ j # i => ColumnContent(t, renames[j]) = ColumnContent(t, cols[j])
      BY <1>6 DEF ColumnContent
    <2>2. \A x : x \in ContentOfColumns(t, cols) <=> \E j \in 1 .. n : x = ColumnContent(t, cols[j])
      BY <1>3 DEF ContentOfColumns
    <2>3. \A x : x \in ContentOfColumns(t, renames)
                    <=> \E j \in 1 .. n : x = ColumnContent(t, renames[j])
      BY <1>5 DEF ContentOfColumns
    <2>4. \A x : x \in ContentOfColumns(t, cols) /\ x # ColumnContent(t, cols[i])
                    => x \in ContentOfColumns(t, renames)
      <3> SUFFICES ASSUME NEW x, x \in ContentOfColumns(t, cols), x # ColumnContent(t, cols[i])
                   PROVE  x \in ContentOfColumns(t, renames)
        OBVIOUS
      <3>1. PICK j \in 1 .. n : x = ColumnContent(t, cols[j])
        BY <2>2
      <3>2. QED
        BY <2>1, <2>3, <3>1
    <2>5. QED
      BY <1>1, <1>3, <2>1, <2>2, <2>3, <2>4
  <1>10. QED
    BY <1>3, <1>5, <1>6, <1>7, <1>8, <1>9

\* The row of the old name ends, and the one of the new name reads as the column does then.
LEMMA RenameColumnReads ==
    ASSUME IInv, FInv, RInv, format # "none", NEW t \in DOMAIN lake.tables,
           NEW i \in DOMAIN lake.tables[t].columns, RenameColumn(t, i)
    PROVE  RInv'
  <1>1. PICK cols : cols = lake.tables[t].columns
    OBVIOUS
  <1> DEFINE id == cols[i].id
             old == CHOOSE col \in ColumnRows : col.table = t /\ col.id = id /\ col.end = Null
             renamed == [old EXCEPT !.name = now, !.begin = now]
             rows == {Closed(row, {old}) : row \in ColumnRows} \cup {renamed}
             renames == [cols EXCEPT ![i].name = now]
             versions == relation.ducklake_schema_versions \cup {NewVersion(t)}
             db == [relation EXCEPT !.ducklake_column = rows, !.ducklake_schema_versions = versions]
             after == [lake EXCEPT !.tables[t].columns[i].name = now, !.versions[t] = now]
  <1>2. Commit(db, after)
    BY <1>1 DEF RenameColumn, Ended, ColumnRows, Closed
  <1> HIDE DEF rows, versions
  <1>3. /\ DOMAIN lake = LakeFields /\ lake.next \in Nat /\ FileTables \subseteq DOMAIN relation
        /\ ReadTables \subseteq DOMAIN relation
        /\ \A u \in DOMAIN lake.tables : DOMAIN lake.tables[u] = {"tags", "columns"}
    BY FileShapes DEF RInv, RowsInv, ColumnsInv
  <1>4. /\ FileTables \subseteq DOMAIN db /\ DOMAIN db = DOMAIN relation
        /\ db.ducklake_column = rows
        /\ \A name \in DOMAIN relation \ {"ducklake_column", "ducklake_schema_versions"} :
              db[name] = relation[name]
    BY <1>3 DEF FileTables, ReadTables
  <1>5. /\ after.next = lake.next
        /\ \A field \in LakeFields \ {"tables", "versions"} : after[field] = lake[field]
        /\ DOMAIN after.tables = DOMAIN lake.tables
        /\ \A u \in DOMAIN lake.tables :
              /\ DOMAIN after.tables[u] = {"tags", "columns"}
              /\ after.tables[u].tags = lake.tables[u].tags
              /\ after.tables[u].columns = IF u = t THEN renames ELSE lake.tables[u].columns
    BY <1>1, <1>3 DEF LakeFields
  <1> HIDE DEF db, after
  <1>6. Commits /\ lake' = after /\ relation' = db
    BY <1>2, <1>3, <1>4, <1>5, SnapshotCommits
  <1>7. /\ RowsSame({"ducklake_column", "ducklake_schema_versions"})
        /\ LakeSame({"tables", "versions"}) /\ ColumnRows' = rows
    BY <1>4, <1>5, <1>6 DEF RowsSame, LakeSame, ColumnRows
  <1>8. /\ i \in 1 .. Len(cols) /\ IsColumns(cols) /\ Len(cols) >= 1 /\ DOMAIN cols = 1 .. Len(cols)
        /\ \A x : (x \in Seen(ColumnRows, now - 1) /\ x.table = t) <=> x \in ContentOfColumns(t, cols)
    BY <1>1, <1>6, ColumnsOfTable
  <1>9. /\ IsColumns(renames) /\ Len(renames) = Len(cols)
        /\ \A j \in 1 .. Len(cols) :
              /\ renames[j].id = cols[j].id /\ renames[j].parent = cols[j].parent
              /\ renames[j].tags = cols[j].tags
        /\ renames[i].name = now
        /\ \A x : x \in ContentOfColumns(t, cols) /\ x.id = id => x = ColumnContent(t, cols[i])
        /\ \A x : x \in ContentOfColumns(t, renames)
              <=> \/ x \in ContentOfColumns(t, cols) /\ x # ColumnContent(t, cols[i])
                  \/ x = ColumnContent(t, renames[i])
    <2>1. Renamed(renames, cols, i, now)
      BY DEF Renamed
    <2> HIDE DEF renames
    <2>2. QED
      BY <1>8, <2>1, RenamedColumns DEF id
  <1> HIDE DEF renames
  <1>10. \A col \in ColumnRows :
            /\ Content(col).table = col.table /\ Content(col).id = col.id
            /\ Content(col).parent = col.parent /\ Content(col).order = col.order
            /\ DOMAIN col = ColumnFields \cup {"begin", "end"}
    BY <1>6, ColumnsOfTable
  <1>11. /\ old \in ColumnRows /\ old.end = Null /\ Content(old) = ColumnContent(t, cols[i])
         /\ DOMAIN old = ColumnFields \cup {"begin", "end"}
    <2>1. PICK row \in ColumnRows : row.end = Null /\ Content(row) = ColumnContent(t, cols[i])
      BY <1>1, <1>6, <1>8, ColumnsOfTable
    <2>2. old \in ColumnRows /\ old.table = t /\ old.id = id /\ old.end = Null
      BY <1>10, <2>1 DEF ColumnContent
    <2> HIDE DEF old
    <2>3. Content(old) \in ContentOfColumns(t, cols) /\ Content(old).id = id
      <3>1. PICK j \in 1 .. Len(cols) : Content(old) = ColumnContent(t, cols[j])
        BY <1>1, <1>6, <2>2, ColumnsOfTable
      <3>2. QED
        BY <1>10, <2>2, <3>1 DEF ContentOfColumns
    <2>4. QED
      BY <1>9, <1>10, <2>2, <2>3
  <1> HIDE DEF old
  <1>12. /\ old.table = t /\ old.id = id /\ old.order = id /\ old.parent = cols[i].parent
    BY <1>10, <1>11 DEF ColumnContent
  <1>13. /\ DOMAIN renamed = ColumnFields \cup {"begin", "end"}
         /\ renamed.begin = now /\ renamed.end = Null /\ renamed.name = now
         /\ renamed.table = t /\ renamed.id = id /\ renamed.order = id
         /\ renamed.parent = cols[i].parent
    BY <1>11, <1>12 DEF ColumnFields
  <1> HIDE DEF renamed
  <1>14. Content(renamed) = ColumnContent(t, renames[i])
    <2>1. renames[i].id = id /\ renames[i].parent = cols[i].parent /\ renames[i].name = now
      BY <1>8, <1>9
    <2> HIDE DEF id
    <2>2. QED
      BY <1>13, <2>1 DEF Content, ColumnFields, ColumnContent
  <1>15. TagsStay(t, renames)
    BY <1>1, <1>8, <1>9 DEF TagsStay
  <1>16. lake'.tables[t].columns = renames
    BY <1>5, <1>6
  <1>17. \A k, column : MeansColumn(t, k, column) => MeansColumn(t, k, column)'
    BY <1>1, <1>5, <1>6, <1>9, <1>16 DEF LakeFields, Commits, MeansColumn, Means
  <1>18. Ends(ColumnRows, {old}, {Content(old)})
    BY <1>6, <1>11, ColumnsOfTable DEF Ends
  <1>19. Content(renamed).id = id /\ Content(renamed).table = t
    BY <1>8, <1>9, <1>14 DEF ColumnContent
  <1>20. \A x : (x \in Rest(ColumnRows, {Content(old)}, {renamed}) /\ x.table = t)
                   <=> x \in ContentOfColumns(t, renames)
    BY <1>8, <1>9, <1>11, <1>14, <1>19 DEF Rest
  <1>21. /\ id \in Nat
         /\ renamed.parent # Null => renamed.parent \in Nat /\ renamed.parent < renamed.id
    BY <1>6, <1>11, <1>12, <1>13, ReadFacts DEF Commits, ColumnsInv
  <1>22. /\ \A x \in {Content(old)} : x.table = t
         /\ \A row, other \in {renamed} : Content(row) = Content(other) => row = other
    BY <1>11 DEF ColumnContent
  <1>23. ColumnsWriting(t, {old}, {renamed}, {Content(old)}, id)
    <2>1. \A row \in {renamed} :
             /\ row.table = t /\ Content(row).table = t /\ row.id \in Nat /\ row.id <= id
             /\ row.parent # Null => row.parent \in Nat /\ row.parent < row.id
             /\ Content(row) \notin Seen(ColumnRows, now - 1) \ {Content(old)}
      <3> HIDE DEF id
      <3>1. QED
        BY <1>8, <1>9, <1>11, <1>13, <1>19, <1>21
    <2>2. QED
      BY <1>7, <1>13, <1>16, <1>18, <1>20, <1>22, <2>1 DEF Written, rows, ColumnsWriting
  <1>24. ColumnsChange(t)
    BY <1>5, <1>6, <1>7, <1>8, <1>9, <1>15, <1>16, <1>17 DEF ColumnsChange
  <1> HIDE DEF id
  <1>25. QED
    BY <1>6, <1>21, <1>23, <1>24, ColumnsOfOneTable

\* What is picked of the columns: those at the positions of I.
HasColumnsAt(picked, cols, I) ==
    /\ \A k \in 1 .. Len(picked) : \E i \in I : picked[k] = cols[i]
    /\ \A i \in I : \E k \in 1 .. Len(picked) : picked[k] = cols[i]

\* Columns in their order stay so where only some of them are picked.
LEMMA PickedColumns ==
    ASSUME NEW cols, IsColumns(cols), NEW I, I \subseteq 1 .. Len(cols)
    PROVE  /\ IsColumns(Picked(cols, I)) /\ HasColumnsAt(Picked(cols, I), cols, I)
           /\ I # {} => Len(Picked(cols, I)) >= 1
           /\ \A k \in 1 .. Len(cols) : 1 .. k \subseteq I =>
                 k \in 1 .. Len(Picked(cols, I)) /\ Picked(cols, I)[k] = cols[k]
  <1>1. PICK picked : picked = Picked(cols, I)
    OBVIOUS
  <1>2. PICK n \in Nat : n = Len(cols)
    BY DEF IsColumns
  <1>3. /\ I \in SUBSET (1 .. n)
        /\ \A i \in 1 .. n :
              /\ cols[i] = [id |-> cols[i].id, name |-> cols[i].name, parent |-> cols[i].parent,
                            tags |-> cols[i].tags]
              /\ cols[i].id \in Nat /\ (cols[i].parent # Null => cols[i].parent \in Nat)
        /\ \A i, j \in 1 .. n : i < j => Ordered(cols[i], cols[j])
        /\ \A i, j \in 1 .. n : cols[i].id = cols[j].id => i = j
    BY <1>2 DEF IsColumns
  <1>4. PICK e \in [1 .. Cardinality(I) -> I] :
              /\ Cardinality(I) \in Nat
              /\ \A i \in I : \E k \in 1 .. Cardinality(I) : e[k] = i
              /\ \A j, k \in 1 .. Cardinality(I) : j < k <=> e[j] < e[k]
              /\ \A s : Picked(s, I) = [k \in 1 .. Cardinality(I) |-> s[e[k]]]
    BY <1>3, PickedInOrder
  <1>5. PICK c \in Nat : c = Cardinality(I)
    BY <1>4
  <1>6. /\ e \in [1 .. c -> I]
        /\ \A i \in I : \E k \in 1 .. c : e[k] = i
        /\ \A j, k \in 1 .. c : j < k <=> e[j] < e[k]
        /\ picked = [k \in 1 .. c |-> cols[e[k]]]
    BY <1>1, <1>4, <1>5
  <1>7. /\ DOMAIN picked = 1 .. c
        /\ \A k \in 1 .. c : picked[k] = cols[e[k]] /\ e[k] \in I /\ e[k] \in 1 .. n
        /\ picked = [k \in 1 .. c |-> picked[k]]
    BY <1>3, <1>6
  <1>8. Len(picked) = c
    BY <1>7, LengthIs
  <1>9. ASSUME NEW k \in 1 .. c
        PROVE  /\ picked[k] = [id |-> picked[k].id, name |-> picked[k].name,
                                parent |-> picked[k].parent, tags |-> picked[k].tags]
               /\ picked[k].id \in Nat /\ (picked[k].parent # Null => picked[k].parent \in Nat)
    <2>1. PICK i \in 1 .. n : picked[k] = cols[i]
      BY <1>7
    <2>2. QED
      BY <1>3, <2>1
  <1>10. ASSUME NEW j \in 1 .. c, NEW k \in 1 .. c, picked[j].id = picked[k].id
         PROVE  j = k
    BY <1>3, <1>6, <1>7, <1>10
  <1>11. IsColumns(picked)
    BY <1>3, <1>6, <1>7, <1>8, <1>9, <1>10 DEF IsColumns
  <1>12. I # {} => c >= 1
    <2>1. \A k \in 1 .. c : c >= 1
      OBVIOUS
    <2>2. QED
      BY <1>6, <2>1
  <1>13. HasColumnsAt(picked, cols, I)
    <2>1. \A i \in I : \E k \in 1 .. c : picked[k] = cols[i]
      BY <1>6, <1>7
    <2>2. QED
      BY ONLY <1>7, <1>8, <2>1 DEF HasColumnsAt
  <1>14. ASSUME NEW m \in 1 .. n, 1 .. m \subseteq I
         PROVE  m \in 1 .. c /\ e[m] = m
    <2> DEFINE S == {k \in 1 .. m : ~(k \in 1 .. c /\ e[k] = k)}
    <2>1. ASSUME NEW k \in S, \A j \in S : k <= j
          PROVE  FALSE
      <3>1. PICK l \in 1 .. c : e[l] = k
        BY <1>6, <1>14
      <3>2. k <= l
        BY <2>1, <3>1
      <3>3. k \in 1 .. c /\ e[k] < k
        BY <1>3, <1>6, <3>1, <3>2
      <3>4. PICK j \in 1 .. n : j = e[k]
        BY <1>3, <1>6, <3>3
      <3>5. j < k /\ j \in 1 .. m /\ j \notin S
        BY <2>1, <3>3, <3>4
      <3>6. QED
        BY <1>6, <3>3, <3>4, <3>5
    <2>2. S \in SUBSET Nat
      OBVIOUS
    <2>3. S = {}
      BY <2>1, <2>2, HasLeast
    <2>4. QED
      BY <2>3
  <1>15. QED
    BY <1>1, <1>2, <1>7, <1>8, <1>11, <1>12, <1>13, <1>14

\* The rows of the column and of its fields end.
LEMMA DropColumnReads ==
    ASSUME IInv, FInv, RInv, format # "none", NEW t \in DOMAIN lake.tables,
           NEW i \in DOMAIN lake.tables[t].columns, DropColumn(t, i)
    PROVE  RInv'
  <1>1. PICK cols : cols = lake.tables[t].columns
    OBVIOUS
  <1> DEFINE id == cols[i].id
             H == {col \in ColumnRows : col.table = t /\ (col.id = id \/ col.parent = id)}
             gone == {x \in Seen(ColumnRows, now - 1) : x.table = t /\ (x.id = id \/ x.parent = id)}
             I == {j \in DOMAIN cols : ~(cols[j].id = id \/ cols[j].parent = id)}
             left == Picked(cols, I)
             rows == {Closed(row, H) : row \in ColumnRows}
             versions == relation.ducklake_schema_versions \cup {NewVersion(t)}
             db == [relation EXCEPT !.ducklake_column = rows, !.ducklake_schema_versions = versions]
             after == [lake EXCEPT !.tables[t].columns = left, !.versions[t] = now]
  <1>2. /\ Commit(db, after) /\ cols[i].parent = Null /\ Len(TopLevel(cols)) > 1
        /\ t \in DOMAIN lake.partitions => StaysInPlace(t, id)
    <2>1. /\ cols[i].parent = Null /\ Len(TopLevel(cols)) > 1
          /\ t \in DOMAIN lake.partitions => StaysInPlace(t, id)
      BY <1>1 DEF DropColumn
    <2>2. Commit(db, after)
      BY <1>1, ZenonT(30) DEF DropColumn, Ended, ColumnRows, Closed
    <2>3. QED
      BY <2>1, <2>2
  <1> HIDE DEF rows, versions, left
  <1>3. /\ DOMAIN lake = LakeFields /\ lake.next \in Nat /\ FileTables \subseteq DOMAIN relation
        /\ ReadTables \subseteq DOMAIN relation
        /\ \A u \in DOMAIN lake.tables : DOMAIN lake.tables[u] = {"tags", "columns"}
    BY FileShapes DEF RInv, RowsInv, ColumnsInv
  <1>4. /\ FileTables \subseteq DOMAIN db /\ DOMAIN db = DOMAIN relation
        /\ db.ducklake_column = rows
        /\ \A name \in DOMAIN relation \ {"ducklake_column", "ducklake_schema_versions"} :
              db[name] = relation[name]
    BY <1>3 DEF FileTables, ReadTables
  <1>5. /\ after.next = lake.next
        /\ \A field \in LakeFields \ {"tables", "versions"} : after[field] = lake[field]
        /\ DOMAIN after.tables = DOMAIN lake.tables
        /\ \A u \in DOMAIN lake.tables :
              /\ DOMAIN after.tables[u] = {"tags", "columns"}
              /\ after.tables[u].tags = lake.tables[u].tags
              /\ after.tables[u].columns = IF u = t THEN left ELSE lake.tables[u].columns
    BY <1>1, <1>3 DEF LakeFields
  <1> HIDE DEF db, after
  <1>6. Commits /\ lake' = after /\ relation' = db
    BY <1>2, <1>3, <1>4, <1>5, SnapshotCommits
  <1>7. /\ RowsSame({"ducklake_column", "ducklake_schema_versions"})
        /\ LakeSame({"tables", "versions"}) /\ ColumnRows' = rows
    BY <1>4, <1>5, <1>6 DEF RowsSame, LakeSame, ColumnRows
  <1>8. /\ i \in 1 .. Len(cols) /\ IsColumns(cols) /\ DOMAIN cols = 1 .. Len(cols)
        /\ \A x : (x \in Seen(ColumnRows, now - 1) /\ x.table = t) <=> x \in ContentOfColumns(t, cols)
    BY <1>1, <1>6, ColumnsOfTable
  <1>9. I # {}
    <2>1. PICK m \in 0 .. Len(cols) :
             /\ \A k \in 1 .. m : cols[k].parent = Null
             /\ \A k \in m + 1 .. Len(cols) : cols[k].parent # Null
             /\ TopLevel(cols) = [k \in 1 .. m |-> cols[k]]
      BY <1>8, TopLevelFirst DEF TopLevelUpTo
    <2>2. PICK n \in Nat : n = Len(cols)
      BY <1>8 DEF IsColumns
    <2>3. m \in Nat /\ m <= n /\ m > 1
      BY <1>2, <2>1, <2>2, LengthIs
    <2>4. PICK k \in 1 .. m : k # i
      BY <2>3
    <2>5. QED
      BY <1>8, <2>1, <2>2, <2>3, <2>4, NullAssumption DEF IsColumns
  <1>10. PICK n \in Nat : n = Len(cols)
    BY <1>8 DEF IsColumns
  <1>11. \A j : j \in I <=> j \in 1 .. n /\ ~(cols[j].id = id \/ cols[j].parent = id)
    BY <1>8, <1>10
  <1> HIDE DEF I
  <1>12. /\ IsColumns(left) /\ Len(left) >= 1
         /\ HasColumnsAt(left, cols, I)
         /\ \A k \in 1 .. Len(left) : \E j \in I : left[k] = cols[j]
         /\ \A j \in I : \E k \in 1 .. Len(left) : left[k] = cols[j]
         /\ \A k \in 1 .. n : 1 .. k \subseteq I => k \in 1 .. Len(left) /\ left[k] = cols[k]
    BY <1>8, <1>9, <1>10, <1>11, PickedColumns DEF left, HasColumnsAt
  <1>13. lake'.tables[t].columns = left
    BY <1>5, <1>6
  <1>14. TagsStay(t, left)
    BY <1>1, <1>10, <1>11, <1>12 DEF TagsStay
  <1>15. Ends(ColumnRows, H, gone)
    BY <1>6, ReadFacts, SnapshotsAfter, SeenLast, ColumnsOfTable DEF Commits, ColumnsInv, Ends
  <1>16. \A x : (x \in Rest(ColumnRows, gone, {}) /\ x.table = t) <=> x \in ContentOfColumns(t, left)
    <2>1. \A x : x \in Rest(ColumnRows, gone, {}) /\ x.table = t
                   <=> x \in ContentOfColumns(t, cols) /\ ~(x.id = id \/ x.parent = id)
      BY <1>8 DEF Rest
    <2>2. \A x : x \in ContentOfColumns(t, left) <=> \E j \in I : x = ColumnContent(t, cols[j])
      BY <1>12 DEF ContentOfColumns
    <2> HIDE DEF id, gone
    <2>3. \A x : x \in ContentOfColumns(t, cols) /\ ~(x.id = id \/ x.parent = id)
                   <=> \E j \in I : x = ColumnContent(t, cols[j])
      BY <1>10, <1>11 DEF ColumnContent, ContentOfColumns
    <2>4. QED
      BY <2>1, <2>2, <2>3
  <1>17. \A x \in gone : x.table = t
    OBVIOUS
  <1>18. ColumnsWriting(t, H, {}, gone, 0)
    <2> HIDE DEF id, gone, H
    <2>1. QED
      BY <1>7, <1>13, <1>15, <1>16, <1>17 DEF Written, rows, ColumnsWriting
  <1>19. ASSUME t \in DOMAIN lake.partitions, NEW k \in DOMAIN lake.partitions[t], NEW column,
                MeansColumn(t, k, column)
         PROVE  MeansColumn(t, k, column)'
    <2>1. lake'.partitions = lake.partitions /\ format' = format
      BY <1>5, <1>6 DEF LakeFields, Commits
    <2>2. CASE format = "0.3"
      <3>1. PICK j \in 1 .. n : /\ cols[j].parent = Null /\ cols[j].id = lake.partitions[t][k]
                                /\ column = j - 1
        BY <1>1, <1>10, <1>19, <2>2 DEF MeansColumn, Means
      <3>2. cols[j].id < id
        BY <1>2, <1>19, <2>2, <3>1 DEF StaysInPlace, ToSet
      <3>3. \A l \in 1 .. j : l \in I
        BY <1>2, <1>8, <1>10, <1>11, <3>1, <3>2, NullAssumption DEF IsColumns, Ordered
      <3>4. j \in 1 .. Len(left) /\ left[j] = cols[j]
        BY <1>12, <3>3
      <3>5. QED
        BY <1>13, <2>1, <2>2, <3>1, <3>4 DEF MeansColumn, Means
    <2>3. QED
      BY <1>19, <2>1, <2>2 DEF MeansColumn
  <1>20. ColumnsChange(t)
    BY <1>5, <1>6, <1>7, <1>12, <1>13, <1>14, <1>19 DEF LakeFields, Commits, ColumnsChange
  <1> HIDE DEF id, gone, H
  <1>21. QED
    BY <1>6, <1>18, <1>20, ColumnsOfOneTable

\* Two sequences one after the other.
HasLength(s, a) == s = [i \in 1 .. a |-> s[i]]
Follows(both, s, a, r, b) ==
    /\ \A i \in 1 .. a : both[i] = s[i]
    /\ \A i \in 1 .. b : both[a + i] = r[i]

\* The concatenation of two sequences is that.
LEMMA Concatenated ==
    ASSUME NEW a \in Nat, NEW b \in Nat, NEW s, NEW r, HasLength(s, a), HasLength(r, b)
    PROVE  HasLength(s \o r, a + b) /\ Follows(s \o r, s, a, r, b)
  <1>1. s = [i \in 1 .. a |-> s[i]] /\ r = [i \in 1 .. b |-> r[i]]
    BY DEF HasLength
  <1> DEFINE S == {s[i] : i \in 1 .. a} \cup {r[i] : i \in 1 .. b}
  <1>2. s \in Seq(S) /\ r \in Seq(S)
    <2>1. s \in [1 .. a -> S] /\ r \in [1 .. b -> S]
      BY <1>1
    <2> HIDE DEF S
    <2>2. QED
      BY <2>1
  <1>3. Len(s) = a /\ Len(r) = b
    BY <1>1, LengthIs
  <1> HIDE DEF S
  <1>4. s \o r = [i \in 1 .. a + b |-> IF i <= a THEN s[i] ELSE r[i - a]]
    BY <1>1, <1>2, <1>3
  <1> DEFINE both == s \o r
  <1> HIDE DEF both
  <1>5. /\ DOMAIN both = 1 .. a + b
        /\ both = [i \in 1 .. a + b |-> both[i]]
        /\ \A i \in 1 .. a + b : both[i] = IF i <= a THEN s[i] ELSE r[i - a]
    BY <1>4 DEF both
  <1>6. \A i \in 1 .. a : i \in 1 .. a + b /\ i <= a
    OBVIOUS
  <1>7. \A i \in 1 .. b : a + i \in 1 .. a + b /\ ~(a + i <= a) /\ (a + i) - a = i
    OBVIOUS
  <1>8. /\ \A i \in 1 .. a : both[i] = s[i]
        /\ \A i \in 1 .. b : both[a + i] = r[i]
    BY <1>5, <1>6, <1>7
  <1>9. QED
    BY <1>5, <1>8 DEF both, HasLength, Follows

\* The columns after one is added, and its field if it is a struct.
Added(cols, next, struct) ==
    TopLevel(cols) \o <<ColumnOf(next, Null)>> \o Nested(cols)
        \o IF struct THEN <<ColumnOf(next + 1, next)>> ELSE <<>>

\* Where they are: the column after the m of top level, its field last.
PlacedAt(added, cols, m, n, next, struct) ==
    /\ HasLength(added, n + 1 + IF struct THEN 1 ELSE 0)
    /\ \A k \in 1 .. m : added[k] = cols[k]
    /\ added[m + 1] = ColumnOf(next, Null)
    /\ \A k \in m + 1 .. n : added[k + 1] = cols[k]
    /\ struct => added[n + 2] = ColumnOf(next + 1, next)

\* Where AddColumn puts the columns there were and the new ones.
LEMMA AddedPlaces ==
    ASSUME NEW cols, IsColumns(cols), NEW next, NEW struct \in BOOLEAN
    PROVE  \E m \in Nat, n \in Nat :
              /\ n = Len(cols) /\ m <= n
              /\ \A i \in 1 .. m : cols[i].parent = Null
              /\ \A i \in m + 1 .. n : cols[i].parent # Null
              /\ PlacedAt(Added(cols, next, struct), cols, m, n, next, struct)
  <1>1. PICK n \in Nat : n = Len(cols)
    BY DEF IsColumns
  <1>2. PICK m \in 0 .. n : TopLevelUpTo(cols, n, m)
    BY <1>1, TopLevelFirst
  <1>3. /\ m \in 0 .. n
        /\ \A i \in 1 .. m : cols[i].parent = Null
        /\ \A i \in m + 1 .. n : cols[i].parent # Null
        /\ TopLevel(cols) = [k \in 1 .. m |-> cols[k]]
        /\ Nested(cols) = [k \in 1 .. n - m |-> cols[m + k]]
    BY <1>2 DEF TopLevelUpTo
  <1>4. PICK l \in Nat : l = n - m /\ m + l = n /\ m \in Nat
    <2>1. n \in Nat /\ m \in Nat /\ m <= n
      BY <1>1, <1>3
    <2>2. QED
      BY <2>1
  <1>5. PICK c, d, top, nested, new, field :
              /\ c = ColumnOf(next, Null) /\ d = ColumnOf(next + 1, next)
              /\ top = TopLevel(cols) /\ nested = Nested(cols)
              /\ new = <<c>> /\ field = IF struct THEN <<d>> ELSE <<>>
    OBVIOUS
  <1>6. PICK b \in Nat : b = IF struct THEN 1 ELSE 0
    OBVIOUS
  <1>7. /\ top = [k \in 1 .. m |-> top[k]] /\ \A k \in 1 .. m : top[k] = cols[k]
        /\ nested = [k \in 1 .. l |-> nested[k]] /\ \A k \in 1 .. l : nested[k] = cols[m + k]
        /\ new = [k \in 1 .. 1 |-> new[k]] /\ new[1] = c
        /\ field = [k \in 1 .. b |-> field[k]] /\ (struct => field[1] = d)
    BY <1>3, <1>4, <1>5, <1>6
  <1>8. HasLength(top, m) /\ HasLength(nested, l) /\ HasLength(new, 1) /\ HasLength(field, b)
    BY ONLY <1>7 DEF HasLength
  <1>9. PICK s1 : s1 = top \o new
    OBVIOUS
  <1>10. /\ HasLength(s1, m + 1)
         /\ \A k \in 1 .. m : s1[k] = top[k]
         /\ \A k \in 1 .. 1 : s1[m + k] = new[k]
    <2>1. HasLength(s1, m + 1) /\ Follows(s1, top, m, new, 1)
      BY <1>4, <1>8, <1>9, Concatenated
    <2>2. QED
      BY <2>1 DEF HasLength, Follows
  <1>11. PICK s2 : s2 = s1 \o nested
    OBVIOUS
  <1>12. /\ HasLength(s2, (m + 1) + l)
         /\ \A k \in 1 .. m + 1 : s2[k] = s1[k]
         /\ \A k \in 1 .. l : s2[(m + 1) + k] = nested[k]
    <2>1. HasLength(s2, (m + 1) + l) /\ Follows(s2, s1, m + 1, nested, l)
      BY <1>4, <1>8, <1>10, <1>11, Concatenated
    <2>2. QED
      BY <2>1 DEF HasLength, Follows
  <1>13. PICK s3 : s3 = s2 \o field
    OBVIOUS
  <1>14. /\ HasLength(s3, ((m + 1) + l) + b)
         /\ \A k \in 1 .. (m + 1) + l : s3[k] = s2[k]
         /\ \A k \in 1 .. b : s3[((m + 1) + l) + k] = field[k]
    <2>1. HasLength(s3, ((m + 1) + l) + b) /\ Follows(s3, s2, (m + 1) + l, field, b)
      BY <1>4, <1>8, <1>12, <1>13, Concatenated
    <2>2. QED
      BY <2>1 DEF HasLength, Follows
  <1>15. s3 = Added(cols, next, struct)
    BY <1>5, <1>9, <1>11, <1>13 DEF Added
  <1>16. PlacedAt(s3, cols, m, n, next, struct)
    <2>1. m \in Nat /\ (m + 1) + l = n + 1
      BY <1>1, <1>4
    <2>2. HasLength(s3, n + 1 + IF struct THEN 1 ELSE 0)
      BY <1>6, <1>14, <2>1
    <2>3. \A k \in 1 .. m : s3[k] = cols[k]
      <3>1. ASSUME NEW k \in 1 .. m
            PROVE  s3[k] = cols[k]
        <4>1. s3[k] = s2[k] /\ s2[k] = s1[k]
          BY <1>4, <1>12, <1>14
        <4>2. QED
          BY <1>7, <1>10, <4>1
      <3>2. QED
        BY <3>1
    <2>4. s3[m + 1] = c
      <3>1. m + 1 \in 1 .. m + 1 /\ m + 1 \in 1 .. (m + 1) + l /\ 1 \in 1 .. 1
        BY <1>4
      <3>2. QED
        BY <1>7, <1>10, <1>12, <1>14, <3>1
    <2>5. ASSUME NEW k \in m + 1 .. n
          PROVE  s3[k + 1] = cols[k]
      <3>1. m \in Nat /\ l \in Nat /\ n \in Nat /\ k \in Int /\ m + 1 <= k /\ k <= n /\ l = n - m
        BY <1>1, <1>4
      <3>2. k - m \in 1 .. l
        BY ONLY <3>1
      <3>3. nested[k - m] = cols[m + (k - m)]
        BY <1>7, <3>2
      <3>4. QED
        BY <1>12, <1>14, <3>1, <3>2, <3>3
    <2>6. struct => s3[n + 2] = d
      BY <1>1, <1>6, <1>7, <1>14, <2>1
    <2>7. QED
      BY <1>5, <2>2, <2>3, <2>4, <2>5, <2>6 DEF PlacedAt
  <1>17. m \in Nat /\ n \in Nat /\ m <= n
    BY <1>1, <1>4
  <1>18. QED
    BY <1>1, <1>3, <1>15, <1>16, <1>17

\* The columns that were, at the same place if of top level, and the added ones.
AddedTo(added, cols, next, struct) ==
    /\ \A k \in 1 .. Len(added) :
          \/ \E i \in 1 .. Len(cols) : added[k] = cols[i]
          \/ added[k] = ColumnOf(next, Null)
          \/ struct /\ added[k] = ColumnOf(next + 1, next)
    /\ \A i \in 1 .. Len(cols) : \E k \in 1 .. Len(added) :
          added[k] = cols[i] /\ (cols[i].parent = Null => k = i)
    /\ \E k \in 1 .. Len(added) : added[k] = ColumnOf(next, Null)
    /\ struct => \E k \in 1 .. Len(added) : added[k] = ColumnOf(next + 1, next)

\* Ids are below the next one.
IdsBelow(cols, next) ==
    \A i \in 1 .. Len(cols) :
       cols[i].id < next /\ (cols[i].parent # Null => cols[i].parent < next)

\* Which is the order of the statement again.
LEMMA AddedColumns ==
    ASSUME NEW cols, IsColumns(cols), NEW next \in Nat, NEW struct \in BOOLEAN,
           IdsBelow(cols, next)
    PROVE  /\ IsColumns(Added(cols, next, struct)) /\ Len(Added(cols, next, struct)) >= 1
           /\ AddedTo(Added(cols, next, struct), cols, next, struct)
  <1>1. PICK m \in Nat, n \in Nat :
              /\ n = Len(cols) /\ m <= n
              /\ \A i \in 1 .. m : cols[i].parent = Null
              /\ \A i \in m + 1 .. n : cols[i].parent # Null
              /\ PlacedAt(Added(cols, next, struct), cols, m, n, next, struct)
    BY AddedPlaces
  <1>2. PICK added : added = Added(cols, next, struct)
    OBVIOUS
  <1>3. PICK b \in Nat : b = n + 1 + IF struct THEN 1 ELSE 0
    OBVIOUS
  <1>4. /\ b >= n + 1 /\ b \in Nat /\ (struct => b = n + 2) /\ (~struct => b = n + 1)
        /\ m + 1 \in 1 .. b
        /\ \A k \in 1 .. m : k \in 1 .. b /\ k \in 1 .. n
        /\ \A k \in m + 1 .. n : k + 1 \in 1 .. b /\ k \in 1 .. n
    BY <1>1, <1>3
  <1>5. /\ DOMAIN added = 1 .. b /\ added = [k \in 1 .. b |-> added[k]]
        /\ \A k \in 1 .. m : added[k] = cols[k]
        /\ added[m + 1] = ColumnOf(next, Null)
        /\ \A k \in m + 1 .. n : added[k + 1] = cols[k]
        /\ struct => added[n + 2] = ColumnOf(next + 1, next)
    BY <1>1, <1>2, <1>3 DEF PlacedAt, HasLength
  <1>6. Len(added) = b
    BY <1>5, LengthIs
  <1>7. \A k \in 1 .. b :
           \/ k \in 1 .. m
           \/ k = m + 1
           \/ k - 1 \in m + 1 .. n /\ (k - 1) + 1 = k
           \/ struct /\ k = n + 2
    BY <1>1, <1>4
  <1>8. \A k \in 1 .. b :
           \/ k \in 1 .. m /\ k \in 1 .. n /\ added[k] = cols[k] /\ cols[k].parent = Null
           \/ k = m + 1 /\ added[k] = ColumnOf(next, Null)
           \/ /\ k - 1 \in m + 1 .. n /\ k - 1 \in 1 .. n /\ added[k] = cols[k - 1]
              /\ cols[k - 1].parent # Null
           \/ struct /\ k = n + 2 /\ added[k] = ColumnOf(next + 1, next)
    BY <1>1, <1>4, <1>5, <1>7
  <1>9. /\ \A i \in 1 .. n :
              /\ cols[i] = [id |-> cols[i].id, name |-> cols[i].name, parent |-> cols[i].parent,
                            tags |-> cols[i].tags]
              /\ cols[i].id \in Nat /\ (cols[i].parent # Null => cols[i].parent \in Nat)
              /\ cols[i].id < next /\ (cols[i].parent # Null => cols[i].parent < next)
        /\ \A i, j \in 1 .. n : i < j => Ordered(cols[i], cols[j])
        /\ \A i, j \in 1 .. n : cols[i].id = cols[j].id => i = j
    BY <1>1 DEF IsColumns, IdsBelow
  <1>10. PICK c, d : c = ColumnOf(next, Null) /\ d = ColumnOf(next + 1, next)
    OBVIOUS
  <1>11. /\ c.id = next /\ c.parent = Null /\ d.id = next + 1 /\ d.parent = next
         /\ c = [id |-> c.id, name |-> c.name, parent |-> c.parent, tags |-> c.tags]
         /\ d = [id |-> d.id, name |-> d.name, parent |-> d.parent, tags |-> d.tags]
    BY <1>10 DEF ColumnOf
  <1>12. next \in Nat /\ next + 1 \in Nat /\ next # Null
    BY NullAssumption
  <1>13. \A k \in 1 .. b :
            /\ added[k] = [id |-> added[k].id, name |-> added[k].name,
                           parent |-> added[k].parent, tags |-> added[k].tags]
            /\ added[k].id \in Nat /\ (added[k].parent # Null => added[k].parent \in Nat)
    BY <1>8, <1>9, <1>10, <1>12, <1>11
  <1>14. ASSUME NEW j \in 1 .. b, NEW k \in 1 .. b, j < k
         PROVE  Ordered(added[j], added[k])
    <2>1. /\ (k \in 1 .. m => j \in 1 .. m)
          /\ (k = m + 1 => j \in 1 .. m)
          /\ (k - 1 \in m + 1 .. n => j # n + 2)
          /\ k = n + 2 => j # n + 2
          /\ j - 1 < k - 1
      BY <1>1, <1>4, <1>14
    <2>2. CASE k \in 1 .. m
      BY <1>1, <1>5, <1>4, <1>9, <1>14, <2>1, <2>2
    <2>3. CASE k = m + 1
      <3>1. j \in 1 .. m /\ j \in 1 .. n /\ added[j] = cols[j] /\ cols[j].parent = Null
        BY <1>1, <1>4, <1>5, <2>1, <2>3
      <3>2. QED
        BY <1>5, <1>9, <1>10, <1>11, <2>3, <3>1 DEF Ordered
    <2>4. CASE k - 1 \in m + 1 .. n
      <3>1. k - 1 \in 1 .. n /\ added[k] = cols[k - 1] /\ cols[k - 1].parent # Null
        <4>1. added[(k - 1) + 1] = cols[k - 1]
          BY <1>5, <2>4
        <4>2. QED
          BY <1>1, <1>4, <2>4, <4>1
      <3>2. CASE added[j].parent = Null
        BY <3>1, <3>2 DEF Ordered
      <3>3. CASE added[j].parent # Null
        BY <1>8, <1>9, <1>10, <1>11, <2>1, <2>4, <3>1, <3>3
      <3>4. QED
        BY <3>2, <3>3
    <2>5. CASE struct /\ k = n + 2
      <3>1. added[k] = d /\ d.parent = next
        BY <1>5, <1>10, <1>11, <2>5
      <3>2. CASE added[j].parent = Null
        BY <1>12, <3>1, <3>2 DEF Ordered
      <3>3. CASE added[j].parent # Null
        <4>1. j - 1 \in 1 .. n /\ added[j] = cols[j - 1]
          BY <1>8, <1>10, <1>11, <2>1, <2>5, <3>3
        <4>2. QED
          BY <1>9, <1>12, <3>1, <3>3, <4>1 DEF Ordered
      <3>4. QED
        BY <3>2, <3>3
    <2>6. QED
      BY <1>7, <2>2, <2>3, <2>4, <2>5
  <1>15. ASSUME NEW j \in 1 .. b, NEW k \in 1 .. b, added[j].id = added[k].id
         PROVE  j = k
    <2>1. ASSUME NEW i \in 1 .. n
          PROVE  cols[i].id # next /\ cols[i].id # next + 1
      <3>1. cols[i].id \in Nat /\ cols[i].id < next
        BY <1>9
      <3>2. QED
        BY <1>12, <3>1
    <2>2. next # next + 1
      BY <1>12
    <2>3. \A p \in 1 .. b :
             \/ \E i \in 1 .. n :
                   added[p] = cols[i] /\ p = IF cols[i].parent = Null THEN i ELSE i + 1
             \/ p = m + 1 /\ added[p] = c
             \/ p = n + 2 /\ added[p] = d
      BY <1>4, <1>8, <1>10
    <2>4. CASE \E i \in 1 .. n :
                  added[j] = cols[i] /\ j = IF cols[i].parent = Null THEN i ELSE i + 1
      <3>1. PICK x \in 1 .. n :
                  added[j] = cols[x] /\ j = IF cols[x].parent = Null THEN x ELSE x + 1
        BY <2>4
      <3>2. PICK y \in 1 .. n :
                  added[k] = cols[y] /\ k = IF cols[y].parent = Null THEN y ELSE y + 1
        BY <1>11, <1>15, <2>1, <2>3, <3>1
      <3>3. QED
        BY <1>9, <1>15, <3>1, <3>2
    <2>5. CASE j = m + 1 /\ added[j] = c
      BY <1>11, <1>15, <2>1, <2>2, <2>3, <2>5
    <2>6. CASE j = n + 2 /\ added[j] = d
      BY <1>11, <1>15, <2>1, <2>2, <2>3, <2>6
    <2>7. QED
      BY <2>3, <2>4, <2>5, <2>6
  <1>16. IsColumns(added)
    BY <1>5, <1>6, <1>13, <1>14, <1>15, IsColumnsIf
  <1>17. \A i \in 1 .. n : \E k \in 1 .. b : added[k] = cols[i] /\ (cols[i].parent = Null => k = i)
    <2>1. \A i \in 1 .. n : i \in 1 .. m \/ i \in m + 1 .. n
      BY <1>1
    <2>2. QED
      BY <1>1, <1>4, <1>5, <2>1
  <1>18. struct => n + 2 \in 1 .. b
    BY <1>4
  <1>19. AddedTo(added, cols, next, struct)
    <2>1. Len(added) = b /\ Len(cols) = n
      BY <1>1, <1>6
    <2>2. \E k \in 1 .. b : added[k] = ColumnOf(next, Null)
      BY <1>4, <1>5
    <2>3. struct => \E k \in 1 .. b : added[k] = ColumnOf(next + 1, next)
      BY <1>5, <1>18
    <2>4. QED
      BY <1>8, <1>17, <2>1, <2>2, <2>3 DEF AddedTo
  <1>20. QED
    BY <1>2, <1>4, <1>6, <1>16, <1>19

\* The next id is above all that the table has had.
LEMMA AddColumnReads ==
    ASSUME IInv, FInv, RInv, format # "none", NEW t \in DOMAIN lake.tables,
           NEW struct \in BOOLEAN, AddColumn(t, struct)
    PROVE  RInv'
  <1>1. PICK cols, next :
           /\ cols = lake.tables[t].columns
           /\ next = 1 + Max({col.id : col \in {col \in ColumnRows : col.table = t}})
    OBVIOUS
  <1> DEFINE new == IF struct THEN {Column(t, next, Null), Column(t, next + 1, next)}
                              ELSE {Column(t, next, Null)}
             added == Added(cols, next, struct)
             rows == ColumnRows \cup new
             versions == relation.ducklake_schema_versions \cup {NewVersion(t)}
             db == [relation EXCEPT !.ducklake_column = rows, !.ducklake_schema_versions = versions]
             after == [lake EXCEPT !.tables[t].columns = added, !.versions[t] = now]
  <1>2. Commit(db, after)
    BY <1>1 DEF AddColumn, ColumnRows, Added
  <1> HIDE DEF versions, added, new
  <1>3. /\ DOMAIN lake = LakeFields /\ lake.next \in Nat /\ FileTables \subseteq DOMAIN relation
        /\ ReadTables \subseteq DOMAIN relation
        /\ \A u \in DOMAIN lake.tables : DOMAIN lake.tables[u] = {"tags", "columns"}
    BY FileShapes DEF RInv, RowsInv, ColumnsInv
  <1>4. /\ FileTables \subseteq DOMAIN db /\ DOMAIN db = DOMAIN relation
        /\ db.ducklake_column = rows
        /\ \A name \in DOMAIN relation \ {"ducklake_column", "ducklake_schema_versions"} :
              db[name] = relation[name]
    BY <1>3 DEF FileTables, ReadTables
  <1>5. /\ after.next = lake.next
        /\ \A field \in LakeFields \ {"tables", "versions"} : after[field] = lake[field]
        /\ DOMAIN after.tables = DOMAIN lake.tables
        /\ \A u \in DOMAIN lake.tables :
              /\ DOMAIN after.tables[u] = {"tags", "columns"}
              /\ after.tables[u].tags = lake.tables[u].tags
              /\ after.tables[u].columns = IF u = t THEN added ELSE lake.tables[u].columns
    BY <1>1, <1>3 DEF LakeFields
  <1> HIDE DEF db, after
  <1>6. Commits /\ lake' = after /\ relation' = db
    BY <1>2, <1>3, <1>4, <1>5, SnapshotCommits
  <1>7. /\ RowsSame({"ducklake_column", "ducklake_schema_versions"})
        /\ LakeSame({"tables", "versions"}) /\ ColumnRows' = rows
    BY <1>4, <1>5, <1>6 DEF RowsSame, LakeSame, ColumnRows
  <1>8. /\ IsColumns(cols) /\ Len(cols) >= 1 /\ DOMAIN cols = 1 .. Len(cols)
        /\ \A x : (x \in Seen(ColumnRows, now - 1) /\ x.table = t) <=> x \in ContentOfColumns(t, cols)
        /\ \A i \in 1 .. Len(cols) : \E row \in ColumnRows :
              row.end = Null /\ Content(row) = ColumnContent(t, cols[i])
    BY <1>1, <1>6, ColumnsOfTable
  <1>9. \A col \in ColumnRows :
           /\ Content(col).table = col.table /\ Content(col).id = col.id
           /\ Content(col).parent = col.parent
    BY <1>6, ColumnsOfTable
  <1>10. ColumnsInv
    BY <1>6, ReadFacts DEF Commits
  <1>11. next \in Nat /\ \A col \in ColumnRows : col.table = t => col.id < next
    <2> DEFINE S == {col.id : col \in {col \in ColumnRows : col.table = t}}
    <2>1. PICK n \in Nat : \A row \in ColumnRows : row.id <= n
      BY <1>10 DEF ColumnsInv
    <2>2. \A row \in ColumnRows : row.id \in Nat
      BY <1>10 DEF ColumnsInv
    <2>3. S \in SUBSET Nat /\ \A x \in S : x <= n
      BY <2>1, <2>2
    <2>4. S # {}
      <3>1. PICK row \in ColumnRows : Content(row) = ColumnContent(t, cols[1])
        BY <1>8 DEF IsColumns
      <3>2. QED
        BY <1>9, <3>1 DEF ColumnContent
    <2>5. \A col \in ColumnRows : col.table = t => col.id \in S
      OBVIOUS
    <2>6. next = 1 + Max(S)
      BY <1>1
    <2> HIDE DEF S
    <2>7. Max(S) \in S /\ \A y \in S : y <= Max(S)
      BY <2>1, <2>3, <2>4, HasGreatest
    <2>8. Max(S) \in Nat
      BY <2>3, <2>7
    <2>9. QED
      BY <2>2, <2>5, <2>6, <2>7, <2>8
  <1>12. ASSUME NEW i \in 1 .. Len(cols)
         PROVE  /\ cols[i].id < next /\ (cols[i].parent # Null => cols[i].parent < next)
                /\ cols[i].id \in Nat
    <2>1. PICK row \in ColumnRows : Content(row) = ColumnContent(t, cols[i])
      BY <1>8
    <2>2. QED
      BY <1>9, <1>10, <1>11, <2>1 DEF ColumnContent, ColumnsInv
  <1>13. IsColumns(added) /\ Len(added) >= 1 /\ AddedTo(added, cols, next, struct)
    BY <1>8, <1>11, <1>12, AddedColumns DEF IdsBelow, added
  <1>14. lake'.tables[t].columns = added
    BY <1>5, <1>6
  <1>15. TagsStay(t, added)
    <2> SUFFICES ASSUME NEW k \in 1 .. Len(added)
                 PROVE  \/ \E j \in 1 .. Len(cols) :
                              cols[j].id = added[k].id /\ cols[j].tags = added[k].tags
                        \/ /\ added[k].tags = {}
                           /\ ~ \E row \in ColumnRows : row.table = t /\ row.id = added[k].id
      BY <1>1 DEF TagsStay
    <2>1. CASE \E j \in 1 .. Len(cols) : added[k] = cols[j]
      BY <2>1
    <2>2. CASE added[k] = ColumnOf(next, Null) \/ added[k] = ColumnOf(next + 1, next)
      BY <1>10, <1>11, <2>2 DEF ColumnOf, ColumnsInv
    <2>3. QED
      BY <1>13, <2>1, <2>2 DEF AddedTo
  <1>16. \A k, column : MeansColumn(t, k, column) => MeansColumn(t, k, column)'
    <2>1. \A i \in 1 .. Len(cols) :
             cols[i].parent = Null => i \in 1 .. Len(added) /\ added[i] = cols[i]
      BY <1>13 DEF AddedTo
    <2>2. QED
      BY <1>1, <1>5, <1>6, <1>14, <2>1 DEF LakeFields, Commits, MeansColumn, Means
  <1>17. /\ \A row \in new :
               \/ row = Column(t, next, Null) /\ Content(row) = ColumnContent(t, ColumnOf(next, Null))
               \/ /\ struct /\ row = Column(t, next + 1, next)
                  /\ Content(row) = ColumnContent(t, ColumnOf(next + 1, next))
         /\ Column(t, next, Null) \in new
         /\ struct => Column(t, next + 1, next) \in new
    BY NewColumn DEF new
  <1>18. \A row \in new :
            /\ Content(row).table = t /\ row.table = t
            /\ DOMAIN row = ColumnFields \cup {"begin", "end"} /\ row.begin = now /\ row.end = Null
            /\ \/ row.id = next /\ row.parent = Null
               \/ row.id = next + 1 /\ row.parent = next
            /\ Content(row).id = row.id
    <2>1. ASSUME NEW id, NEW parent
          PROVE  /\ Content(Column(t, id, parent)).table = t /\ Column(t, id, parent).table = t
                 /\ DOMAIN Column(t, id, parent) = ColumnFields \cup {"begin", "end"}
                 /\ Column(t, id, parent).begin = now /\ Column(t, id, parent).end = Null
                 /\ Column(t, id, parent).id = id /\ Column(t, id, parent).parent = parent
                 /\ Content(Column(t, id, parent)).id = id
      BY NewColumn DEF ColumnContent, ColumnOf
    <2>2. ASSUME NEW row \in new
          PROVE  row = Column(t, next, Null) \/ row = Column(t, next + 1, next)
      BY <1>17
    <2> SUFFICES ASSUME NEW row \in new
                 PROVE  /\ Content(row).table = t /\ row.table = t
                        /\ DOMAIN row = ColumnFields \cup {"begin", "end"}
                        /\ row.begin = now /\ row.end = Null
                        /\ \/ row.id = next /\ row.parent = Null
                           \/ row.id = next + 1 /\ row.parent = next
                        /\ Content(row).id = row.id
      OBVIOUS
    <2>3. CASE row = Column(t, next, Null)
      BY <2>1, <2>3
    <2>4. CASE row = Column(t, next + 1, next)
      BY <2>1, <2>4
    <2>5. QED
      BY <2>2, <2>3, <2>4
  <1>19. \A row, other \in new : Content(row) = Content(other) => row = other
    BY <1>11, <1>17, <1>18, NewColumn
  <1>20. \A row \in new : Content(row) \notin Seen(ColumnRows, now - 1)
    BY <1>8, <1>11, <1>12, <1>18 DEF ContentOfColumns, ColumnContent
  <1>21. \A row \in new :
            /\ row.id \in Nat /\ row.id <= next + 1
            /\ row.parent # Null => row.parent \in Nat /\ row.parent < row.id
    BY <1>11, <1>18
  <1>22. \A x : (x \in Rest(ColumnRows, {}, new) /\ x.table = t) <=> x \in ContentOfColumns(t, added)
    <2>1. \A x : x \in ContentOfColumns(t, cols)
                   <=> \E i \in 1 .. Len(cols) : x = ColumnContent(t, cols[i])
      BY DEF ContentOfColumns
    <2>2. \A x : x \in ContentOfColumns(t, added)
                   <=> \E k \in 1 .. Len(added) : x = ColumnContent(t, added[k])
      BY DEF ContentOfColumns
    <2>3. ASSUME NEW x \in ContentOfColumns(t, added)
          PROVE  \/ x \in ContentOfColumns(t, cols)
                 \/ x = ColumnContent(t, ColumnOf(next, Null))
                 \/ struct /\ x = ColumnContent(t, ColumnOf(next + 1, next))
      <3>1. PICK k \in 1 .. Len(added) : x = ColumnContent(t, added[k])
        BY <2>2
      <3>2. QED
        BY <1>13, <2>1, <3>1 DEF AddedTo
    <2>4. \A x : (\/ x \in ContentOfColumns(t, cols)
                  \/ x = ColumnContent(t, ColumnOf(next, Null))
                  \/ struct /\ x = ColumnContent(t, ColumnOf(next + 1, next)))
                    => x \in ContentOfColumns(t, added)
      <3> SUFFICES ASSUME NEW x, \/ x \in ContentOfColumns(t, cols)
                                 \/ x = ColumnContent(t, ColumnOf(next, Null))
                                 \/ struct /\ x = ColumnContent(t, ColumnOf(next + 1, next))
                   PROVE  \E k \in 1 .. Len(added) : x = ColumnContent(t, added[k])
        BY <2>2
      <3>1. CASE x \in ContentOfColumns(t, cols)
        <4>1. PICK i \in 1 .. Len(cols) : x = ColumnContent(t, cols[i])
          BY <2>1, <3>1
        <4>2. QED
          BY <1>13, <4>1 DEF AddedTo
      <3>2. CASE x = ColumnContent(t, ColumnOf(next, Null))
        BY <1>13, <3>2 DEF AddedTo
      <3>3. CASE struct /\ x = ColumnContent(t, ColumnOf(next + 1, next))
        BY <1>13, <3>3 DEF AddedTo
      <3>4. QED
        BY <3>1, <3>2, <3>3
    <2>5. ASSUME NEW x
          PROVE  (x \in Rest(ColumnRows, {}, new) /\ x.table = t) <=> x \in ContentOfColumns(t, added)
      BY <1>8, <1>17, <1>18, <2>3, <2>4, NewColumn DEF Rest
    <2>6. QED
      BY <2>5
  <1>23. ColumnsWriting(t, {}, new, {}, next + 1)
    BY <1>7, <1>14, <1>18, <1>19, <1>20, <1>21, <1>22 DEF Closed, Written, Ends, ColumnsWriting
  <1>24. ColumnsChange(t)
    BY <1>5, <1>6, <1>7, <1>13, <1>14, <1>15, <1>16 DEF ColumnsChange
  <1>25. QED
    BY <1>6, <1>11, <1>23, <1>24, ColumnsOfOneTable

\* The columns that a table is made with.
LEMMA FirstColumns ==
    ASSUME NEW cols, cols = <<ColumnOf(1, Null), ColumnOf(2, Null)>>
    PROVE  /\ IsColumns(cols) /\ Len(cols) = 2
           /\ \A i \in 1 .. 2 : cols[i].tags = {}
           /\ \A t : ContentOfColumns(t, cols)
                        = {ColumnContent(t, ColumnOf(1, Null)), ColumnContent(t, ColumnOf(2, Null))}
  <1>1. PICK c, d : c = ColumnOf(1, Null) /\ d = ColumnOf(2, Null)
    OBVIOUS
  <1>2. /\ c.id = 1 /\ c.parent = Null /\ c.tags = {} /\ d.id = 2 /\ d.parent = Null /\ d.tags = {}
        /\ c = [id |-> c.id, name |-> c.name, parent |-> c.parent, tags |-> c.tags]
        /\ d = [id |-> d.id, name |-> d.name, parent |-> d.parent, tags |-> d.tags]
    BY <1>1 DEF ColumnOf
  <1>3. /\ Len(cols) = 2 /\ cols = [i \in 1 .. 2 |-> cols[i]] /\ cols[1] = c /\ cols[2] = d
        /\ \A i \in 1 .. 2 : i = 1 \/ i = 2
    BY <1>1
  <1>4. IsColumns(cols)
    <2>1. \A i \in 1 .. 2 :
             /\ cols[i] = [id |-> cols[i].id, name |-> cols[i].name, parent |-> cols[i].parent,
                           tags |-> cols[i].tags]
             /\ cols[i].id \in Nat /\ cols[i].parent = Null /\ cols[i].id = i
      BY <1>2, <1>3
    <2>2. \A i, j \in 1 .. 2 : i < j => Ordered(cols[i], cols[j])
      BY <2>1 DEF Ordered
    <2>3. \A i \in 1 .. 2 :
             cols[i] = [id |-> cols[i].id, name |-> cols[i].name, parent |-> cols[i].parent,
                        tags |-> cols[i].tags]
      BY <2>1
    <2>4. \A i \in 1 .. 2 : cols[i].id \in Nat /\ (cols[i].parent # Null => cols[i].parent \in Nat)
      BY <2>1
    <2>5. \A i, j \in 1 .. 2 : cols[i].id = cols[j].id => i = j
      BY <2>1
    <2>6. QED
      BY <1>3, <2>2, <2>3, <2>4, <2>5, IsColumnsIf
  <1>5. ASSUME NEW t
        PROVE  ContentOfColumns(t, cols) = {ColumnContent(t, c), ColumnContent(t, d)}
    BY <1>3 DEF ContentOfColumns
  <1>6. QED
    BY <1>1, <1>2, <1>3, <1>4, <1>5

\* Nothing has told of the id of a new table.
LEMMA CreateTableReads ==
    ASSUME IInv, FInv, RInv, CreateTable
    PROVE  RInv'
  <1>1. PICK t, cols : t = lake.next /\ cols = <<ColumnOf(1, Null), ColumnOf(2, Null)>>
    OBVIOUS
  <1> DEFINE new == {New([id |-> t])}
             news == {Column(t, 1, Null), Column(t, 2, Null)}
             versions == relation.ducklake_schema_versions \cup {NewVersion(t)}
             db == [relation EXCEPT !.ducklake_table = TableRows \cup new,
                                    !.ducklake_column = ColumnRows \cup news,
                                    !.ducklake_schema_versions = versions]
             after == [lake EXCEPT !.next = t + 1,
                                   !.tables = Put(@, t, [tags |-> {}, columns |-> cols]),
                                   !.versions = Put(@, t, now), !.inlined = Put(@, t, {})]
  <1>2. format # "none" /\ Commit(db, after)
    BY <1>1 DEF CreateTable, TableRows, ColumnRows
  <1> HIDE DEF versions, new, news
  <1>3. /\ DOMAIN lake = LakeFields /\ lake.next \in Nat /\ t \in Nat
        /\ FileTables \subseteq DOMAIN relation /\ ReadTables \subseteq DOMAIN relation
        /\ \A u \in DOMAIN lake.tables : u # t /\ DOMAIN lake.tables[u] = {"tags", "columns"}
    BY <1>1, <1>2, FileShapes DEF RInv, RowsInv, ColumnsInv, IInv, LakeInv
  <1>4. /\ FileTables \subseteq DOMAIN db /\ DOMAIN db = DOMAIN relation
        /\ db.ducklake_table = TableRows \cup new /\ db.ducklake_column = ColumnRows \cup news
        /\ \A name \in DOMAIN relation \ {"ducklake_table", "ducklake_column",
                                          "ducklake_schema_versions"} : db[name] = relation[name]
    BY <1>3 DEF FileTables, ReadTables
  <1>5. /\ after.next = t + 1
        /\ \A field \in LakeFields \ {"next", "tables", "versions", "inlined"} :
              after[field] = lake[field]
        /\ DOMAIN after.tables = DOMAIN lake.tables \cup {t}
        /\ \A u \in DOMAIN lake.tables : after.tables[u] = lake.tables[u]
        /\ after.tables[t] = [tags |-> {}, columns |-> cols]
    BY <1>3 DEF LakeFields, Put
  <1> HIDE DEF db, after
  <1>6. Commits /\ lake' = after /\ relation' = db
    BY <1>1, <1>2, <1>3, <1>4, <1>5, SnapshotCommits
  <1>7. /\ RowsSame({"ducklake_table", "ducklake_column", "ducklake_schema_versions"})
        /\ LakeSame({"next", "tables", "versions", "inlined"})
    BY <1>4, <1>5, <1>6 DEF RowsSame, LakeSame
  <1>8. /\ RowsInv /\ TablesInv /\ ViewsInv /\ ColumnsInv /\ TagsInv /\ ColumnTagsInv
        /\ PartitionInv /\ now \in Nat /\ 0 < now
        /\ TablesAgree(Seen(TableRows, now - 1), lake)
        /\ ColumnsAgree(Seen(ColumnRows, now - 1), lake)
    BY <1>2, <1>6, ReadFacts, SnapshotsAfter
  <1>9. /\ TableRows' = TableRows \cup new /\ ColumnRows' = ColumnRows \cup news
        /\ ViewRows' = ViewRows /\ TagRows' = TagRows /\ ColumnTagRows' = ColumnTagRows
        /\ PartitionRows' = PartitionRows
    BY <1>3, <1>4, <1>6
       DEF ReadTables, TableRows, ColumnRows, ViewRows, TagRows, ColumnTagRows, PartitionRows
  <1>10. /\ lake'.views = lake.views /\ lake'.partitions = lake.partitions /\ format' = format
         /\ DOMAIN lake'.tables = DOMAIN lake.tables \cup {t}
         /\ \A u \in DOMAIN lake.tables : lake'.tables[u] = lake.tables[u]
         /\ lake'.tables[t] = [tags |-> {}, columns |-> cols]
    BY <1>5, <1>6 DEF LakeFields, Commits
  <1>11. TablesInv'
    <2>1. /\ Content(New([id |-> t])) = [id |-> t]
          /\ DOMAIN New([id |-> t]) = IdField \cup {"begin", "end"}
          /\ New([id |-> t]).begin = now /\ New([id |-> t]).end = Null
      BY NewId
    <2>2. Written(TableRows, IdField, {}, new, TableRows')
      BY <1>9, <2>1 DEF Closed, Written, new
    <2>3. TablesAgree(Rest(TableRows, {}, new), lake')
      <3>1. \A v : v \in {x.id : x \in Rest(TableRows, {}, new)}
                     <=> v \in {x.id : x \in Seen(TableRows, now - 1)} \/ v = t
        <4>1. QED
          BY <2>1 DEF Rest, new
      <3>2. QED
        BY <1>8, <1>10, <3>1 DEF TablesAgree
    <2>4. QED
      BY <1>6, <1>8, <2>2, <2>3, TablesWritten DEF Ends
  <1>12. ViewsInv'
    BY <1>1, <1>6, <1>8, <1>9, <1>10, ViewsKept
  <1>13. TagsInv'
    BY <1>1, <1>6, <1>8, <1>9, <1>10, TagsKept
  <1>14. /\ IsColumns(cols) /\ Len(cols) = 2 /\ \A i \in 1 .. 2 : cols[i].tags = {}
         /\ \A x : x \in ContentOfColumns(t, cols)
                     <=> \/ x = ColumnContent(t, ColumnOf(1, Null))
                         \/ x = ColumnContent(t, ColumnOf(2, Null))
    BY <1>1, FirstColumns
  <1>15. \A row \in ColumnRows : row.table # t /\ Content(row).table = row.table
    BY <1>1, <1>3, <1>8 DEF ColumnsInv, Timed, Content, ColumnFields
  <1>16. \A x \in Seen(ColumnRows, now - 1) : x.table # t
    BY <1>15 DEF Seen
  <1>17. /\ Column(t, 1, Null) \in news /\ Column(t, 2, Null) \in news
         /\ \A row \in news : row = Column(t, 1, Null) \/ row = Column(t, 2, Null)
    BY DEF news
  <1>18. \A row \in news :
            /\ \/ row = Column(t, 1, Null) /\ Content(row) = ColumnContent(t, ColumnOf(1, Null))
                  /\ row.id = 1
               \/ row = Column(t, 2, Null) /\ Content(row) = ColumnContent(t, ColumnOf(2, Null))
                  /\ row.id = 2
            /\ Content(row).table = t /\ row.table = t /\ row.parent = Null
            /\ DOMAIN row = ColumnFields \cup {"begin", "end"} /\ row.begin = now /\ row.end = Null
    <2>1. \A id, parent :
             /\ Content(Column(t, id, parent)) = ColumnContent(t, ColumnOf(id, parent))
             /\ Content(Column(t, id, parent)).table = t
             /\ DOMAIN Column(t, id, parent) = ColumnFields \cup {"begin", "end"}
             /\ Column(t, id, parent).begin = now /\ Column(t, id, parent).end = Null
             /\ Column(t, id, parent).table = t /\ Column(t, id, parent).id = id
             /\ Column(t, id, parent).parent = parent
      BY NewColumn
    <2>2. TAKE row \in news
    <2>3. CASE row = Column(t, 1, Null)
      BY ONLY <2>1, <2>3
    <2>4. CASE row = Column(t, 2, Null)
      BY ONLY <2>1, <2>4
    <2>5. QED
      BY <1>17, <2>3, <2>4
  <1>19. Written(ColumnRows, ColumnFields, {}, news, ColumnRows')
    BY <1>9, <1>18 DEF Closed, Written
  <1>20. ColumnsInv'
    <2>1. Ends(ColumnRows, {}, {})
      BY DEF Ends
    <2>2. \A row, other \in news : Content(row) = Content(other) => row = other
      BY <1>18 DEF ColumnContent, ColumnOf
    <2>3. \A row \in news : Content(row) \notin Seen(ColumnRows, now - 1) \ {}
      BY <1>16, <1>18
    <2>4. \A row \in news :
             /\ row.table \in Nat /\ row.table < lake'.next /\ row.id \in Nat /\ row.id <= 2
             /\ row.parent # Null => row.parent \in Nat /\ row.parent < row.id
      BY <1>3, <1>5, <1>6, <1>18
    <2>5. \A u \in DOMAIN lake'.tables : DOMAIN lake'.tables[u] = {"tags", "columns"}
      BY <1>3, <1>10
    <2>6. ColumnsAgree(Rest(ColumnRows, {}, news), lake')
      <3>1. ASSUME NEW u \in DOMAIN lake.tables
            PROVE  /\ IsColumns(lake'.tables[u].columns) /\ Len(lake'.tables[u].columns) >= 1
                   /\ {x \in Rest(ColumnRows, {}, news) : x.table = u}
                         = ContentOfColumns(u, lake'.tables[u].columns)
        BY <1>3, <1>8, <1>10, <1>18 DEF Rest, ColumnsAgree
      <3>2. QED
        BY <1>10, <1>14, <1>16, <1>17, <1>18, <3>1, NewColumn DEF Rest, ColumnsAgree
    <2>7. 2 \in Nat
      OBVIOUS
    <2>8. QED
      BY <1>6, <1>8, <1>19, <2>1, <2>2, <2>3, <2>4, <2>5, <2>6, <2>7, ColumnsWritten
  <1>21. ColumnTagsInv'
    <2>1. ColumnsStay
      BY <1>8, <1>19, WrittenColumnsStay
    <2>2. TagsStay(t, lake'.tables[t].columns)
      <3>1. TagsStay(t, cols)
        BY <1>14, <1>15 DEF TagsStay
      <3>2. QED
        BY <1>10, <3>1
    <2>3. QED
      BY <1>6, <1>8, <1>9, <1>10, <2>1, <2>2, ColumnTagsKept DEF TagsStay
  <1>22. PartitionInv'
    <2>1. QED
      BY <1>1, <1>6, <1>8, <1>9, <1>10, PartitionsKept, CommitFacts DEF KeysInv, MeansColumn, Means
  <1>23. QED
    BY <1>6, <1>7, <1>8, <1>11, <1>12, <1>13, <1>20, <1>21, <1>22, PartsKept, RInvFromParts
       DEF MacroTables

\* A column with other tags: what is told of the columns is the same.
Tagged(tagged, cols, i, tags) == tagged = [cols EXCEPT ![i].tags = tags]

\* Only the tags of that column are others.
LEMMA TaggedColumns ==
    ASSUME NEW cols, IsColumns(cols), NEW i, i \in 1 .. Len(cols), NEW tags, NEW tagged,
           Tagged(tagged, cols, i, tags)
    PROVE  /\ IsColumns(tagged) /\ Len(tagged) = Len(cols)
           /\ \A j \in 1 .. Len(cols) :
                 /\ tagged[j].id = cols[j].id /\ tagged[j].parent = cols[j].parent
                 /\ j # i => tagged[j].tags = cols[j].tags
           /\ tagged[i].tags = tags
           /\ \A t : ContentOfColumns(t, tagged) = ContentOfColumns(t, cols)
  <1>1. /\ Len(cols) \in Nat
        /\ \A j \in 1 .. Len(cols) :
              cols[j] = [id |-> cols[j].id, name |-> cols[j].name, parent |-> cols[j].parent,
                         tags |-> cols[j].tags]
        /\ \A j, k \in 1 .. Len(cols) : cols[j].id = cols[k].id => j = k
        /\ cols = [j \in 1 .. Len(cols) |-> cols[j]]
    BY DEF IsColumns
  <1>2. [cols[i] EXCEPT !.tags = tags]
           = [id |-> cols[i].id, name |-> cols[i].name, parent |-> cols[i].parent, tags |-> tags]
    <2>1. PICK a, b, c, d : cols[i] = [id |-> a, name |-> b, parent |-> c, tags |-> d]
      BY <1>1
    <2>2. QED
      BY <2>1
  <1>3. PICK n \in Nat : n = Len(cols)
    BY <1>1
  <1>4. tagged = [j \in 1 .. n |-> IF j = i THEN [cols[i] EXCEPT !.tags = tags] ELSE cols[j]]
    BY <1>1, <1>3 DEF Tagged
  <1>5. Len(tagged) = n /\ tagged = [j \in 1 .. n |-> tagged[j]]
    BY <1>3, <1>4, LengthIs
  <1>6. /\ tagged[i] = [id |-> cols[i].id, name |-> cols[i].name, parent |-> cols[i].parent,
                        tags |-> tags]
        /\ \A j \in 1 .. n : j # i => tagged[j] = cols[j]
    BY <1>2, <1>3, <1>4
  <1>7. \A j \in 1 .. n :
           /\ tagged[j].id = cols[j].id /\ tagged[j].parent = cols[j].parent
           /\ tagged[j].name = cols[j].name
           /\ tagged[j] = [id |-> tagged[j].id, name |-> tagged[j].name,
                           parent |-> tagged[j].parent, tags |-> tagged[j].tags]
    BY <1>1, <1>3, <1>6
  <1>8. IsColumns(tagged)
    BY <1>1, <1>3, <1>5, <1>7, IsColumnsIf DEF IsColumns, Ordered
  <1>9. ASSUME NEW t
        PROVE  ContentOfColumns(t, tagged) = ContentOfColumns(t, cols)
    BY <1>3, <1>5, <1>7 DEF ColumnContent, ContentOfColumns
  <1>10. QED
    BY <1>3, <1>5, <1>6, <1>7, <1>8, <1>9

\* A comment on a column as it is written, and as it is read.
ColumnComment(t, id) == New([table |-> t, column |-> id, key |-> "comment", value |-> now])

\* It reads as what was told.
LEMMA NewColumnComment ==
    ASSUME NEW t, NEW id
    PROVE  /\ Content(ColumnComment(t, id))
                 = [table |-> t, column |-> id, key |-> "comment", value |-> now]
           /\ DOMAIN ColumnComment(t, id) = ColumnTagFields \cup {"begin", "end"}
           /\ ColumnComment(t, id).begin = now /\ ColumnComment(t, id).end = Null
           /\ ColumnComment(t, id).table = t /\ ColumnComment(t, id).column = id
  <1> DEFINE row == [table |-> t, column |-> id, key |-> "comment", value |-> now]
  <1> HIDE DEF row
  <1>1. QED
    BY ContentOfNew DEF ColumnComment, ColumnTagFields, row

\* The comment of a column before ends, and it is that column that has the new one.
LEMMA CommentOnColumnReads ==
    ASSUME IInv, FInv, RInv, format # "none", NEW t \in DOMAIN lake.tables,
           NEW i \in DOMAIN lake.tables[t].columns, CommentOnColumn(t, i)
    PROVE  RInv'
  <1>1. PICK cols, id : cols = lake.tables[t].columns /\ id = cols[i].id
    OBVIOUS
  <1> DEFINE H == {row \in ColumnTagRows : row.table = t /\ row.column = id}
             comment == ColumnComment(t, id)
             rows == {Closed(row, H) : row \in ColumnTagRows} \cup {comment}
             tagged == [cols EXCEPT ![i].tags = {<<"comment", now>>}]
             gone == {x \in Seen(ColumnTagRows, now - 1) : x.table = t /\ x.column = id}
             rest == Rest(ColumnTagRows, gone, {comment})
             db == [relation EXCEPT !.ducklake_column_tag = rows]
             after == [lake EXCEPT !.tables[t].columns[i].tags = {<<"comment", now>>}]
  <1>2. Commit(db, after)
    BY <1>1 DEF CommentOnColumn, Ended, ColumnTagRows, Closed, ColumnComment
  <1> HIDE DEF rows
  <1>3. /\ DOMAIN lake = LakeFields /\ lake.next \in Nat /\ FileTables \subseteq DOMAIN relation
        /\ ReadTables \subseteq DOMAIN relation
        /\ \A u \in DOMAIN lake.tables : DOMAIN lake.tables[u] = {"tags", "columns"}
    BY FileShapes DEF RInv, RowsInv, ColumnsInv
  <1>4. /\ FileTables \subseteq DOMAIN db /\ DOMAIN db = DOMAIN relation
        /\ db.ducklake_column_tag = rows
        /\ \A name \in DOMAIN relation \ {"ducklake_column_tag"} : db[name] = relation[name]
    BY <1>3 DEF FileTables, ReadTables
  <1>5. /\ after.next = lake.next
        /\ \A field \in LakeFields \ {"tables"} : after[field] = lake[field]
        /\ after.views = lake.views
        /\ DOMAIN after.tables = DOMAIN lake.tables
        /\ \A u \in DOMAIN lake.tables :
              /\ DOMAIN after.tables[u] = {"tags", "columns"}
              /\ after.tables[u].tags = lake.tables[u].tags
              /\ after.tables[u].columns = IF u = t THEN tagged ELSE lake.tables[u].columns
    BY <1>1, <1>3 DEF LakeFields
  <1> HIDE DEF db, after
  <1>6. Commits /\ lake' = after /\ relation' = db
    BY <1>2, <1>3, <1>4, <1>5, SnapshotCommits
  <1>7. RowsSame({"ducklake_column_tag"}) /\ LakeSame({"tables"}) /\ ColumnTagRows' = rows
    BY <1>4, <1>5, <1>6 DEF RowsSame, LakeSame, ColumnTagRows
  <1>8. /\ RowsInv /\ TablesInv /\ ViewsInv /\ ColumnsInv /\ ColumnTagsInv /\ PartitionInv /\ TagsInv
        /\ now \in Nat /\ 0 < now
        /\ ColumnsAgree(Seen(ColumnRows, now - 1), lake)
        /\ ColumnTagsAgree(Seen(ColumnTagRows, now - 1), lake)
    BY <1>2, <1>6, ReadFacts, SnapshotsAfter
  <1>9. /\ ColumnRows' = ColumnRows /\ TagRows' = TagRows /\ PartitionRows' = PartitionRows
        /\ TableRows' = TableRows /\ ViewRows' = ViewRows
    BY <1>3, <1>4, <1>6 DEF ReadTables, ColumnRows, TagRows, PartitionRows, TableRows, ViewRows
  <1>10. TablesInv' /\ ViewsInv' /\ TagsInv'
    BY <1>5, <1>6, <1>8, <1>9, TablesKept, ViewsKept, TagsKept
  <1>11. /\ i \in 1 .. Len(cols) /\ IsColumns(cols) /\ Len(cols) >= 1 /\ id \in Nat
         /\ \A k \in 1 .. Len(cols) : k # i => cols[k].id # id
    <2>1. IsColumns(cols) /\ Len(cols) >= 1 /\ i \in 1 .. Len(cols)
      BY <1>1, <1>6, ColumnsOfTable
    <2>2. QED
      BY <1>1, <2>1 DEF IsColumns
  <1>12. /\ IsColumns(tagged) /\ Len(tagged) = Len(cols)
         /\ \A k \in 1 .. Len(cols) :
               /\ tagged[k].id = cols[k].id /\ tagged[k].parent = cols[k].parent
               /\ k # i => tagged[k].tags = cols[k].tags
         /\ tagged[i].tags = {<<"comment", now>>}
         /\ ContentOfColumns(t, tagged) = ContentOfColumns(t, cols)
    <2>1. Tagged(tagged, cols, i, {<<"comment", now>>})
      BY DEF Tagged
    <2> HIDE DEF tagged
    <2>2. QED
      BY <1>11, <2>1, TaggedColumns
  <1> HIDE DEF tagged
  <1>13. /\ DOMAIN lake'.tables = DOMAIN lake.tables /\ lake'.tables[t].columns = tagged
         /\ \A u \in DOMAIN lake.tables :
               /\ DOMAIN lake'.tables[u] = {"tags", "columns"}
               /\ u # t => lake'.tables[u].columns = lake.tables[u].columns
    BY <1>5, <1>6
  <1>14. ColumnsInv'
    BY <1>1, <1>6, <1>8, <1>9, <1>11, <1>12, <1>13, ColumnsKept DEF ColumnsAgree
  <1>15. PartitionInv'
    <2>1. lake'.partitions = lake.partitions /\ format' = format
      BY <1>5, <1>6 DEF LakeFields, Commits
    <2>2. DOMAIN lake.partitions \subseteq DOMAIN lake.tables
      BY <1>6, CommitFacts DEF KeysInv
    <2>3. ASSUME NEW u \in DOMAIN lake.partitions, NEW k, NEW column, MeansColumn(u, k, column)
          PROVE  MeansColumn(u, k, column)'
      BY <1>1, <1>12, <1>13, <2>1, <2>2, <2>3 DEF MeansColumn, Means
    <2>4. QED
      BY <1>6, <1>8, <1>9, <1>13, <2>1, <2>3, PartitionsKept
  <1>16. ColumnTagsInv'
    <2>1. ColumnsStay
      BY <1>9 DEF ColumnsStay
    <2>2. Written(ColumnTagRows, ColumnTagFields, H, {comment}, ColumnTagRows')
      <3>1. /\ DOMAIN comment = ColumnTagFields \cup {"begin", "end"}
            /\ comment.begin = now /\ comment.end = Null
        BY NewColumnComment
      <3> HIDE DEF comment, H
      <3>2. QED
        BY <1>7, <3>1 DEF Written, rows
    <2>3. Ends(ColumnTagRows, H, gone)
      BY <1>8, SeenLast DEF Content, ColumnTagsInv, Timed, ColumnTagFields, Ends
    <2>4. \A row \in {comment} :
             \E col \in ColumnRows : col.table = row.table /\ col.id = row.column
      <3>1. PICK col \in ColumnRows : Content(col) = ColumnContent(t, cols[i])
        BY <1>1, <1>6, <1>11, ColumnsOfTable
      <3>2. QED
        BY <1>1, <1>6, <3>1, NewColumnComment, ColumnsOfTable DEF ColumnContent
    <2>5. Content(comment) = [table |-> t, column |-> id, key |-> "comment", value |-> now]
      BY NewColumnComment
    <2>6. \A x : x \in rest
                    <=> \/ x \in Seen(ColumnTagRows, now - 1) /\ ~ (x.table = t /\ x.column = id)
                        \/ x = Content(comment)
      BY DEF Rest
    <2> HIDE DEF rest, gone, comment, H
    <2>7. ASSUME NEW u, NEW column, ~ (u = t /\ column = id)
          PROVE  ColumnTagsOf(rest, u, column) = ColumnTagsOf(Seen(ColumnTagRows, now - 1), u, column)
      BY <2>5, <2>6, <2>7 DEF ColumnTagsOf
    <2>8. ColumnTagsAgree(rest, lake')
      <3> SUFFICES ASSUME NEW u \in DOMAIN lake.tables, NEW k \in 1 .. Len(lake'.tables[u].columns)
                   PROVE  lake'.tables[u].columns[k].tags
                             = ColumnTagsOf(rest, u, lake'.tables[u].columns[k].id)
        BY <1>13 DEF ColumnTagsAgree
      <3>1. CASE u = t /\ k = i
        BY <1>1, <1>11, <1>12, <1>13, <2>5, <2>6, <3>1 DEF ColumnTagsOf
      <3>2. CASE u = t /\ k # i
        <4>1. k \in 1 .. Len(cols) /\ tagged[k].tags = cols[k].tags /\ tagged[k].id = cols[k].id
              /\ cols[k].id # id
          BY <1>11, <1>12, <1>13, <3>2
        <4>2. QED
          BY <1>1, <1>8, <1>13, <2>7, <3>2, <4>1 DEF ColumnTagsAgree
      <3>3. CASE u # t
        BY <1>8, <1>13, <2>7, <3>3 DEF ColumnTagsAgree
      <3>4. QED
        BY <3>1, <3>2, <3>3
    <2>9. QED
      BY <1>6, <1>8, <2>1, <2>2, <2>3, <2>4, <2>8, ColumnTagsWritten DEF rest
  <1>17. QED
    BY <1>6, <1>7, <1>8, <1>10, <1>14, <1>15, <1>16, PartsKept, RInvFromParts DEF MacroTables

-----------------------------------------------------------------------------
(* Partitions                                                              *)

\* The position of a top-level column is that among all columns, which it is before.
LEMMA PositionIs ==
    ASSUME NEW t, NEW cols, cols = lake.tables[t].columns, IsColumns(cols),
           NEW m \in 0 .. Len(cols), TopLevelUpTo(cols, Len(cols), m), NEW i \in 1 .. m
    PROVE  PositionOf(t, cols[i].id) = i - 1
  <1>1. PICK top : top = TopLevel(cols)
    OBVIOUS
  <1> DEFINE I == {k \in 1 .. Len(top) : top[k].id = cols[i].id}
  <1>2. Len(cols) \in Nat /\ m \in Nat /\ top = [k \in 1 .. m |-> cols[k]]
    <2>1. Len(cols) \in Nat
      BY DEF IsColumns
    <2>2. top = [k \in 1 .. m |-> cols[k]]
      BY <1>1 DEF TopLevelUpTo
    <2>3. QED
      BY <2>1, <2>2
  <1>3. \A k \in 1 .. m : k \in 1 .. Len(cols) /\ top[k] = cols[k]
    BY <1>2
  <1>4. I = {i}
    <2>1. \A k \in 1 .. m : cols[k].id = cols[i].id => k = i
      BY <1>3 DEF IsColumns
    <2>2. QED
      BY <1>2, <1>3, <2>1, LengthIs
  <1>5. PositionOf(t, cols[i].id) = (IF I # {} THEN Min(I) ELSE 0) - 1
    BY <1>1 DEF PositionOf, SelectInSeq
  <1> HIDE DEF I
  <1>6. QED
    BY <1>4, <1>5 DEF Min

\* What can be chosen as partition columns: the ids of columns of the top level.
OfTopLevel(columns, t) ==
    /\ columns = [i \in 1 .. Len(columns) |-> columns[i]]
    /\ \A i \in 1 .. Len(columns) :
          columns[i] \in {col.id : col \in ToSet(TopLevel(lake.tables[t].columns))}

\* The rows of a partition tell of the columns that it was set to.
LEMMA SetPartitionReads ==
    ASSUME IInv, FInv, RInv, format # "none", NEW t \in DOMAIN lake.tables, NEW columns,
           OfTopLevel(columns, t), SetPartition(t, columns)
    PROVE  RInv'
  <1>1. PICK cols : cols = lake.tables[t].columns
    OBVIOUS
  <1> DEFINE told(i) == IF format = "0.3" THEN PositionOf(t, columns[i]) ELSE columns[i]
             new == {[table |-> t, index |-> i, column |-> told(i)] : i \in DOMAIN columns}
             rows == PartitionRows \cup new
             db == [relation EXCEPT !.ducklake_partition_column = rows]
             after == [lake EXCEPT !.partitions = Put(@, t, columns)]
  <1>2. Commit(db, after) /\ t \notin DOMAIN lake.partitions
    BY DEF SetPartition, PartitionRows
  <1> HIDE DEF rows
  <1>3. /\ DOMAIN lake = LakeFields /\ lake.next \in Nat /\ FileTables \subseteq DOMAIN relation
        /\ ReadTables \subseteq DOMAIN relation
        /\ t \in Nat /\ t < lake.next
    BY FileShapes DEF IInv, LakeInv, RInv, RowsInv
  <1>4. /\ FileTables \subseteq DOMAIN db /\ DOMAIN db = DOMAIN relation
        /\ db.ducklake_partition_column = rows
        /\ \A name \in DOMAIN relation \ {"ducklake_partition_column"} : db[name] = relation[name]
    BY <1>3 DEF FileTables, ReadTables
  <1>5. /\ after.next = lake.next /\ after.tables = lake.tables
        /\ after.partitions = Put(lake.partitions, t, columns)
        /\ \A field \in LakeFields \ {"partitions"} : after[field] = lake[field]
    BY <1>3 DEF LakeFields
  <1> HIDE DEF db, after
  <1>6. Commits /\ lake' = after /\ relation' = db
    BY <1>2, <1>3, <1>4, <1>5, SnapshotCommits
  <1>7. RowsSame({"ducklake_partition_column"}) /\ LakeSame({"partitions"}) /\ PartitionRows' = rows
    BY <1>4, <1>5, <1>6 DEF RowsSame, LakeSame, PartitionRows
  <1>8. RowsInv /\ PartitionInv
    BY <1>6, ReadFacts DEF Commits
  <1>9. /\ lake'.next = lake.next /\ lake'.tables = lake.tables /\ format' = format
        /\ DOMAIN lake'.partitions = DOMAIN lake.partitions \cup {t}
        /\ lake'.partitions[t] = columns
        /\ \A u \in DOMAIN lake.partitions : u # t /\ lake'.partitions[u] = lake.partitions[u]
    BY <1>2, <1>5, <1>6 DEF Put, Commits
  <1>10. \A i \in DOMAIN columns : \A column : column = told(i) => MeansColumn(t, i, column)'
    <2>1. PICK m \in 0 .. Len(cols) : TopLevelUpTo(cols, Len(cols), m)
      BY <1>1, <1>6, ColumnsOfTable, TopLevelFirst
    <2> SUFFICES ASSUME NEW i \in DOMAIN columns, NEW column, column = told(i)
                 PROVE  MeansColumn(t, i, column)'
      OBVIOUS
    <2>2. IsColumns(cols) /\ Len(cols) \in Nat
      <3>1. IsColumns(cols)
        BY <1>1, <1>6, ColumnsOfTable
      <3>2. QED
        BY <3>1 DEF IsColumns
    <2>3. PICK k \in 1 .. m : columns[i] = cols[k].id /\ cols[k].parent = Null
      <3>1. PICK col \in ToSet(TopLevel(cols)) : columns[i] = col.id
        BY <1>1 DEF OfTopLevel
      <3>2. PICK k \in 1 .. m : col = cols[k]
        BY <2>1, <3>1 DEF ToSet, TopLevelUpTo
      <3>3. QED
        BY <2>1, <3>1, <3>2 DEF TopLevelUpTo
    <2>4. column = IF format = "0.3" THEN k - 1 ELSE cols[k].id
      BY <1>1, <2>1, <2>2, <2>3, PositionIs
    <2> HIDE DEF told
    <2>5. QED
      BY <1>1, <1>9, <2>2, <2>3, <2>4 DEF Means, MeansColumn
  <1>11. \A row \in new :
            /\ DOMAIN row = {"table", "index", "column"} /\ row.table = t
            /\ row.index \in DOMAIN columns /\ row.column = told(row.index)
    OBVIOUS
  <1>12. \A i \in DOMAIN columns : \E row \in new : row.index = i
    <2> SUFFICES ASSUME NEW i \in DOMAIN columns
                 PROVE  \E row \in new : row.index = i
      OBVIOUS
    <2>1. PICK row : row = [table |-> t, index |-> i, column |-> told(i)]
      OBVIOUS
    <2>2. QED
      BY <2>1
  <1> HIDE DEF new
  <1>13. /\ PartitionRowsOf(t)' = new
         /\ \A u \in DOMAIN lake.partitions : PartitionRowsOf(u)' = PartitionRowsOf(u)
    BY <1>2, <1>7, <1>8, <1>9, <1>11 DEF PartitionInv, PartitionRowsOf, rows
  <1> HIDE DEF told
  <1>14. PartitionInv'
    <2>1. ASSUME NEW u \in DOMAIN lake'.partitions, NEW row \in PartitionRowsOf(u)'
          PROVE  row.index \in DOMAIN lake'.partitions[u] /\ MeansColumn(u, row.index, row.column)'
      <3>1. CASE u = t
        BY <1>9, <1>10, <1>11, <1>13, <3>1
      <3>2. CASE u # t
        <4>1. /\ u \in DOMAIN lake.partitions /\ row \in PartitionRowsOf(u)
              /\ lake'.partitions[u] = lake.partitions[u]
          BY <1>9, <1>13, <3>2
        <4>2. row.index \in DOMAIN lake.partitions[u] /\ MeansColumn(u, row.index, row.column)
          BY <1>8, <4>1 DEF PartitionInv
        <4>3. QED
          BY <1>9, <4>1, <4>2 DEF MeansColumn, Means
      <3>3. QED
        BY <3>1, <3>2
    <2>2. \A u \in DOMAIN lake'.partitions : \A i \in DOMAIN lake'.partitions[u] :
             \E row \in PartitionRowsOf(u)' : row.index = i
      BY <1>8, <1>9, <1>12, <1>13 DEF PartitionInv
    <2>3. QED
      BY <1>3, <1>7, <1>8, <1>9, <1>11, <2>1, <2>2 DEF PartitionInv, rows
  <1>15. QED
    BY <1>6, <1>7, <1>8, <1>14, PartsKept, RInvFromParts DEF MacroTables

-----------------------------------------------------------------------------
(* Steps without a snapshot                                                *)

\* Where no snapshot is made and these relations stay, they read as before.
LEMMA NoSnapshotParts ==
    ASSUME RowsInv, history' = history,
           (ReadTables \cup FileTables) \subseteq DOMAIN relation,
           (ReadTables \cup FileTables) \subseteq DOMAIN relation',
           \A name \in (ReadTables \cup FileTables) \ {"ducklake_partition_column"} :
              relation'[name] = relation[name]
    PROVE  /\ lake' = lake /\ now' = now /\ Snapshots' = Snapshots /\ \A s : At(s)' = At(s)
           /\ TablesInv' /\ ViewsInv' /\ ColumnsInv' /\ TagsInv' /\ ColumnTagsInv'
           /\ FileSizesInv' /\ DeleteSizesInv'
           /\ ColumnRows' = ColumnRows
  <1>1. lake' = lake /\ now' = now /\ Snapshots' = Snapshots /\ \A s : At(s)' = At(s)
    BY DEF lake, now, Snapshots, At, Last
  <1>2. /\ TableRows' = TableRows /\ ColumnRows' = ColumnRows /\ TagRows' = TagRows
        /\ ColumnTagRows' = ColumnTagRows /\ ViewRows' = ViewRows
        /\ DataFiles' = DataFiles /\ DeleteFiles' = DeleteFiles
    BY DEF ReadTables, FileTables, TableRows, ColumnRows, TagRows, ColumnTagRows, ViewRows,
           DataFiles, DeleteFiles
  <1>3. TablesInv'
    BY <1>1, <1>2 DEF RowsInv, TablesInv
  <1>4. ViewsInv'
    BY <1>1, <1>2 DEF RowsInv, ViewsInv
  <1>5. ColumnsInv'
    BY <1>1, <1>2 DEF RowsInv, ColumnsInv
  <1>6. TagsInv'
    BY <1>1, <1>2 DEF RowsInv, TagsInv
  <1>7. ColumnTagsInv'
    BY <1>1, <1>2 DEF RowsInv, ColumnTagsInv
  <1>8. FileSizesInv'
    BY <1>1, <1>2 DEF RowsInv, FileSizesInv
  <1>9. DeleteSizesInv'
    BY <1>1, <1>2 DEF RowsInv, DeleteSizesInv
  <1>10. QED
    BY <1>1, <1>2, <1>3, <1>4, <1>5, <1>6, <1>7, <1>8, <1>9

\* A cleanup of inlined tables, or nothing at all, changes nothing that is read here.
LEMMA NothingReadChanges ==
    ASSUME IInv, FInv, RInv, format # "none", history' = history, format' = format,
           DOMAIN relation' = DOMAIN relation,
           \A name \in DOMAIN relation \ {"ducklake_inlined_data_tables"} :
              relation'[name] = relation[name]
    PROVE  RInv'
  <1>1. RowsInv /\ ReadTables \subseteq DOMAIN relation /\ MacrosInv /\ PartitionInv
    BY ReadFacts
  <1>2. /\ (ReadTables \cup FileTables) \subseteq DOMAIN relation
        /\ \A name \in ReadTables \cup FileTables : relation'[name] = relation[name]
    BY <1>1, FileShapes DEF ReadTables, FileTables
  <1>3. /\ lake' = lake /\ now' = now /\ Snapshots' = Snapshots /\ \A s : At(s)' = At(s)
        /\ TablesInv' /\ ViewsInv' /\ ColumnsInv' /\ TagsInv' /\ ColumnTagsInv'
        /\ FileSizesInv' /\ DeleteSizesInv'
    BY <1>1, <1>2, NoSnapshotParts
  <1>4. MacroRows' = MacroRows /\ MacroImpls' = MacroImpls /\ MacroParameters' = MacroParameters
    BY DEF Rows, TableExists, MacroTables, MacroRows, MacroImpls, MacroParameters
  <1>5. PartitionInv'
    BY <1>1, <1>2, <1>3 DEF PartitionRows, ReadTables, PartitionInv, PartitionRowsOf, MeansColumn,
       Means
  <1>6. QED
    BY <1>1, <1>3, <1>4, <1>5 DEF MacrosInv, RInv, RowsInv

\* A catalog that is created reads as an empty lake.
LEMMA BootstrapReads ==
    ASSUME RInv, NEW version \in {"0.3", "1.0"}, Bootstrap(version)
    PROVE  RInv'
  <1>1. format' = version /\ lake = EmptyLake /\ now = 1 /\ history' = history
    BY DEF Bootstrap, RInv
  <1>2. /\ lake' = EmptyLake /\ now' = 1 /\ Snapshots' = {0} /\ At(0)' = EmptyLake
    <2>1. lake' = EmptyLake /\ now' = 1 /\ history'[1] = EmptyLake
      BY <1>1 DEF lake, now, Last
    <2>2. QED
      BY <2>1 DEF Snapshots, At
  <1>3. /\ ReadTables \subseteq DOMAIN relation'
        /\ TableRows' = {} /\ ColumnRows' = {} /\ TagRows' = {} /\ ColumnTagRows' = {}
        /\ ViewRows' = {} /\ PartitionRows' = {} /\ DataFiles' = {} /\ DeleteFiles' = {}
    BY DEF Bootstrap, MetadataTables, ReadTables, TableRows, ColumnRows, TagRows, ColumnTagRows,
           ViewRows, PartitionRows, DataFiles, DeleteFiles
  <1>4. /\ MacroRows' = {} /\ MacroImpls' = {} /\ MacroParameters' = {}
        /\ version = "0.3" => MacroTables \cap DOMAIN relation' = {}
        /\ version = "1.0" => MacroTables \subseteq DOMAIN relation'
    BY DEF Bootstrap, MetadataTables, MacroTables, MacroRows, MacroImpls, MacroParameters, Rows,
           TableExists
  <1>5. \A s : Seen({}, s) = {}
    BY DEF Seen
  <1>6. TablesInv' /\ ViewsInv' /\ TagsInv' /\ ColumnTagsInv'
    BY <1>2, <1>3, <1>5
       DEF TablesInv, ViewsInv, TagsInv, ColumnTagsInv, Timed, TablesAgree, ViewsAgree, TagsAgree,
           ColumnTagsAgree, EmptyLake
  <1>7. ColumnsInv'
    BY <1>2, <1>3, <1>5 DEF ColumnsInv, Timed, ColumnsAgree, Distinct, EmptyLake
  <1>8. MacrosInv'
    BY <1>1, <1>2, <1>4, <1>5 DEF MacrosInv, Timed, MacrosAgree, EmptyLake
  <1>9. FileSizesInv' /\ DeleteSizesInv'
    BY <1>2, <1>3, <1>5
       DEF FileSizesInv, DeleteSizesInv, Timed, FileSizesAgree, DeleteSizesAgree, EmptyLake
  <1>10. QED
    BY <1>1, <1>2, <1>3, <1>6, <1>7, <1>8, <1>9 DEF PartitionInv, EmptyLake, RInv, RowsInv

\* The column at a position is the one that the position is told for.
LEMMA ColumnAtPosition ==
    ASSUME IInv, FInv, RInv, format # "none", NEW t \in DOMAIN lake.tables, NEW cols,
           cols = lake.tables[t].columns, NEW k \in 1 .. Len(cols), cols[k].parent = Null
    PROVE  ColumnAt(relation, t, k - 1) = cols[k].id
  <1>1. /\ ColumnsInv /\ Distinct(ColumnRows, now - 1)
        /\ ColumnsAgree(Seen(ColumnRows, now - 1), lake)
        /\ now \in Nat /\ 0 < now
    BY ReadFacts, LastSnapshot DEF IInv
  <1>2. /\ IsColumns(cols) /\ Len(cols) \in Nat
        /\ \A x : x \in Seen(ColumnRows, now - 1) /\ x.table = t <=> x \in ContentOfColumns(t, cols)
    <2>1. {x \in Seen(ColumnRows, now - 1) : x.table = t} = ContentOfColumns(t, cols)
      BY <1>1 DEF ColumnsAgree
    <2>2. QED
      BY <1>1, <2>1 DEF ColumnsAgree, IsColumns
  <1>3. PICK m \in 0 .. Len(cols) : TopLevelUpTo(cols, Len(cols), m)
    BY <1>2, TopLevelFirst
  <1>4. /\ m \in Nat /\ \A j \in 1 .. m : j \in 1 .. Len(cols) /\ cols[j].parent = Null
        /\ \A j \in 1 .. Len(cols) : cols[j].parent = Null => j \in 1 .. m
    BY <1>2, <1>3 DEF TopLevelUpTo
  <1>5. \A row \in ColumnRows :
           /\ Content(row).table = row.table /\ Content(row).id = row.id
           /\ Content(row).parent = row.parent /\ Content(row).order = row.order
    BY <1>1 DEF Content, ColumnsInv, Timed, ColumnFields
  <1>6. /\ \A row \in ColumnRows : Visible(row, now - 1) <=> row.end = Null
        /\ \A x : x \in Seen(ColumnRows, now - 1)
                     <=> \E row \in ColumnRows : row.end = Null /\ x = Content(row)
    BY <1>1, SeenLast DEF ColumnsInv
  <1> DEFINE live == LiveTopLevelColumns(relation, t)
             rec == [j \in 1 .. m |-> CHOOSE row \in ColumnRows :
                                         row.end = Null /\ Content(row) = ColumnContent(t, cols[j])]
  <1>7. \A j \in 1 .. m :
           /\ rec[j] \in ColumnRows /\ rec[j].end = Null
           /\ Content(rec[j]) = ColumnContent(t, cols[j])
    BY <1>2, <1>4, <1>6 DEF ContentOfColumns
  <1> HIDE DEF rec
  <1>8. ASSUME NEW j \in 1 .. m
        PROVE  /\ rec[j].table = t /\ rec[j].id = cols[j].id /\ rec[j].order = cols[j].id
               /\ rec[j].parent = Null
    <2>1. Content(rec[j]) = ColumnContent(t, cols[j]) /\ cols[j].parent = Null
      BY <1>4, <1>7
    <2>2. QED
      BY <1>5, <1>7, <2>1 DEF ColumnContent
  <1>9. /\ \A j \in 1 .. m : rec[j] \in live
        /\ \A row \in live : \E j \in 1 .. m : row = rec[j]
    <2>1. \A row : row \in live
                      <=> row \in ColumnRows /\ row.table = t /\ row.parent = Null /\ row.end = Null
      BY DEF LiveTopLevelColumns, ColumnRows
    <2>2. ASSUME NEW row \in live
          PROVE  \E j \in 1 .. m : row = rec[j]
      <3>1. row \in ColumnRows /\ row.table = t /\ row.parent = Null /\ row.end = Null
        BY <2>1
      <3>2. PICK j \in 1 .. Len(cols) : Content(row) = ColumnContent(t, cols[j])
        BY <1>2, <1>5, <1>6, <3>1 DEF ContentOfColumns
      <3>3. QED
        BY <1>1, <1>4, <1>5, <1>6, <1>7, <3>1, <3>2 DEF ColumnContent, Distinct
    <2>3. QED
      BY <1>7, <1>8, <2>1, <2>2
  <1>10. \A i, j \in 1 .. m : rec[i].order <= rec[j].order <=> i <= j
    <2>1. \A i, j \in 1 .. m : i < j => cols[i].id < cols[j].id
      BY <1>2, <1>4 DEF IsColumns, Ordered
    <2>2. \A i \in 1 .. m : cols[i].id \in Nat
      BY <1>2, <1>4 DEF IsColumns
    <2> SUFFICES ASSUME NEW i \in 1 .. m, NEW j \in 1 .. m
                 PROVE  rec[i].order <= rec[j].order <=> i <= j
      OBVIOUS
    <2>3. rec[i].order = cols[i].id /\ rec[j].order = cols[j].id
      BY <1>8
    <2>4. /\ i < j => cols[i].id < cols[j].id
          /\ j < i => cols[j].id < cols[i].id
          /\ i \in Nat /\ j \in Nat /\ cols[i].id \in Nat /\ cols[j].id \in Nat
          /\ i = j => cols[i].id = cols[j].id
      BY <1>4, <2>1, <2>2
    <2>5. QED
      BY ONLY <2>3, <2>4
  <1> DEFINE upTo(row) == {earlier \in live : earlier.order <= row.order}
  <1>11. ASSUME NEW j \in 1 .. m
         PROVE  Cardinality(upTo(rec[j])) = j
    <2> HIDE DEF live
    <2>1. j \in Nat /\ \A i \in 1 .. j : i \in 1 .. m /\ i <= j
      BY <1>4
    <2>2. \A i \in 1 .. m : i <= j => i \in 1 .. j
      BY <1>4
    <2>3. upTo(rec[j]) = {rec[i] : i \in 1 .. j}
      BY <1>9, <1>10, <2>1, <2>2
    <2>4. \A h, i \in 1 .. j : rec[h] = rec[i] => h = i
      <3> SUFFICES ASSUME NEW h \in 1 .. j, NEW i \in 1 .. j, rec[h] = rec[i]
                   PROVE  h = i
        OBVIOUS
      <3>1. QED
        BY <1>10, <2>1, rec[h] = rec[i]
    <2> HIDE DEF upTo
    <2>5. QED
      BY <2>1, <2>3, <2>4, Counted
  <1> DEFINE found == {col \in live : Cardinality(upTo(col)) = (k - 1) + 1}
  <1>12. k \in 1 .. m /\ (k - 1) + 1 = k
    BY <1>4
  <1>13. found = {rec[k]}
    <2> HIDE DEF live, upTo
    <2>1. QED
      BY <1>9, <1>11, <1>12
  <1>14. ColumnAt(relation, t, k - 1)
            = IF found = {} THEN Null
              ELSE (CHOOSE col \in found : \A other \in found : col.order <= other.order).id
    BY DEF ColumnAt
  <1> HIDE DEF found
  <1>15. (CHOOSE col \in found : \A other \in found : col.order <= other.order) = rec[k]
    BY <1>10, <1>12, <1>13
  <1>16. QED
    BY <1>8, <1>12, <1>13, <1>14, <1>15

\* The migration keeps the column that each position stands for.
LEMMA MigrateReads ==
    ASSUME IInv, FInv, RInv, Migrate
    PROVE  RInv'
  <1>1. format = "0.3" /\ format' = "1.0" /\ history' = history
    BY DEF Migrate
  <1>2. RowsInv /\ ReadTables \subseteq DOMAIN relation /\ MacrosInv /\ PartitionInv
    BY <1>1, ReadFacts
  <1> DEFINE named(row) == ColumnAt(relation, row.table, row.column)
             rows == {[row EXCEPT !.column = named(row)] : row \in PartitionRows}
  <1>3. /\ DOMAIN relation' = MetadataTables \cup MacroTables
        /\ \A name \in MacroTables : relation'[name] = {}
        /\ \A name \in MetadataTables \ {"ducklake_partition_column"} :
              name \in DOMAIN relation => relation'[name] = relation[name]
        /\ relation'.ducklake_partition_column = rows
    BY <1>2 DEF Migrate, MetadataTables, MacroTables, DuckLakeMetadataMutation, PartitionRows,
                ReadTables
  <1> HIDE DEF rows
  <1>4. /\ (ReadTables \cup FileTables) \subseteq DOMAIN relation
        /\ (ReadTables \cup FileTables) \subseteq DOMAIN relation'
        /\ \A name \in (ReadTables \cup FileTables) \ {"ducklake_partition_column"} :
              relation'[name] = relation[name]
    BY <1>1, <1>2, <1>3, FileShapes DEF ReadTables, FileTables, MetadataTables
  <1>5. /\ lake' = lake /\ now' = now /\ Snapshots' = Snapshots /\ \A s : At(s)' = At(s)
        /\ TablesInv' /\ ViewsInv' /\ ColumnsInv' /\ TagsInv' /\ ColumnTagsInv'
        /\ FileSizesInv' /\ DeleteSizesInv'
    BY <1>1, <1>2, <1>4, NoSnapshotParts
  <1>6. MacrosInv'
    BY <1>1, <1>2, <1>3, <1>5 DEF Rows, TableExists, MacrosInv, MacroRows, MacroImpls,
       MacroParameters, MacroTables, Timed
  <1>7. PartitionInv'
    <2>1. \A row \in PartitionRows :
             /\ DOMAIN row = {"table", "index", "column"}
             /\ DOMAIN [row EXCEPT !.column = named(row)] = {"table", "index", "column"}
             /\ [row EXCEPT !.column = named(row)].table = row.table
             /\ [row EXCEPT !.column = named(row)].index = row.index
             /\ [row EXCEPT !.column = named(row)].column = named(row)
      BY <1>2 DEF PartitionInv
    <2> HIDE DEF named
    <2>2. /\ \A new \in rows : \E row \in PartitionRows :
                /\ DOMAIN new = {"table", "index", "column"} /\ new.table = row.table
                /\ new.index = row.index /\ new.column = named(row)
          /\ \A row \in PartitionRows : \E new \in rows :
                new.table = row.table /\ new.index = row.index
      BY <2>1 DEF rows
    <2>3. ASSUME NEW t \in DOMAIN lake.partitions, NEW row \in PartitionRows, row.table = t
          PROVE  named(row) = lake.partitions[t][row.index]
      <3>1. Means(t, row.index, row.column)
        BY <1>1, <1>2, <2>3 DEF PartitionInv, PartitionRowsOf, MeansColumn
      <3>2. PICK cols : cols = lake.tables[t].columns
        OBVIOUS
      <3>3. PICK k \in 1 .. Len(cols) :
               /\ cols[k].parent = Null /\ cols[k].id = lake.partitions[t][row.index]
               /\ row.column = k - 1
        BY <3>1, <3>2 DEF Means
      <3>4. ColumnAt(relation, t, k - 1) = cols[k].id
        BY <1>1, <3>2, <3>3, ColumnAtPosition, FilesFacts DEF KeysInv
      <3>5. QED
        BY <2>3, <3>3, <3>4 DEF named
    <2>4. ASSUME NEW t \in DOMAIN lake.partitions
          PROVE  /\ \A new \in rows : new.table = t =>
                       /\ new.index \in DOMAIN lake.partitions[t]
                       /\ new.column = lake.partitions[t][new.index]
                 /\ \A i \in DOMAIN lake.partitions[t] :
                       \E new \in rows : new.table = t /\ new.index = i
      BY <1>2, <2>2, <2>3 DEF PartitionInv, PartitionRowsOf
    <2>5. QED
      BY <1>1, <1>2, <1>3, <1>5, <2>2, <2>4 DEF PartitionInv, PartitionRows, PartitionRowsOf,
         MeansColumn
  <1>8. QED
    BY <1>1, <1>3, <1>4, <1>5, <1>6, <1>7 DEF RInv, RowsInv

-----------------------------------------------------------------------------
(* Dropping a table, and what every step keeps                             *)

\* Nothing of a dropped table is read any more, and all of the others.
LEMMA DropTableReads ==
    ASSUME IInv, FInv, RInv, format # "none", NEW t \in DOMAIN lake.tables, DropTable(t)
    PROVE  RInv'
  <1>1. PICK gone : gone = {f \in DOMAIN lake.files : lake.files[f].table = t}
    OBVIOUS
  <1> DEFINE HT == {row \in TableRows : row.id = t}
             HC == {row \in ColumnRows : row.table = t}
             HG == {row \in ColumnTagRows : row.table = t}
             HF == {row \in DataFiles : row.table = t}
             HD == {row \in DeleteFiles : row.table = t}
             HO == {row \in TagRows : row.object = t}
             tables == {Closed(row, HT) : row \in TableRows}
             columns == {Closed(row, HC) : row \in ColumnRows}
             columnTags == {Closed(row, HG) : row \in ColumnTagRows}
             files == {Closed(row, HF) : row \in DataFiles}
             deletes == {Closed(row, HD) : row \in DeleteFiles}
             tags == {Closed(row, HO) : row \in TagRows}
             names == {"ducklake_table", "ducklake_column", "ducklake_column_tag",
                       "ducklake_data_file", "ducklake_delete_file", "ducklake_tag"}
             fields == {"tables", "versions", "inlined", "partitions", "files", "deletes"}
             db == [relation EXCEPT
                       !.ducklake_table = tables, !.ducklake_column = columns,
                       !.ducklake_column_tag = columnTags,
                       !.ducklake_data_file = files, !.ducklake_delete_file = deletes,
                       !.ducklake_tag = tags]
             after == [lake EXCEPT
                          !.tables = Without(@, {t}), !.versions = Without(@, {t}),
                          !.inlined = Without(@, {t}), !.partitions = Without(@, {t}),
                          !.files = Without(@, gone), !.deletes = Without(@, gone)]
  <1>2. Commit(db, after)
    <2>1. /\ {IF row.end = Null /\ row.id = t THEN [row EXCEPT !.end = now] ELSE row :
                 row \in TableRows} = tables
          /\ {IF row.end = Null /\ row.table = t THEN [row EXCEPT !.end = now] ELSE row :
                 row \in ColumnRows} = columns
          /\ {IF row.end = Null /\ row.table = t THEN [row EXCEPT !.end = now] ELSE row :
                 row \in ColumnTagRows} = columnTags
          /\ {IF row.end = Null /\ row.table = t THEN [row EXCEPT !.end = now] ELSE row :
                 row \in DataFiles} = files
          /\ {IF row.end = Null /\ row.table = t THEN [row EXCEPT !.end = now] ELSE row :
                 row \in DeleteFiles} = deletes
          /\ {IF row.end = Null /\ row.object = t THEN [row EXCEPT !.end = now] ELSE row :
                 row \in TagRows} = tags
      BY DEF Closed
    <2> HIDE DEF tables, columns, columnTags, files, deletes, tags
    <2>2. QED
      BY <1>1, <2>1
         DEF DropTable, Ended, TableRows, ColumnRows, ColumnTagRows, DataFiles, DeleteFiles, TagRows
  <1> HIDE DEF tables, columns, columnTags, files, deletes, tags, HT, HC, HG, HF, HD, HO
  <1>3. /\ DOMAIN lake = LakeFields /\ lake.next \in Nat /\ t \in Nat /\ t < lake.next
        /\ FileTables \subseteq DOMAIN relation /\ ReadTables \subseteq DOMAIN relation
        /\ \A u \in DOMAIN lake.tables : DOMAIN lake.tables[u] = {"tags", "columns"}
    BY FileShapes DEF IInv, LakeInv, RInv, RowsInv, ColumnsInv
  <1>4. /\ FileTables \subseteq DOMAIN db /\ DOMAIN db = DOMAIN relation
        /\ db.ducklake_table = tables /\ db.ducklake_column = columns
        /\ db.ducklake_column_tag = columnTags /\ db.ducklake_data_file = files
        /\ db.ducklake_delete_file = deletes /\ db.ducklake_tag = tags
        /\ \A name \in DOMAIN relation \ names : db[name] = relation[name]
    BY <1>3 DEF FileTables, ReadTables
  <1>5. /\ after.next = lake.next /\ after.views = lake.views
        /\ after.tables = Without(lake.tables, {t})
        /\ after.partitions = Without(lake.partitions, {t})
        /\ after.files = Without(lake.files, gone) /\ after.deletes = Without(lake.deletes, gone)
        /\ \A field \in LakeFields \ fields : after[field] = lake[field]
    BY <1>3 DEF LakeFields
  <1> HIDE DEF db, after
  <1>6. Commits /\ lake' = after /\ relation' = db
    BY <1>2, <1>3, <1>4, <1>5, SnapshotCommits
  <1>7. /\ RowsInv /\ TablesInv /\ ViewsInv /\ ColumnsInv /\ TagsInv /\ ColumnTagsInv
        /\ PartitionInv /\ DeleteSizesInv /\ now \in Nat /\ 0 < now
        /\ TablesAgree(Seen(TableRows, now - 1), lake)
        /\ ColumnsAgree(Seen(ColumnRows, now - 1), lake)
        /\ ColumnTagsAgree(Seen(ColumnTagRows, now - 1), lake)
        /\ DeleteSizesAgree(Seen(DeleteFiles, now - 1), lake)
    BY <1>6, ReadFacts, SnapshotsAfter DEF Commits
  <1>8. /\ TableRows' = tables /\ ColumnRows' = columns /\ ColumnTagRows' = columnTags
        /\ DataFiles' = files /\ DeleteFiles' = deletes /\ TagRows' = tags
        /\ ViewRows' = ViewRows /\ PartitionRows' = PartitionRows
    BY <1>3, <1>4, <1>6
       DEF ReadTables, TableRows, ColumnRows, ColumnTagRows, DataFiles, DeleteFiles, TagRows,
           ViewRows, PartitionRows
  <1>9. /\ lake'.views = lake.views /\ format' = format /\ lake'.next = lake.next
        /\ DOMAIN lake'.tables = DOMAIN lake.tables \ {t}
        /\ \A u \in DOMAIN lake'.tables : lake'.tables[u] = lake.tables[u]
        /\ DOMAIN lake'.partitions = DOMAIN lake.partitions \ {t}
        /\ \A u \in DOMAIN lake'.partitions : lake'.partitions[u] = lake.partitions[u]
        /\ lake'.files = Without(lake.files, gone) /\ lake'.deletes = Without(lake.deletes, gone)
    BY <1>5, <1>6 DEF Without, Commits
  <1>10. TablesInv'
    <2> DEFINE ended == {x \in Seen(TableRows, now - 1) : x.id = t}
    <2>1. Ends(TableRows, HT, ended)
      BY <1>7, SeenLast DEF Content, TablesInv, Timed, IdField, Ends, HT
    <2>2. \A x : x \in Rest(TableRows, ended, {}) <=> x \in Seen(TableRows, now - 1) /\ x.id # t
      BY DEF Rest
    <2> HIDE DEF ended
    <2>3. QED
      BY <1>6, <1>7, <1>8, <1>9, <2>1, <2>2, TablesWritten DEF TablesAgree, Written, tables
  <1>11. ViewsInv'
    BY <1>6, <1>7, <1>8, <1>9, ViewsKept
  <1>12. Written(ColumnRows, ColumnFields, HC, {}, ColumnRows')
    BY <1>8 DEF Written, columns
  <1>13. ColumnsInv'
    <2> DEFINE ended == {x \in Seen(ColumnRows, now - 1) : x.table = t}
    <2>1. Ends(ColumnRows, HC, ended)
      BY <1>7, SeenLast DEF Content, ColumnsInv, Timed, ColumnFields, Ends, HC
    <2>2. \A x : x \in Rest(ColumnRows, ended, {}) <=> x \in Seen(ColumnRows, now - 1) /\ x.table # t
      BY DEF Rest
    <2> HIDE DEF ended
    <2>3. ColumnsAgree(Rest(ColumnRows, ended, {}), lake')
      BY <1>7, <1>9, <2>2 DEF ColumnsAgree
    <2>4. \A u \in DOMAIN lake'.tables : DOMAIN lake'.tables[u] = {"tags", "columns"}
      BY <1>3, <1>9
    <2>5. QED
      BY <1>6, <1>7, <1>12, <2>1, <2>3, <2>4, ColumnsWritten
  <1>14. TagsInv'
    <2>1. TagsReplaced(t, {})
      BY <1>7, <1>8, <1>9 DEF ViewsInv, TagsReplaced, tags, HO
    <2>2. QED
      BY <1>3, <1>6, <2>1, TagsReplacedStep
  <1>15. ColumnTagsInv'
    <2> DEFINE ended == {x \in Seen(ColumnTagRows, now - 1) : x.table = t}
    <2>1. Ends(ColumnTagRows, HG, ended)
      BY <1>7, SeenLast DEF Content, ColumnTagsInv, Timed, ColumnTagFields, Ends, HG
    <2>2. ColumnsStay
      BY <1>7, <1>12, WrittenColumnsStay
    <2>3. \A x : x \in Rest(ColumnTagRows, ended, {})
                    <=> x \in Seen(ColumnTagRows, now - 1) /\ x.table # t
      BY DEF Rest
    <2> HIDE DEF ended
    <2>4. ColumnTagsAgree(Rest(ColumnTagRows, ended, {}), lake')
      BY <1>7, <1>9, <2>3 DEF ColumnTagsOf, ColumnTagsAgree
    <2>5. QED
      BY <1>6, <1>7, <1>8, <2>1, <2>2, <2>4, ColumnTagsWritten DEF Written, columnTags
  <1>16. FileSizesInv' /\ DeleteSizesInv'
    <2>1. \A f \in DataFiles : f.end = Null => (f \in HF <=> f.id \in gone)
      BY <1>1, <1>6, LiveFiles DEF HF
    <2>2. \A d \in DeleteFiles : d.end = Null => (d \in HD <=> d.file \in gone)
      <3>1. ASSUME NEW d \in DeleteFiles, d.end = Null
            PROVE  d.file \in DOMAIN lake.files /\ lake.files[d.file].table = d.table
        <4>1. Content(d) \in Seen(DeleteFiles, now - 1)
          BY <1>7, <3>1, SeenLast DEF DeleteSizesInv
        <4>2. QED
          BY <1>7, <4>1 DEF Content, DeleteSizesInv, Timed, DeleteFileFields, DeleteSizesAgree
      <3>2. QED
        BY <1>1, <3>1 DEF HD
    <2>3. QED
      BY <1>6, <1>8, <1>9, <2>1, <2>2, FilesEndedRead DEF files, deletes
  <1>17. PartitionInv'
    <2>1. DOMAIN lake.partitions \subseteq DOMAIN lake.tables
      BY <1>6, CommitFacts DEF KeysInv
    <2>2. QED
      BY <1>6, <1>7, <1>8, <1>9, <2>1, PartitionsKept DEF MeansColumn, Means
  <1>18. QED
    <2>1. MacroTables \cap names = {} /\ "macros" \notin fields
      BY DEF MacroTables
    <2> HIDE DEF names, fields
    <2>2. ReadTables \subseteq DOMAIN relation' /\ MacrosInv'
      BY <1>4, <1>5, <1>6, <1>7, <2>1, PartsKept DEF RowsSame, LakeSame
    <2>3. QED
      BY <1>6, <1>10, <1>11, <1>13, <1>14, <1>15, <1>16, <1>17, <2>2, RInvFromParts DEF Commits

\* No action of the client breaks the invariant of what is read.
LEMMA NextReads ==
    ASSUME IInv, FInv, RInv, Next
    PROVE  RInv'
  <1>1. CASE \E version \in {"0.3", "1.0"} : Bootstrap(version)
    BY <1>1, BootstrapReads
  <1>2. CASE CreateTable
    BY <1>2, CreateTableReads
  <1>3. CASE Migrate
    BY <1>3, MigrateReads
  <1>4. CASE DropSuperseded
    <2>1. format # "none"
      <3> SUFFICES ASSUME format = "none" PROVE FALSE
        OBVIOUS
      <3>1. QED
        BY <1>4 DEF RInv, Rows, TableExists, DuckLakeEmptySupersededInlinedTables, DropSuperseded
    <2>2. QED
      BY <1>4, <2>1, NothingReadChanges DEF DropSuperseded
  <1>5. CASE CreateView \/ CreateMacro
    BY <1>5, CreateViewReads, CreateMacroReads
  <1>6. ASSUME NEW v \in DOMAIN lake.views, CommentOnView(v) \/ DropView(v)
        PROVE  RInv'
    BY <1>6, NothingBeforeBootstrap, CommentOnViewReads, DropViewReads
  <1>7. ASSUME NEW m \in DOMAIN lake.macros, DropMacro(m)
        PROVE  RInv'
    BY <1>7, NothingBeforeBootstrap, DropMacroReads
  <1>8. ASSUME NEW f \in DOMAIN lake.files,
               \/ DeleteFile(f)
               \/ \E R \in (SUBSET lake.files[f].rows) \ {{}} : DeleteRows(f, R)
               \/ \E r \in lake.files[f].rows : InlineDelete(f, r)
        PROVE  RInv'
    BY <1>8, NothingBeforeBootstrap, DeleteFileReads, DeleteRowsReads, InlinedReads
  <1>9. ASSUME NEW t \in DOMAIN lake.tables,
               \/ DropTable(t) \/ CommentOnTable(t) \/ WriteFile(t) \/ InlineInsert(t)
               \/ \E struct \in BOOLEAN : AddColumn(t, struct)
               \/ \E i \in DOMAIN lake.tables[t].columns :
                     RenameColumn(t, i) \/ DropColumn(t, i) \/ CommentOnColumn(t, i)
               \/ \E i, j \in {col.id : col \in ToSet(TopLevel(lake.tables[t].columns))} :
                     SetPartition(t, IF i = j THEN <<i>> ELSE <<i, j>>)
               \/ \E at \in DOMAIN stored.data : Flush(t, at)
        PROVE  RInv'
    <2>1. format # "none"
      BY NothingBeforeBootstrap
    <2>2. DropTable(t) \/ CommentOnTable(t) => RInv'
      BY <2>1, DropTableReads, CommentOnTableReads
    <2>3. WriteFile(t) \/ InlineInsert(t) \/ (\E at \in DOMAIN stored.data : Flush(t, at)) => RInv'
      BY <2>1, WritersRead, InlinedReads
    <2>4. (\E struct \in BOOLEAN : AddColumn(t, struct)) => RInv'
      BY <2>1, AddColumnReads
    <2>5. \A i \in DOMAIN lake.tables[t].columns :
             RenameColumn(t, i) \/ DropColumn(t, i) \/ CommentOnColumn(t, i) => RInv'
      BY <2>1, RenameColumnReads, DropColumnReads, CommentOnColumnReads
    <2>6. ASSUME NEW i \in {col.id : col \in ToSet(TopLevel(lake.tables[t].columns))},
                 NEW j \in {col.id : col \in ToSet(TopLevel(lake.tables[t].columns))},
                 SetPartition(t, IF i = j THEN <<i>> ELSE <<i, j>>)
          PROVE  RInv'
      <3>1. PICK ids : ids = {col.id : col \in ToSet(TopLevel(lake.tables[t].columns))}
        OBVIOUS
      <3>2. PICK columns : columns = IF i = j THEN <<i>> ELSE <<i, j>>
        OBVIOUS
      <3>3. QED
        BY <2>1, <2>6, <3>1, <3>2, SetPartitionReads DEF OfTopLevel
    <2>7. QED
      BY <1>9, <2>2, <2>3, <2>4, <2>5, <2>6, Zenon
  <1>10. QED
    BY <1>1, <1>2, <1>3, <1>4, <1>5, <1>6, <1>7, <1>8, <1>9, Zenon DEF Next

\* Whatever the client commits, the rows that a snapshot reads tell of the lake it was made as.
THEOREM SnapshotsReadTheirLake == Spec => []RInv
  <1>1. Init => RInv
    BY DEF Init, RInv, lake, now, Last
  <1>2. IInv /\ FInv /\ RInv /\ [Next]_vars => RInv'
    BY NothingReadChanges, NextReads DEF vars, RInv, lake, now, Last
  <1>3. QED
    BY <1>1, <1>2, LakeAgreesWithInlinedTables, SnapshotsReadTheirFiles, PTL DEF Spec

-----------------------------------------------------------------------------
(* What the metadata statements tell of a snapshot                         *)

\* MigrationKeepsPartitions: once the migration is done, a partition column is the column it was
\* set to, whatever columns were added, renamed or dropped before.
THEOREM MigrationAlwaysKeepsPartitions == Spec => []MigrationKeepsPartitions
  <1>1. RInv => MigrationKeepsPartitions
    <2> SUFFICES ASSUME RInv, format = "1.0", NEW t \in DOMAIN lake.partitions
                 PROVE  {<<row.index, row.column>> :
                            row \in {row \in relation.ducklake_partition_column : row.table = t}}
                           = {<<i, lake.partitions[t][i]>> : i \in DOMAIN lake.partitions[t]}
      BY DEF MigrationKeepsPartitions
    <2> HIDE DEF PartitionRowsOf
    <2>1. QED
      BY DEF RInv, RowsInv, PartitionInv, MeansColumn, PartitionRowsOf, PartitionRows
  <1>2. QED
    BY <1>1, SnapshotsReadTheirLake, PTL

-----------------------------------------------------------------------------
(* Sums                                                                    *)

\* Induction up to n, over a set: the least number outside S would follow one inside.
LEMMA UpTo ==
    ASSUME NEW n \in Nat, NEW S, 0 \in S, \A k \in 0 .. n - 1 : k \in S => k + 1 \in S
    PROVE  \A k \in 0 .. n : k \in S
  <1> DEFINE outside == {k \in 0 .. n : k \notin S}
  <1> SUFFICES ASSUME outside # {} PROVE FALSE
    OBVIOUS
  <1>1. outside \in SUBSET Nat
    OBVIOUS
  <1> HIDE DEF outside
  <1>2. PICK m \in outside : \A k \in outside : m <= k
    BY <1>1, HasLeast
  <1>3. QED
    BY <1>2 DEF outside

\* The sum of the weights of a set by taking out one element after the other, as the folds do.
TakenOut(w, g, S) == IF S = {} THEN 0 ELSE LET x == CHOOSE x \in S : TRUE IN w[x] + g[S \ {x}]
SumsUp(g, w, R) == g = [S \in SUBSET R |-> TakenOut(w, g, S)]

\* A set without one of its elements.
LEMMA OneLess ==
    ASSUME NEW R, IsFiniteSet(R), NEW S, S \subseteq R
    PROVE  /\ IsFiniteSet(S) /\ Cardinality(S) \in 0 .. Cardinality(R) /\ Cardinality(R) \in Nat
           /\ Cardinality(S) = 0 <=> S = {}
           /\ \A x \in S : S \ {x} \subseteq R /\ Cardinality(S \ {x}) = Cardinality(S) - 1
  BY FS_Subset, FS_CardinalityType, FS_EmptySet, FS_RemoveElement

\* There is such a sum.
LEMMA SumExists ==
    ASSUME NEW R, IsFiniteSet(R), NEW w
    PROVE  \E g : SumsUp(g, w, R)
  <1> DEFINE N == Cardinality(R)
             upTo(g, n) == \A S \in SUBSET R : Cardinality(S) <= n => g[S] = TakenOut(w, g, S)
             reached == {n \in 0 .. N : \E g : upTo(g, n)}
  <1>1. N \in Nat
    BY OneLess
  <1>2. 0 \in reached
    <2> DEFINE g == [S \in SUBSET R |-> 0]
    <2>1. ASSUME NEW S \in SUBSET R, Cardinality(S) <= 0
          PROVE  g[S] = TakenOut(w, g, S)
      BY <2>1, OneLess DEF TakenOut
    <2>2. upTo(g, 0)
      BY <2>1
    <2> HIDE DEF g, upTo
    <2>3. QED
      BY <1>1, <2>2
  <1>3. ASSUME NEW n \in 0 .. N - 1, n \in reached
        PROVE  n + 1 \in reached
    <2>1. PICK g : upTo(g, n)
      BY <1>3
    <2> DEFINE h == [S \in SUBSET R |-> IF Cardinality(S) <= n THEN g[S] ELSE TakenOut(w, g, S)]
    <2>2. ASSUME NEW S \in SUBSET R, Cardinality(S) <= n + 1
          PROVE  h[S] = TakenOut(w, h, S)
      <3>1. h[S] = TakenOut(w, g, S)
        BY <2>1
      <3>2. CASE S = {}
        BY <3>1, <3>2 DEF TakenOut
      <3>3. CASE S # {}
        <4> DEFINE x == CHOOSE x \in S : TRUE
        <4>1. x \in S
          BY <3>3
        <4>2. TakenOut(w, g, S) = w[x] + g[S \ {x}] /\ TakenOut(w, h, S) = w[x] + h[S \ {x}]
          BY <3>3 DEF TakenOut
        <4> HIDE DEF x
        <4>3. QED
          BY <1>1, <2>2, <3>1, <4>1, <4>2, OneLess
      <3>4. QED
        BY <3>2, <3>3
    <2>3. upTo(h, n + 1)
      BY <2>2
    <2> HIDE DEF h, upTo
    <2>4. QED
      BY <1>1, <2>3
  <1>4. N \in reached
    <2> HIDE DEF reached
    <2>1. QED
      BY <1>1, <1>2, <1>3, UpTo
  <1>5. PICK g : upTo(g, N)
    BY <1>4
  <1> DEFINE h == [S \in SUBSET R |-> g[S]]
  <1>6. ASSUME NEW S \in SUBSET R
        PROVE  h[S] = TakenOut(w, h, S)
    <2>1. h[S] = TakenOut(w, g, S)
      BY <1>5, OneLess
    <2>2. QED
      BY <2>1 DEF TakenOut
  <1>7. SumsUp(h, w, R)
    BY <1>6 DEF SumsUp
  <1> HIDE DEF h
  <1>8. QED
    BY <1>7

\* A sum is a number, and any of the elements can be taken out first.
Adds(g, w, S) == g[S] \in Nat /\ \A x \in S : g[S] = w[x] + g[S \ {x}]

\* Every sum that is taken so adds, in any order.
LEMMA SumAdds ==
    ASSUME NEW R, IsFiniteSet(R), NEW w, \A x \in R : w[x] \in Nat, NEW g, SumsUp(g, w, R)
    PROVE  \A S \in SUBSET R : Adds(g, w, S)
  <1> DEFINE N == Cardinality(R)
             reached == {n \in 0 .. N : \A S \in SUBSET R : Cardinality(S) <= n => Adds(g, w, S)}
  <1>1. N \in Nat
    BY OneLess
  <1>2. \A S \in SUBSET R : g[S] = TakenOut(w, g, S)
    BY DEF SumsUp
  <1>3. 0 \in reached
    BY <1>1, <1>2, OneLess DEF TakenOut, Adds
  <1>4. ASSUME NEW n \in 0 .. N - 1, n \in reached
        PROVE  n + 1 \in reached
    <2>1. ASSUME NEW S \in SUBSET R, Cardinality(S) = n + 1
          PROVE  Adds(g, w, S)
      <3>1. n \in Nat /\ (n + 1) - 1 = n /\ n + 1 # 0
        BY <1>1
      <3>2. S # {}
        BY <2>1, <3>1, OneLess
      <3>3. \A x \in S : /\ S \ {x} \in SUBSET R /\ Adds(g, w, S \ {x})
                         /\ \A y \in S \ {x} : Adds(g, w, (S \ {x}) \ {y})
        BY <1>4, <2>1, <3>1, OneLess
      <3> DEFINE y == CHOOSE y \in S : TRUE
      <3>4. y \in S /\ g[S] = w[y] + g[S \ {y}]
        BY <1>2, <3>2 DEF TakenOut
      <3> HIDE DEF y
      <3>5. \A x \in S : w[x] \in Nat /\ g[S \ {x}] \in Nat
        BY <3>3 DEF Adds
      <3>6. ASSUME NEW x \in S
            PROVE  g[S] = w[x] + g[S \ {x}]
        <4>1. CASE x = y
          BY <3>4, <4>1
        <4>2. CASE x # y
          <5>1. x \in S \ {y} /\ y \in S \ {x}
            BY <3>4, <4>2
          <5>2. g[S \ {y}] = w[x] + g[(S \ {y}) \ {x}] /\ g[S \ {x}] = w[y] + g[(S \ {x}) \ {y}]
            BY <3>3, <3>4, <5>1 DEF Adds
          <5>3. PICK rest : rest = g[(S \ {y}) \ {x}]
            OBVIOUS
          <5>4. rest \in Nat
            BY <3>3, <3>4, <5>1, <5>3 DEF Adds
          <5>5. g[S \ {y}] = w[x] + rest /\ g[S \ {x}] = w[y] + rest
            BY <5>2, <5>3
          <5>6. QED
            BY <3>4, <3>5, <5>4, <5>5
        <4>3. QED
          BY <4>1, <4>2
      <3>7. QED
        BY <3>4, <3>5, <3>6 DEF Adds
    <2>2. QED
      BY <1>1, <1>4, <2>1, OneLess
  <1>5. \A n \in 0 .. N : n \in reached
    <2> HIDE DEF reached
    <2>1. QED
      BY <1>1, <1>3, <1>4, UpTo
  <1>6. QED
    BY <1>1, <1>5, OneLess

\* Two sets of the same weights have the same sum.
OneToOne(b, R, D) ==
    /\ \A x \in R : b[x] \in D
    /\ \A x, y \in R : b[x] = b[y] => x = y
    /\ \A d \in D : \E x \in R : b[x] = d

\* As one element after the other is taken out of both.
LEMMA SameSum ==
    ASSUME NEW R, IsFiniteSet(R), NEW D, NEW b, OneToOne(b, R, D),
           NEW w, NEW v, \A x \in R : w[x] \in Nat /\ w[x] = v[b[x]],
           NEW g, SumsUp(g, w, R), NEW h, SumsUp(h, v, D)
    PROVE  /\ IsFiniteSet(D) /\ Cardinality(D) = Cardinality(R)
           /\ g[R] = h[D]
  <1> DEFINE N == Cardinality(R)
             image(S) == {b[x] : x \in S}
             reached == {n \in 0 .. N : \A S \in SUBSET R : Cardinality(S) = n => g[S] = h[image(S)]}
  <1>1. N \in Nat
    BY OneLess
  <1>2. IsFiniteSet(D) /\ Cardinality(D) = Cardinality(R)
    <2> DEFINE f == [x \in R |-> b[x]]
    <2>1. f \in Bijection(R, D)
      BY DEF OneToOne, Bijection, Injection, Surjection, IsInjective
    <2> HIDE DEF f
    <2>2. QED
      BY <2>1, FS_Bijection DEF ExistsBijection
  <1>3. \A d \in D : v[d] \in Nat
    BY DEF OneToOne
  <1>4. /\ \A S \in SUBSET R : g[S] = TakenOut(w, g, S)
        /\ \A T \in SUBSET D : h[T] = TakenOut(v, h, T) /\ Adds(h, v, T)
    BY <1>2, <1>3, SumAdds DEF SumsUp
  <1>5. 0 \in reached
    <2>1. ASSUME NEW S \in SUBSET R, Cardinality(S) = 0
          PROVE  g[S] = h[image(S)]
      <3>1. S = {} /\ image(S) = {}
        BY <2>1, OneLess
      <3>2. QED
        BY <1>4, <3>1 DEF TakenOut
    <2>2. QED
      BY <1>1, <2>1
  <1>6. ASSUME NEW n \in 0 .. N - 1, n \in reached
        PROVE  n + 1 \in reached
    <2>1. ASSUME NEW S \in SUBSET R, Cardinality(S) = n + 1
          PROVE  g[S] = h[image(S)]
      <3>1. n \in Nat /\ (n + 1) - 1 = n /\ n + 1 # 0
        BY <1>1
      <3> DEFINE x == CHOOSE x \in S : TRUE
      <3>2. x \in S /\ g[S] = w[x] + g[S \ {x}]
        BY <1>4, <2>1, <3>1, OneLess DEF TakenOut
      <3> HIDE DEF x
      <3>3. g[S \ {x}] = h[image(S \ {x})]
        BY <1>6, <2>1, <3>1, <3>2, OneLess
      <3>4. image(S \ {x}) = image(S) \ {b[x]}
        BY <3>2 DEF OneToOne
      <3>5. image(S) \in SUBSET D /\ b[x] \in image(S)
        BY <3>2 DEF OneToOne
      <3> HIDE DEF image
      <3>6. h[image(S)] = v[b[x]] + h[image(S) \ {b[x]}]
        BY <1>4, <3>5 DEF Adds
      <3>7. QED
        BY <3>2, <3>3, <3>4, <3>6
    <2>2. QED
      BY <1>1, <2>1
  <1>7. N \in reached
    <2> HIDE DEF reached
    <2>1. QED
      BY <1>1, <1>5, <1>6, UpTo
  <1>8. image(R) = D
    BY DEF OneToOne
  <1>9. QED
    BY <1>2, <1>7, <1>8

\* The files that are counted for a table.
FilesCounted(db, name, t, s) == {file \in VisibleRows(db, name, s) : file.table = t}
SizeIn(files) == [file \in files |-> file.size]

\* The sum that SQLite makes of the sizes of rows is that.
LEMMA SumOfRows ==
    ASSUME NEW db, NEW name, NEW t, NEW s, NEW files,
           files = FilesCounted(db, name, t, s), IsFiniteSet(files)
    PROVE  \E g : /\ SumsUp(g, SizeIn(files), files)
                  /\ FileStatsForTable(db, name, t, s)
                        = [count |-> Cardinality(files),
                           total |-> IF files = {} THEN Null ELSE g[files]]
  <1>1. PICK w : w = SizeIn(files)
    OBVIOUS
  <1>2. w = [file \in files |-> file.size]
    BY <1>1 DEF SizeIn
  <1> DEFINE iter[S \in SUBSET files] ==
                 IF S = {} THEN 0 ELSE LET x == CHOOSE x \in S : TRUE IN x.size + iter[S \ {x}]
  <1>3. \E g : g = [S \in SUBSET files |->
                       IF S = {} THEN 0
                       ELSE LET x == CHOOSE x \in S : TRUE IN x.size + g[S \ {x}]]
    <2>1. PICK g : SumsUp(g, w, files)
      BY SumExists
    <2>2. ASSUME NEW S \in SUBSET files
          PROVE  g[S] = IF S = {} THEN 0
                        ELSE LET x == CHOOSE x \in S : TRUE IN x.size + g[S \ {x}]
      BY <1>2, <2>1 DEF SumsUp, TakenOut
    <2>3. g = [S \in SUBSET files |->
                  IF S = {} THEN 0
                  ELSE LET x == CHOOSE x \in S : TRUE IN x.size + g[S \ {x}]]
      BY <2>1, <2>2 DEF SumsUp
    <2>4. QED
      BY <2>3
  <1>4. iter = [S \in SUBSET files |->
                   IF S = {} THEN 0
                   ELSE LET x == CHOOSE x \in S : TRUE IN x.size + iter[S \ {x}]]
    BY <1>3
  <1>5. FileStatsForTable(db, name, t, s)
           = [count |-> Cardinality(files),
              total |-> IF files = {} THEN Null ELSE iter[files]]
    BY DEF FileStatsForTable, FilesCounted, MapThenSumSet, MapThenFoldSet
  <1> HIDE DEF iter
  <1>6. SumsUp(iter, w, files)
    BY <1>2, <1>4 DEF TakenOut, SumsUp
  <1>7. QED
    BY <1>1, <1>5, <1>6

\* And so is the sum of a function.
LEMMA SumOfFunction ==
    ASSUME NEW f, IsFiniteSet(DOMAIN f)
    PROVE  \E h : /\ SumsUp(h, f, DOMAIN f)
                  /\ Stats(f) = [count |-> Cardinality(DOMAIN f),
                                 total |-> IF DOMAIN f = {} THEN Null ELSE h[DOMAIN f]]
  <1> DEFINE iter[S \in SUBSET DOMAIN f] ==
                 IF S = {} THEN 0 ELSE LET x == CHOOSE x \in S : TRUE IN f[x] + iter[S \ {x}]
  <1>1. \E g : g = [S \in SUBSET DOMAIN f |->
                       IF S = {} THEN 0
                       ELSE LET x == CHOOSE x \in S : TRUE IN f[x] + g[S \ {x}]]
    <2>1. PICK g : SumsUp(g, f, DOMAIN f)
      BY SumExists
    <2>2. QED
      BY <2>1 DEF SumsUp, TakenOut
  <1>2. iter = [S \in SUBSET DOMAIN f |->
                   IF S = {} THEN 0
                   ELSE LET x == CHOOSE x \in S : TRUE IN f[x] + iter[S \ {x}]]
    BY <1>1
  <1>3. Stats(f) = [count |-> Cardinality(DOMAIN f),
                    total |-> IF DOMAIN f = {} THEN Null ELSE iter[DOMAIN f]]
    BY DEF Stats, SumFunction, SumFunctionOnSet, FoldFunctionOnSet, MapThenFoldSet
  <1> HIDE DEF iter
  <1>4. QED
    BY <1>2, <1>3 DEF SumsUp, TakenOut

\* Rows of the same sizes as a function tells have the same number and sum.
LEMMA StatsAre ==
    ASSUME NEW db, NEW name, NEW t, NEW s, NEW files,
           files = FilesCounted(db, name, t, s), IsFiniteSet(files),
           NEW sizes, NEW b, OneToOne(b, files, DOMAIN sizes),
           \A file \in files : file.size \in Nat /\ file.size = sizes[b[file]]
    PROVE  FileStatsForTable(db, name, t, s) = Stats(sizes)
  <1> DEFINE D == DOMAIN sizes
  <1>1. PICK g : /\ SumsUp(g, SizeIn(files), files)
                 /\ FileStatsForTable(db, name, t, s)
                       = [count |-> Cardinality(files),
                          total |-> IF files = {} THEN Null ELSE g[files]]
    BY SumOfRows
  <1>2. IsFiniteSet(D)
    <2> DEFINE f == [x \in files |-> b[x]]
    <2>1. f \in Bijection(files, D)
      BY DEF OneToOne, Bijection, Injection, Surjection, IsInjective
    <2> HIDE DEF f
    <2>2. QED
      BY <2>1, FS_Bijection DEF ExistsBijection
  <1>3. PICK h : /\ SumsUp(h, sizes, D)
                 /\ Stats(sizes) = [count |-> Cardinality(D),
                                    total |-> IF D = {} THEN Null ELSE h[D]]
    BY <1>2, SumOfFunction
  <1>4. \A file \in files : SizeIn(files)[file] \in Nat /\ SizeIn(files)[file] = sizes[b[file]]
    BY DEF SizeIn
  <1>5. files = {} <=> D = {}
    BY DEF OneToOne
  <1> HIDE DEF D
  <1>6. Cardinality(D) = Cardinality(files) /\ g[files] = h[D]
    BY <1>1, <1>3, <1>4, IsFiniteSet(files), SameSum DEF D
  <1>7. QED
    BY <1>1, <1>3, <1>5, <1>6

-----------------------------------------------------------------------------
(* What a snapshot answers                                                 *)

\* The rows of the columns of a table in a snapshot, and those that it has of all snapshots.
ColumnsSeen(t, s) ==
    {col \in {col \in relation.ducklake_column : col.table = t} : Visible(col, s)}
ColumnOrder(R) == {pair \in R \X R : ColumnBefore(pair[1], pair[2])}

\* rec goes through the rows of a table as cols does through its columns.
RowsOfColumns(rec, cols, t, s) ==
    /\ Len(cols) \in Nat /\ Len(cols) >= 1
    /\ cols = [i \in 1 .. Len(cols) |-> cols[i]]
    /\ GoesThrough(rec, Len(cols), ColumnsSeen(t, s), ColumnOrder(ColumnsSeen(t, s)))
    /\ \A i \in 1 .. Len(cols) :
          /\ rec[i] \in ColumnsSeen(t, s)
          /\ cols[i] = [id |-> rec[i].id, name |-> rec[i].name, parent |-> rec[i].parent,
                        tags |-> cols[i].tags]
          /\ rec[i].table = t /\ rec[i].id = cols[i].id

\* Every column of a snapshot has its row, and they are in the order of the statement.
LEMMA ColumnsHaveRows ==
    ASSUME RowsInv, NEW s \in Snapshots, NEW t \in DOMAIN At(s).tables, NEW cols,
           cols = At(s).tables[t].columns
    PROVE  \E rec : RowsOfColumns(rec, cols, t, s)
  <1> DEFINE n == Len(cols)
             V == ColumnsSeen(t, s)
             B == ColumnOrder(V)
             rec == [j \in 1 .. n |-> CHOOSE row \in ColumnRows :
                                         Visible(row, s) /\ Content(row) = ColumnContent(t, cols[j])]
  <1>1. ColumnsInv /\ Distinct(ColumnRows, s) /\ ColumnsAgree(Seen(ColumnRows, s), At(s))
    BY DEF RowsInv, ColumnsInv
  <1>2. /\ IsColumns(cols) /\ n \in Nat /\ n >= 1
        /\ {x \in Seen(ColumnRows, s) : x.table = t} = ContentOfColumns(t, cols)
    BY <1>1 DEF ColumnsAgree, IsColumns
  <1>3. \A x : x \in Seen(ColumnRows, s) /\ x.table = t <=> x \in ContentOfColumns(t, cols)
    BY <1>2
  <1>4. \A row \in ColumnRows :
           /\ Content(row).table = row.table /\ Content(row).id = row.id
           /\ Content(row).name = row.name
           /\ Content(row).parent = row.parent /\ Content(row).order = row.order
    BY <1>1 DEF Content, ColumnsInv, Timed, ColumnFields
  <1>5. \A x : x \in Seen(ColumnRows, s)
                  <=> \E row \in ColumnRows : Visible(row, s) /\ x = Content(row)
    BY DEF Seen
  <1>6. \A row : row \in V <=> row \in ColumnRows /\ row.table = t /\ Visible(row, s)
    BY DEF ColumnsSeen, ColumnRows
  <1>7. \A j \in 1 .. n :
           /\ rec[j] \in ColumnRows /\ Visible(rec[j], s)
           /\ Content(rec[j]) = ColumnContent(t, cols[j])
    BY <1>3, <1>5 DEF ContentOfColumns
  <1> HIDE DEF rec, V, n
  <1>8. ASSUME NEW j \in 1 .. n
        PROVE  /\ rec[j].table = t /\ rec[j].id = cols[j].id /\ rec[j].order = cols[j].id
               /\ rec[j].parent = cols[j].parent /\ rec[j].name = cols[j].name
    <2>1. Content(rec[j]) = ColumnContent(t, cols[j])
      BY <1>7
    <2>2. QED
      BY <1>4, <1>7, <2>1 DEF ColumnContent
  <1>9. /\ \A j \in 1 .. n : rec[j] \in V
        /\ \A row \in V : \E j \in 1 .. n : row = rec[j]
    <2>1. ASSUME NEW row \in V
          PROVE  \E j \in 1 .. n : row = rec[j]
      <3>1. row \in ColumnRows /\ row.table = t /\ Visible(row, s)
        BY <1>6
      <3>2. PICK j \in 1 .. n : Content(row) = ColumnContent(t, cols[j])
        BY <1>3, <1>4, <1>5, <3>1 DEF ContentOfColumns, n
      <3>3. QED
        BY <1>1, <1>7, <3>1, <3>2 DEF Distinct
    <2>2. QED
      BY <1>6, <1>7, <1>8, <2>1
  <1>10. ASSUME NEW i \in 1 .. n, NEW j \in 1 .. n
         PROVE  ColumnBefore(rec[i], rec[j]) <=> i < j
    <2>1. ColumnBefore(rec[i], rec[j]) <=> Ordered(cols[i], cols[j])
      BY <1>8 DEF ColumnBefore, Ordered
    <2>2. /\ cols[i].id \in Nat /\ cols[j].id \in Nat
          /\ cols[i].parent # Null => cols[i].parent \in Nat
          /\ cols[j].parent # Null => cols[j].parent \in Nat
      BY <1>2 DEF IsColumns, n
    <2>3. Ordered(cols[i], cols[j]) => ~ Ordered(cols[j], cols[i])
      BY <2>2, NullAssumption DEF Ordered
    <2>4. i < j \/ j < i \/ i = j
      BY <1>2
    <2>5. QED
      BY <1>2, <2>1, <2>3, <2>4 DEF IsColumns, n
  <1>11. \A i \in 1 .. n :
            cols[i] = [id |-> rec[i].id, name |-> rec[i].name, parent |-> rec[i].parent,
                       tags |-> cols[i].tags]
    <2>1. \A i \in 1 .. n :
             cols[i] = [id |-> cols[i].id, name |-> cols[i].name, parent |-> cols[i].parent,
                        tags |-> cols[i].tags]
      BY <1>2 DEF IsColumns, n
    <2>2. QED
      BY <1>8, <2>1
  <1>12. RowsOfColumns(rec, cols, t, s)
    BY <1>2, <1>8, <1>9, <1>10, <1>11 DEF IsColumns, n, ColumnOrder, GoesThrough, RowsOfColumns, V
  <1>13. QED
    BY <1>12

\* The row at each place of an order.
LEMMA RowAtPlace ==
    ASSUME NEW n \in Nat, NEW f, NEW R, NEW B, GoesThrough(f, n, R, B), NEW i \in 1 .. n
    PROVE  (CHOOSE row \in R : Cardinality(Before(R, B, row)) = i - 1) = f[i]
  <1>1. f[i] \in R
    BY DEF GoesThrough
  <1>2. QED
    BY <1>1, InOrder

\* What the statement lists of the columns of a table.
ColumnsAnswered(t, s) ==
    [i \in 1 .. Cardinality(ColumnsSeen(t, s)) |->
        DescribeColumn(relation, Sorted(ColumnsSeen(t, s), ColumnBefore)[i], s)]

\* Which are the columns the client knew, in their order and with their comments.
LEMMA ColumnsReadBack ==
    ASSUME RowsInv, NEW s \in Snapshots, NEW t \in DOMAIN At(s).tables
    PROVE  /\ ColumnsSeen(t, s) # {}
           /\ ColumnsAnswered(t, s) = At(s).tables[t].columns
  <1> DEFINE cols == At(s).tables[t].columns
             n == Len(cols)
             V == ColumnsSeen(t, s)
             B == ColumnOrder(V)
             below(row) == {other \in V : ColumnBefore(other, row)}
             sorted == [i \in 1 .. Cardinality(V) |->
                           CHOOSE row \in V : Cardinality(below(row)) = i - 1]
  <1>1. PICK rec : RowsOfColumns(rec, cols, t, s)
    BY ColumnsHaveRows
  <1>2. /\ \A i \in 1 .. n : cols[i].tags = ColumnTagsOf(Seen(ColumnTagRows, s), t, cols[i].id)
        /\ \A row \in ColumnTagRows :
              /\ Content(row).table = row.table /\ Content(row).column = row.column
              /\ Content(row).key = row.key /\ Content(row).value = row.value
    BY DEF RowsInv, ColumnTagsInv, ColumnTagsAgree, Timed, ColumnTagFields, Content
  <1> HIDE DEF V, cols, n
  <1>3. ASSUME NEW row \in V
        PROVE  below(row) = Before(V, B, row)
    BY DEF ColumnOrder, Before
  <1>4. n \in Nat /\ n >= 1 /\ GoesThrough(rec, n, V, B)
    BY <1>1 DEF RowsOfColumns, n, V
  <1>5. Cardinality(V) = n /\ V # {}
    <2>1. rec[1] \in V
      BY <1>4 DEF GoesThrough
    <2>2. QED
      BY <1>4, <2>1, InOrder
  <1>6. ASSUME NEW i \in 1 .. n
        PROVE  sorted[i] = rec[i]
    <2>1. (CHOOSE row \in V : Cardinality(Before(V, B, row)) = i - 1) = rec[i]
      BY <1>4, RowAtPlace
    <2> HIDE DEF B
    <2> HIDE DEF below
    <2>2. \A row \in V : Cardinality(below(row)) = i - 1 <=> row = rec[i]
      BY <1>3, <1>4, InOrder DEF B
    <2>3. QED
      BY <1>4, <1>5, <2>2 DEF GoesThrough
  <1>7. ASSUME NEW i \in 1 .. n
        PROVE  DescribeColumn(relation, rec[i], s) = cols[i]
    <2>1. \A y : y \in DuckLakeColumnTags(relation, t, cols[i].id, s)
                    <=> y \in ColumnTagsOf(Seen(ColumnTagRows, s), t, cols[i].id)
      <3>1. \A y : y \in ColumnTagsOf(Seen(ColumnTagRows, s), t, cols[i].id)
                      <=> \E row \in ColumnTagRows :
                             /\ Visible(row, s)
                             /\ Content(row).table = t /\ Content(row).column = cols[i].id
                             /\ y = <<Content(row).key, Content(row).value>>
        BY DEF ColumnTagsOf, Seen
      <3>2. QED
        BY <1>2, <3>1 DEF RowsInv, ReadTables, Rows, TableExists, ColumnTagRows,
           DuckLakeColumnTags, VisibleRows
    <2>2. DuckLakeColumnTags(relation, t, cols[i].id, s) = cols[i].tags
      BY <1>2, <2>1
    <2>3. QED
      BY <1>1, <2>2 DEF RowsOfColumns, n, DescribeColumn
  <1>8. ColumnsAnswered(t, s)
           = [i \in 1 .. Cardinality(V) |-> DescribeColumn(relation, sorted[i], s)]
    BY DEF ColumnsAnswered, Sorted, V
  <1> HIDE DEF sorted
  <1>9. cols = [i \in 1 .. n |-> cols[i]]
    BY <1>1 DEF RowsOfColumns, n
  <1>10. QED
    BY <1>5, <1>6, <1>7, <1>8, <1>9 DEF V, cols

\* The tags that are answered are the comments the client knew.
LEMMA TagsReadBack ==
    ASSUME RowsInv, NEW s \in Snapshots, NEW o
    PROVE  DuckLakeTags(relation, o, s) = TagsOf(Seen(TagRows, s), o)
  <1>1. \A row \in TagRows : /\ Content(row).object = row.object
                             /\ Content(row).key = row.key /\ Content(row).value = row.value
    BY DEF RowsInv, TagsInv, Timed, TagFields, Content
  <1>2. \A y : y \in TagsOf(Seen(TagRows, s), o)
                  <=> \E row \in TagRows :
                         /\ Visible(row, s) /\ Content(row).object = o
                         /\ y = <<Content(row).key, Content(row).value>>
    BY DEF TagsOf, Seen
  <1>3. QED
    BY <1>1, <1>2 DEF RowsInv, ReadTables, Rows, TableExists, TagRows, DuckLakeTags, VisibleRows

\* Ids of rows that a snapshot reads are ids that are read.
LEMMA IdsSeen ==
    ASSUME NEW rows, NEW n, Timed(rows, IdField, n), NEW s
    PROVE  \A id : id \in {x.id : x \in Seen(rows, s)}
                      <=> \E row \in rows : Visible(row, s) /\ row.id = id
  <1>1. \A row \in rows : Content(row).id = row.id
    BY DEF Timed, IdField, Content
  <1>2. QED
    BY <1>1 DEF Seen

\* What the statement answers of a table.
TableAnswer(row, s) ==
    [id      |-> row.id,
     tags    |-> DuckLakeTags(relation, row.id, s),
     inlined |-> InlinedDataTables(relation, row.id),
     columns |-> ColumnsAnswered(row.id, s)]

\* The tables of a snapshot are answered as the client knew them.
LEMMA TablesAlwaysReadBack ==
    ASSUME RowsInv, NEW s \in Snapshots
    PROVE  TablesReadBack(s)
  <1> DEFINE known(t) == <<t, At(s).tables[t].tags, At(s).tables[t].columns>>
             told(info) == <<info.id, info.tags, info.columns>>
             kept(row) == \/ ColumnsSeen(row.id, s) # {}
                          \/ {col \in relation.ducklake_column : col.table = row.id} = {}
             rows == {row \in VisibleRows(relation, "ducklake_table", s) : kept(row)}
             answers == {TableAnswer(row, s) : row \in rows}
  <1>1. DuckLakeTableInfo(relation, s) = answers
    BY DEF RowsInv, ReadTables, TableExists, DuckLakeTableInfo, TableAnswer, ColumnsAnswered,
       ColumnsSeen, Sorted
  <1>2. \A t : t \in DOMAIN At(s).tables <=> \E row \in TableRows : Visible(row, s) /\ row.id = t
    BY IdsSeen DEF RowsInv, TablesInv, TablesAgree
  <1>3. Rows(relation, "ducklake_table") = TableRows
    BY DEF RowsInv, ReadTables, Rows, TableExists, TableRows
  <1>4. ASSUME NEW row \in TableRows, Visible(row, s)
        PROVE  /\ row.id \in DOMAIN At(s).tables /\ row \in rows
               /\ told(TableAnswer(row, s)) = known(row.id)
    BY <1>2, <1>3, <1>4, ColumnsReadBack, TagsReadBack DEF RowsInv, TagsInv, TagsAgree,
       VisibleRows, TableAnswer
  <1>5. \A row \in rows : row \in TableRows /\ Visible(row, s)
    BY <1>3 DEF VisibleRows
  <1>6. TablesReadBack(s)
           <=> {told(info) : info \in answers} = {known(t) : t \in DOMAIN At(s).tables}
    BY <1>1 DEF TablesReadBack
  <1> HIDE DEF rows, known, told
  <1>7. \A y : y \in {told(info) : info \in answers} <=> \E row \in rows : y = told(TableAnswer(row, s))
    OBVIOUS
  <1>8. \A y : y \in {told(info) : info \in answers} <=> y \in {known(t) : t \in DOMAIN At(s).tables}
    <2>1. ASSUME NEW y \in {told(info) : info \in answers}
          PROVE  y \in {known(t) : t \in DOMAIN At(s).tables}
      BY <1>4, <1>5, <1>7
    <2>2. ASSUME NEW t \in DOMAIN At(s).tables
          PROVE  known(t) \in {told(info) : info \in answers}
      <3>1. PICK row \in TableRows : Visible(row, s) /\ row.id = t
        BY <1>2
      <3>2. QED
        BY <1>4, <1>7, <3>1
    <2>3. QED
      BY <2>1, <2>2
  <1>9. QED
    BY <1>6, <1>8

\* And so are its views.
LEMMA ViewsAlwaysReadBack ==
    ASSUME RowsInv, NEW s \in Snapshots
    PROVE  ViewsReadBack(s)
  <1> DEFINE known(v) == <<v, At(s).views[v]>>
             told(info) == <<info.id, info.tags>>
             answer(view) == [id |-> view.id, tags |-> DuckLakeTags(relation, view.id, s)]
             rows == VisibleRows(relation, "ducklake_view", s)
             answers == {answer(view) : view \in rows}
  <1>1. Timed(ViewRows, IdField, now) /\ ViewsAgree(Seen(ViewRows, s), At(s))
    BY DEF RowsInv, ViewsInv
  <1>2. \A v : v \in DOMAIN At(s).views <=> \E row \in ViewRows : Visible(row, s) /\ row.id = v
    <2>1. \A v : v \in {x.id : x \in Seen(ViewRows, s)}
                    <=> \E row \in ViewRows : Visible(row, s) /\ row.id = v
      BY <1>1, IdsSeen
    <2>2. QED
      BY <1>1, <2>1 DEF ViewsAgree
  <1>3. Rows(relation, "ducklake_view") = ViewRows
    BY DEF RowsInv, ReadTables, Rows, TableExists, ViewRows
  <1>4. ASSUME NEW row \in ViewRows, Visible(row, s)
        PROVE  /\ row.id \in DOMAIN At(s).views /\ row \in rows
               /\ told(answer(row)) = known(row.id)
    BY <1>2, <1>3, <1>4, TagsReadBack DEF RowsInv, TagsInv, TagsAgree, VisibleRows
  <1>5. \A row \in rows : row \in ViewRows /\ Visible(row, s)
    BY <1>3 DEF VisibleRows
  <1>6. ViewsReadBack(s)
           <=> {told(info) : info \in answers} = {known(v) : v \in DOMAIN At(s).views}
    BY DEF DuckLakeViewInfo, ViewsReadBack
  <1> HIDE DEF rows, known, told, answer
  <1>7. \A y : y \in {told(info) : info \in answers} <=> \E row \in rows : y = told(answer(row))
    OBVIOUS
  <1>8. \A y : y \in {told(info) : info \in answers} <=> y \in {known(v) : v \in DOMAIN At(s).views}
    <2>1. ASSUME NEW y \in {told(info) : info \in answers}
          PROVE  y \in {known(v) : v \in DOMAIN At(s).views}
      BY <1>4, <1>5, <1>7
    <2>2. ASSUME NEW v \in DOMAIN At(s).views
          PROVE  known(v) \in {told(info) : info \in answers}
      <3>1. PICK row \in ViewRows : Visible(row, s) /\ row.id = v
        BY <1>2
      <3>2. QED
        BY <1>4, <1>7, <3>1
    <2>3. QED
      BY <2>1, <2>2
  <1>9. QED
    BY <1>6, <1>8

\* Rows that are numbered from 1 on.
Numbered(R, number, rec, n) ==
    /\ \A i \in 1 .. n : rec[i] \in R /\ number[rec[i]] = i
    /\ \A row \in R : \E i \in 1 .. n : row = rec[i]
Smaller(R, number, row) == {other \in R : number[other] < number[row]}
NumberOrder(R, number) == {pair \in R \X R : number[pair[1]] < number[pair[2]]}

\* They are gone through by their numbers.
LEMMA NumberedInOrder ==
    ASSUME NEW R, NEW number, NEW rec, NEW n \in Nat, Numbered(R, number, rec, n)
    PROVE  /\ Cardinality(R) = n
           /\ \A i \in 1 .. n :
                 (CHOOSE row \in R : Cardinality(Smaller(R, number, row)) = i - 1) = rec[i]
  <1> DEFINE B == NumberOrder(R, number)
             below(row) == Smaller(R, number, row)
  <1>1. \A row, other \in R : <<other, row>> \in B <=> number[other] < number[row]
    BY DEF NumberOrder
  <1>2. GoesThrough(rec, n, R, B)
    <2> HIDE DEF B
    <2>1. QED
      BY <1>1 DEF Numbered, GoesThrough
  <1>3. \A row \in R : below(row) = Before(R, B, row)
    <2> HIDE DEF B
    <2>1. QED
      BY <1>1 DEF Before, Smaller
  <1> HIDE DEF B, below
  <1>4. ASSUME NEW i \in 1 .. n
        PROVE  (CHOOSE row \in R : Cardinality(below(row)) = i - 1) = rec[i]
    BY <1>2, <1>3, InOrder DEF Numbered
  <1>5. QED
    BY <1>2, <1>4, InOrder DEF below

HasParameters(m, i, n) ==
    \A row : row \in MacroParameters /\ row.macro = m /\ row.impl = i
             <=> \E c \in 1 .. n : row = [macro |-> m, impl |-> i, column |-> c, name |-> c]

\* The parameters of an implementation, which has n of them.
LEMMA ParametersReadBack ==
    ASSUME NEW m, NEW i, NEW n \in Nat, HasParameters(m, i, n)
    PROVE  DuckLakeMacroParameters(relation, [macro |-> m, impl |-> i]) = [c \in 1 .. n |-> c]
  <1> DEFINE rec == [c \in 1 .. n |-> [macro |-> m, impl |-> i, column |-> c, name |-> c]]
             impl == [macro |-> m, impl |-> i]
             R == {row \in Rows(relation, "ducklake_macro_parameters") :
                      row.macro = impl.macro /\ row.impl = impl.impl}
             number == [row \in R |-> row.column]
             below(row) == {other \in R : other.column < row.column}
             sorted == [c \in 1 .. Cardinality(R) |->
                           CHOOSE row \in R : Cardinality(below(row)) = c - 1]
  <1>1. \A row : row \in R <=> \E c \in 1 .. n : row = rec[c]
    <2>1. \A row : row \in R <=> row \in MacroParameters /\ row.macro = m /\ row.impl = i
      BY DEF MacroParameters
    <2> HIDE DEF R
    <2>2. QED
      BY <2>1 DEF HasParameters
  <1>2. \A c \in 1 .. n : rec[c].column = c /\ rec[c].name = c
    OBVIOUS
  <1>3. DuckLakeMacroParameters(relation, impl) = [c \in DOMAIN sorted |-> sorted[c].name]
    BY DEF DuckLakeMacroParameters, Sorted
  <1> HIDE DEF rec, R, impl
  <1>4. \A row \in R : number[row] = row.column
    OBVIOUS
  <1> HIDE DEF number
  <1>5. Numbered(R, number, rec, n)
    BY <1>1, <1>2, <1>4 DEF Numbered
  <1>6. \A row \in R : below(row) = Smaller(R, number, row)
    BY <1>4 DEF Smaller
  <1>7. Cardinality(R) = n
    BY <1>5, NumberedInOrder
  <1>8. ASSUME NEW c \in 1 .. n
        PROVE  sorted[c] = rec[c]
    <2>1. (CHOOSE row \in R : Cardinality(Smaller(R, number, row)) = c - 1) = rec[c]
      BY <1>5, NumberedInOrder
    <2> HIDE DEF below
    <2>2. QED
      BY <1>6, <1>7, <2>1
  <1>9. DOMAIN sorted = 1 .. n
    BY <1>7
  <1> HIDE DEF sorted
  <1>10. QED
    BY <1>2, <1>3, <1>8, <1>9 DEF impl

\* A macro is answered with its two implementations, in their order.
LEMMA ImplementationsReadBack ==
    ASSUME RowsInv, NEW macro \in MacroRows, NEW m, m = macro.id
    PROVE  DuckLakeMacroImplementations(relation, m) = TwoImplementations
  <1> DEFINE rec == [i \in 1 .. 2 |-> [macro |-> m, impl |-> i]]
             R == {row \in Rows(relation, "ducklake_macro_impl") : row.macro = m}
             number == [row \in R |-> row.impl]
             below(row) == {other \in R : other.impl < row.impl}
             sorted == [i \in 1 .. Cardinality(R) |->
                           CHOOSE row \in R : Cardinality(below(row)) = i - 1]
  <1>1. R = ImplsOf(m) /\ {row \in MacroParameters : row.macro = m} = ParametersOf(m)
    BY DEF RowsInv, MacrosInv, MacroImpls
  <1>2. \A row : row \in R <=> \E i \in 1 .. 2 : row = rec[i]
    <2> HIDE DEF R
    <2>1. QED
      BY <1>1 DEF ImplsOf
  <1>3. \A i \in 1 .. 2 : rec[i].impl = i /\ rec[i] = [macro |-> m, impl |-> i]
    OBVIOUS
  <1>4. DuckLakeMacroImplementations(relation, m)
           = [i \in DOMAIN sorted |-> DuckLakeMacroParameters(relation, sorted[i])]
    BY DEF DuckLakeMacroImplementations, Sorted
  <1> HIDE DEF rec, R
  <1>5. \A row \in R : number[row] = row.impl
    OBVIOUS
  <1> HIDE DEF number
  <1>6. Numbered(R, number, rec, 2)
    BY <1>2, <1>3, <1>5 DEF Numbered
  <1>7. \A row \in R : below(row) = Smaller(R, number, row)
    BY <1>5 DEF Smaller
  <1>8. Cardinality(R) = 2
    BY <1>6, NumberedInOrder
  <1>9. ASSUME NEW i \in 1 .. 2
        PROVE  sorted[i] = rec[i]
    <2>1. (CHOOSE row \in R : Cardinality(Smaller(R, number, row)) = i - 1) = rec[i]
      BY <1>6, NumberedInOrder
    <2> HIDE DEF below
    <2>2. QED
      BY <1>7, <1>8, <2>1
  <1>10. DOMAIN sorted = 1 .. 2
    BY <1>8
  <1> HIDE DEF sorted
  <1>11. \A row : row \in MacroParameters /\ row.macro = m
                     <=> \E c \in 1 .. 2 :
                            row = [macro |-> m, impl |-> 1, column |-> c, name |-> c]
    BY <1>1 DEF ParametersOf
  <1>12. DuckLakeMacroParameters(relation, [macro |-> m, impl |-> 1]) = [c \in 1 .. 2 |-> c]
    <2>1. HasParameters(m, 1, 2)
      BY <1>11 DEF HasParameters
    <2>2. QED
      BY <2>1, ParametersReadBack
  <1>13. DuckLakeMacroParameters(relation, [macro |-> m, impl |-> 2]) = [c \in 1 .. 0 |-> c]
    <2>1. HasParameters(m, 2, 0)
      BY <1>11 DEF HasParameters
    <2>2. QED
      BY <2>1, ParametersReadBack
  <1>14. QED
    <2> DEFINE answer == [i \in 1 .. 2 |->
                             DuckLakeMacroParameters(relation, [macro |-> m, impl |-> i])]
    <2>1. answer = <<answer[1], answer[2]>>
      <3>1. answer = [i \in 1 .. 2 |-> answer[i]]
        OBVIOUS
      <3> HIDE DEF answer
      <3>2. QED
        BY <3>1
    <2>2. QED
      BY <1>3, <1>4, <1>9, <1>10, <1>12, <1>13, <2>1 DEF TwoImplementations

\* The macros of a snapshot are answered as the client knew them.
LEMMA MacrosAlwaysReadBack ==
    ASSUME RowsInv, NEW s \in Snapshots
    PROVE  MacrosReadBack(s)
  <1> DEFINE known(m) == <<m, At(s).macros[m]>>
             told(info) == <<info.id, info.impl>>
             answer(macro) == [id   |-> macro.id,
                               impl |-> DuckLakeMacroImplementations(relation, macro.id)]
             rows == VisibleRows(relation, "ducklake_macro", s)
             answers == {answer(macro) : macro \in rows}
  <1>1. Timed(MacroRows, IdField, now) /\ MacrosAgree(Seen(MacroRows, s), At(s))
    BY DEF RowsInv, MacrosInv
  <1>2. \A m : m \in DOMAIN At(s).macros <=> \E row \in MacroRows : Visible(row, s) /\ row.id = m
    BY <1>1, IdsSeen DEF MacrosAgree
  <1>3. \A row : row \in rows <=> row \in MacroRows /\ Visible(row, s)
    BY DEF MacroRows, VisibleRows
  <1>4. ASSUME NEW row \in MacroRows, Visible(row, s)
        PROVE  /\ row.id \in DOMAIN At(s).macros /\ row \in rows
               /\ told(answer(row)) = known(row.id)
    BY <1>1, <1>2, <1>3, <1>4, ImplementationsReadBack DEF MacrosAgree
  <1>5. MacrosReadBack(s)
           <=> {told(info) : info \in answers} = {known(m) : m \in DOMAIN At(s).macros}
    BY DEF DuckLakeMacroInfo, MacrosReadBack
  <1> HIDE DEF rows, known, told, answer
  <1>6. \A y : y \in {told(info) : info \in answers} <=> \E row \in rows : y = told(answer(row))
    OBVIOUS
  <1>7. \A y : y \in {told(info) : info \in answers} <=> y \in {known(m) : m \in DOMAIN At(s).macros}
    <2>1. ASSUME NEW y \in {told(info) : info \in answers}
          PROVE  y \in {known(m) : m \in DOMAIN At(s).macros}
      BY <1>3, <1>4, <1>6
    <2>2. ASSUME NEW m \in DOMAIN At(s).macros
          PROVE  known(m) \in {told(info) : info \in answers}
      <3>1. PICK row \in MacroRows : Visible(row, s) /\ row.id = m
        BY <1>2
      <3>2. QED
        BY <1>4, <1>6, <3>1
    <2>3. QED
      BY <2>1, <2>2
  <1>8. QED
    BY <1>5, <1>7

\* The data files of a table are counted, and their sizes added, as the client knew them.
LEMMA DataSizesReadBack ==
    ASSUME RowsInv, FileRowsInv, NEW s \in Snapshots, NEW t
    PROVE  FileStatsForTable(relation, "ducklake_data_file", t, s) = Stats(SizesOf(At(s), t))
  <1> DEFINE files == FilesCounted(relation, "ducklake_data_file", t, s)
             sizes == SizesOf(At(s), t)
             b == [row \in files |-> row.id]
  <1>1. \A row : row \in files <=> row \in DataFiles /\ Visible(row, s) /\ row.table = t
    BY DEF FileRowsInv, FileTables, Rows, TableExists, DataFiles, FilesCounted, VisibleRows
  <1> HIDE DEF files
  <1>2. FileSizesInv /\ FileSizesAgree(Seen(DataFiles, s), At(s))
    BY DEF RowsInv, FileSizesInv
  <1>3. \A row \in DataFiles : /\ Content(row).id = row.id /\ Content(row).table = row.table
                               /\ Content(row).size = row.size /\ row.size \in Nat
    BY <1>2 DEF FileSizesInv, Timed, DataFileFields, Content
  <1>4. /\ \A f : f \in DOMAIN At(s).files <=> \E row \in DataFiles : Visible(row, s) /\ row.id = f
        /\ \A row \in DataFiles : Visible(row, s) =>
              At(s).files[row.id].table = row.table /\ At(s).files[row.id].size = row.size
    BY <1>2, <1>3 DEF Seen, FileSizesAgree
  <1>5. /\ \A f : f \in DOMAIN sizes <=> f \in DOMAIN At(s).files /\ At(s).files[f].table = t
        /\ \A f \in DOMAIN sizes : sizes[f] = At(s).files[f].size
    BY DEF SizesOf
  <1> HIDE DEF sizes
  <1>6. \A row \in files : b[row] = row.id
    OBVIOUS
  <1> HIDE DEF b
  <1>7. OneToOne(b, files, DOMAIN sizes)
    BY <1>1, <1>4, <1>5, <1>6 DEF FileRowsInv, OneToOne
  <1>8. \A row \in files : row.size \in Nat /\ row.size = sizes[b[row]]
    BY <1>1, <1>3, <1>4, <1>5, <1>6
  <1>9. QED
    BY <1>1, <1>7, <1>8, StatsAre, FS_Subset DEF FileRowsInv, files, sizes

\* And its delete files, of which a data file has one at most.
LEMMA DeleteSizesReadBack ==
    ASSUME RowsInv, FileRowsInv, NEW s \in Snapshots, NEW t
    PROVE  FileStatsForTable(relation, "ducklake_delete_file", t, s) = Stats(DeleteSizesOf(At(s), t))
  <1> DEFINE files == FilesCounted(relation, "ducklake_delete_file", t, s)
             sizes == DeleteSizesOf(At(s), t)
             b == [row \in files |-> row.file]
  <1>1. \A row : row \in files <=> row \in DeleteFiles /\ Visible(row, s) /\ row.table = t
    BY DEF FileRowsInv, FileTables, Rows, TableExists, DeleteFiles, FilesCounted, VisibleRows
  <1> HIDE DEF files
  <1>2. DeleteSizesInv /\ DeleteSizesAgree(Seen(DeleteFiles, s), At(s))
    BY DEF RowsInv, DeleteSizesInv
  <1>3. \A row \in DeleteFiles :
           /\ Content(row).id = row.id /\ Content(row).table = row.table
           /\ Content(row).file = row.file /\ Content(row).size = row.size /\ row.size \in Nat
    BY <1>2 DEF DeleteSizesInv, Timed, DeleteFileFields, Content
  <1>4. /\ \A f : f \in DOMAIN At(s).deletes
                     <=> \E row \in DeleteFiles : Visible(row, s) /\ row.file = f
        /\ \A row \in DeleteFiles : Visible(row, s) =>
              At(s).files[row.file].table = row.table /\ At(s).deletes[row.file] = row.size
        /\ \A row, other \in DeleteFiles :
              Visible(row, s) /\ Visible(other, s) /\ row.file = other.file => row.id = other.id
    BY <1>2, <1>3 DEF Seen, DeleteSizesAgree
  <1>5. /\ \A f : f \in DOMAIN sizes <=> f \in DOMAIN At(s).deletes /\ At(s).files[f].table = t
        /\ \A f \in DOMAIN sizes : sizes[f] = At(s).deletes[f]
    BY DEF DeleteSizesOf
  <1> HIDE DEF sizes
  <1>6. \A row \in files : b[row] = row.file
    OBVIOUS
  <1> HIDE DEF b
  <1>7. OneToOne(b, files, DOMAIN sizes)
    BY <1>1, <1>4, <1>5, <1>6 DEF FileRowsInv, OneToOne
  <1>8. \A row \in files : row.size \in Nat /\ row.size = sizes[b[row]]
    BY <1>1, <1>3, <1>4, <1>5, <1>6
  <1>9. QED
    BY <1>1, <1>7, <1>8, StatsAre, FS_Subset DEF FileRowsInv, files, sizes

\* The sizes of the tables of a snapshot are answered as the client knew them.
LEMMA SizesAlwaysReadBack ==
    ASSUME RowsInv, FileRowsInv, NEW s \in Snapshots
    PROVE  SizesReadBack(s)
  <1> DEFINE known(t) == <<t, Stats(SizesOf(At(s), t)), Stats(DeleteSizesOf(At(s), t))>>
             told(size) == <<size.id, size.data, size.delete>>
             answer(table) ==
                 [id   |-> table.id,
                  data |-> FileStatsForTable(relation, "ducklake_data_file", table.id, s),
                  delete |-> FileStatsForTable(relation, "ducklake_delete_file", table.id, s)]
             rows == VisibleRows(relation, "ducklake_table", s)
             answers == {answer(table) : table \in rows}
  <1>1. Timed(TableRows, IdField, now) /\ TablesAgree(Seen(TableRows, s), At(s))
    BY DEF RowsInv, TablesInv
  <1>2. \A t : t \in DOMAIN At(s).tables <=> \E row \in TableRows : Visible(row, s) /\ row.id = t
    BY <1>1, IdsSeen DEF TablesAgree
  <1>3. \A row : row \in rows <=> row \in TableRows /\ Visible(row, s)
    BY DEF RowsInv, ReadTables, Rows, TableExists, TableRows, VisibleRows
  <1>4. \A row : told(answer(row)) = known(row.id)
    BY DataSizesReadBack, DeleteSizesReadBack
  <1>5. SizesReadBack(s)
           <=> {told(size) : size \in answers} = {known(t) : t \in DOMAIN At(s).tables}
    BY DEF DuckLakeTableSizes, SizesReadBack
  <1> HIDE DEF rows, known, told, answer
  <1>6. \A y : y \in {told(size) : size \in answers} <=> \E row \in rows : y = told(answer(row))
    OBVIOUS
  <1>7. \A y : y \in {told(size) : size \in answers} <=> y \in {known(t) : t \in DOMAIN At(s).tables}
    <2>1. ASSUME NEW y \in {told(size) : size \in answers}
          PROVE  y \in {known(t) : t \in DOMAIN At(s).tables}
      BY <1>2, <1>3, <1>4, <1>6
    <2>2. ASSUME NEW t \in DOMAIN At(s).tables
          PROVE  known(t) \in {told(size) : size \in answers}
      <3>1. PICK row \in TableRows : Visible(row, s) /\ row.id = t
        BY <1>2
      <3>2. QED
        BY <1>3, <1>4, <1>6, <3>1
    <2>3. QED
      BY <2>1, <2>2
  <1>8. QED
    BY <1>5, <1>7

\* Before the catalog is made there is one snapshot, of an empty lake, and no answer.
LEMMA NothingReadsBack ==
    ASSUME IInv, FInv, RInv, format = "none", NEW s \in Snapshots
    PROVE  TablesReadBack(s) /\ ViewsReadBack(s) /\ MacrosReadBack(s) /\ SizesReadBack(s)
  <1>1. relation = <<>> /\ lake = EmptyLake /\ now = 1
    BY DEF RInv
  <1>2. DOMAIN relation = {} /\ \A name : Rows(relation, name) = {}
    BY <1>1 DEF Rows, TableExists
  <1>3. /\ DuckLakeTableInfo(relation, s) = {} /\ DuckLakeViewInfo(relation, s) = {}
        /\ DuckLakeMacroInfo(relation, s) = {} /\ DuckLakeTableSizes(relation, s) = {}
    BY <1>2 DEF VisibleRows, TableExists, DuckLakeTableInfo, Sorted, DuckLakeViewInfo,
       DuckLakeMacroInfo, DuckLakeTableSizes
  <1>4. QED
    BY <1>1, <1>3, LastSnapshot DEF Snapshots, IInv, EmptyLake, TablesReadBack, ViewsReadBack,
       MacrosReadBack, SizesReadBack

\* EverySnapshotReadsBack: whatever the client commits afterwards, a snapshot is answered with the
\* tables, columns in order, comments, views, macros and sizes that it was committed with.
THEOREM EverySnapshotAlwaysReadsBack == Spec => []EverySnapshotReadsBack
  <1>1. IInv /\ FInv /\ RInv => EverySnapshotReadsBack
    BY NothingReadsBack, TablesAlwaysReadBack, ViewsAlwaysReadBack, MacrosAlwaysReadBack,
       SizesAlwaysReadBack DEF EverySnapshotReadsBack, RInv, FInv, FilesInv
  <1>2. QED
    BY <1>1, LakeAgreesWithInlinedTables, SnapshotsReadTheirFiles, SnapshotsReadTheirLake, PTL
=============================================================================
