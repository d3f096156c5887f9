------------------------ MODULE TrackedSchema_proofs -------------------------
(***************************************************************************)
(* What holds of tables and their record for every set of names and        *)
(* columns.                                                                *)
(***************************************************************************)
EXTENDS TrackedSchema, SequenceTheorems, FiniteSetTheorems, TLAPS

-----------------------------------------------------------------------------
(* Sequences and sets                                                      *)

\* What is left of a sequence when one of its elements is removed.
LEMMA RemoveAtProperties ==
    ASSUME NEW S, NEW s \in Seq(S), NEW k \in 1 .. Len(s)
    PROVE  /\ RemoveAt(s, k) \in Seq(S)
           /\ Len(RemoveAt(s, k)) = Len(s) - 1
           /\ \A i \in 1 .. Len(s) - 1 : RemoveAt(s, k)[i] = s[IF i < k THEN i ELSE i + 1]
  <1> DEFINE a == SubSeq(s, 1, k - 1)
             b == SubSeq(s, k + 1, Len(s))
             ab == a \o b
  <1>1. Len(s) \in Nat /\ k \in 1 .. Len(s)
    OBVIOUS
  <1>2. /\ a \in Seq(S) /\ Len(a) = k - 1
        /\ \A i \in 1 .. k - 1 : a[i] = s[i]
    OBVIOUS
  <1>3. /\ b \in Seq(S) /\ Len(b) = Len(s) - k
        /\ \A i \in 1 .. Len(s) - k : b[i] = s[k + i]
    OBVIOUS
  <1>4. RemoveAt(s, k) = ab
    BY DEF RemoveAt
  <1> HIDE DEF a, b
  <1>5. /\ ab \in Seq(S) /\ Len(ab) = Len(a) + Len(b)
        /\ \A i \in 1 .. Len(a) + Len(b) : ab[i] = IF i <= Len(a) THEN a[i] ELSE b[i - Len(a)]
    BY <1>2, <1>3, ConcatProperties, Zenon
  <1> HIDE DEF ab
  <1>6. Len(ab) = Len(s) - 1
    BY <1>1, <1>2, <1>3, <1>5
  <1>7. ASSUME NEW i \in 1 .. Len(s) - 1
        PROVE  ab[i] = s[IF i < k THEN i ELSE i + 1]
    <2>1. ab[i] = IF i <= k - 1 THEN a[i] ELSE b[i - (k - 1)]
      BY <1>1, <1>2, <1>3, <1>5
    <2>2. CASE i < k
      BY <1>1, <1>2, <2>1, <2>2
    <2>3. CASE ~(i < k)
      <3>1. i - (k - 1) \in 1 .. Len(s) - k /\ k + (i - (k - 1)) = i + 1
        BY <1>1, <2>3
      <3>2. QED
        BY <1>1, <1>3, <2>1, <2>3, <3>1
    <2>4. QED
      BY <2>2, <2>3
  <1>8. QED
    BY <1>4, <1>5, <1>6, <1>7

\* A set that is counted by 1 .. n without repetition has n elements.
LEMMA CountedSet ==
    ASSUME NEW n \in Nat, NEW f, DOMAIN f = 1 .. n,
           \A i, j \in 1 .. n : f[i] = f[j] => i = j
    PROVE  Cardinality({f[i] : i \in 1 .. n}) = n
  <1> DEFINE T == {f[i] : i \in 1 .. n}
             g == [i \in 1 .. n |-> f[i]]
  <1>1. g \in Bijection(1 .. n, T)
    BY DEF Bijection, Injection, Surjection, IsInjective
  <1>2. IsFiniteSet(1 .. n) /\ Cardinality(1 .. n) = n
    BY FS_Interval
  <1>3. QED
    BY <1>1, <1>2, FS_Bijection DEF ExistsBijection

-----------------------------------------------------------------------------
(* The invariant                                                           *)

\* A table has columns, each once.
TableColumns ==
    {columns \in Seq(Column) :
        /\ Len(columns) >= 1
        /\ \A i, j \in 1 .. Len(columns) : columns[i] = columns[j] => i = j}

Row(s, c, n) == [table |-> s, name |-> c, ordinal |-> n]

Increasing(ords) == \A i, j \in DOMAIN ords : i < j => ords[i] < ords[j]

\* The rows are those of the columns, and their ordinals, whatever they are, go up.
Records(rows, s, columns) ==
    \E ords \in [1 .. Len(columns) -> Nat] :
        /\ Increasing(ords)
        /\ rows = {Row(s, columns[i], ords[i]) : i \in 1 .. Len(columns)}

\* Of tables that are not declared nothing is known but that their rows are rows.
IInv ==
    /\ tables \in [DOMAIN tables -> TableColumns]
    /\ \A row \in tracked : row = Row(row.table, row.name, row.ordinal) /\ row.table \in Stored
    /\ declared \subseteq Stored \cap DOMAIN tables
    /\ \A s \in declared : Records(TrackedOf(s), s, tables[s])

\* The invariant looks at a declared table and its rows alone.
LEMMA OthersAreAsBefore ==
    ASSUME IInv, NEW s \in declared, s \in DOMAIN tables',
           tables'[s] = tables[s], TrackedOf(s)' = TrackedOf(s)
    PROVE  Records(TrackedOf(s)', s, tables'[s])
  BY DEF IInv

LEMMA ColumnsAreTableColumns ==
    ASSUME NEW columns \in Columns
    PROVE  columns \in TableColumns /\ DOMAIN columns = 1 .. Len(columns) /\ Len(columns) \in Nat
  <1>1. PICK n \in 1 .. MaxColumns : columns \in [1 .. n -> Column]
    BY DEF Columns
  <1>2. n \in Nat /\ n >= 1
    BY <1>1, BoundsArePositive
  <1>3. columns \in Seq(Column) /\ Len(columns) = n /\ DOMAIN columns = 1 .. n
    BY <1>1, <1>2
  <1>4. QED
    BY <1>2, <1>3 DEF Columns, TableColumns

-----------------------------------------------------------------------------
(* Steps                                                                   *)

\* A new table has the record of its columns and nothing that was left under its name.
LEMMA CreateTableStep ==
    ASSUME IInv, NEW s \in Stored, NEW columns \in Columns, CreateTable(s, columns)
    PROVE  IInv'
  <1> DEFINE n == Len(columns)
             rows == {Row(s, columns[i], i - 1) : i \in 1 .. n}
  <1>1. columns \in TableColumns /\ DOMAIN columns = 1 .. n /\ n \in Nat
    BY ColumnsAreTableColumns
  <1>2. /\ s \notin DOMAIN tables
        /\ tables' = WithTable(s, columns)
        /\ tracked' = (tracked \ TrackedOf(s)) \cup rows
        /\ declared' = declared \cup {s}
    BY <1>1 DEF CreateTable, TableExists, Row
  <1>3. /\ DOMAIN tables' = DOMAIN tables \cup {s}
        /\ tables'[s] = columns
        /\ \A t \in DOMAIN tables : tables'[t] = tables[t]
        /\ tables' \in [DOMAIN tables' -> TableColumns]
    BY <1>1, <1>2 DEF WithTable, IInv
  <1>4. \A row \in rows : row = Row(row.table, row.name, row.ordinal) /\ row.table = s
    BY DEF Row
  <1> HIDE DEF rows
  <1>5. TrackedOf(s)' = rows
    BY <1>2, <1>4 DEF TrackedOf
  <1>6. \A t : t # s => TrackedOf(t)' = TrackedOf(t)
    BY <1>2, <1>4 DEF TrackedOf
  <1>7. Records(rows, s, columns)
    <2> DEFINE ords == [i \in 1 .. n |-> i - 1]
    <2>1. ords \in [1 .. n -> Nat] /\ Increasing(ords)
      BY <1>1 DEF Increasing
    <2>2. rows = {Row(s, columns[i], ords[i]) : i \in 1 .. n}
      BY DEF rows
    <2>3. QED
      BY <2>1, <2>2 DEF Records
  <1>8. \A t \in declared' : Records(TrackedOf(t)', t, tables'[t])
    <2> TAKE t \in declared'
    <2>1. CASE t = s
      BY <1>3, <1>5, <1>7, <2>1
    <2>2. CASE t # s
      <3>1. t \in declared /\ t \in DOMAIN tables
        BY <1>2, <2>2 DEF IInv
      <3>2. QED
        BY <1>3, <1>6, <2>2, <3>1, OthersAreAsBefore
    <2>3. QED
      BY <2>1, <2>2
  <1>9. \A row \in tracked' : row = Row(row.table, row.name, row.ordinal) /\ row.table \in Stored
    BY <1>2, <1>4 DEF IInv
  <1>10. declared' \subseteq Stored \cap DOMAIN tables'
    BY <1>2, <1>3 DEF IInv
  <1>11. QED
    BY <1>3, <1>8, <1>9, <1>10 DEF IInv

\* A statement that SQLite alone does, to a table that is declared no more.
LEMMA UnrecordedStep ==
    ASSUME IInv, NEW s, tracked' = tracked,
           declared' \subseteq declared \ {s},
           tables' \in [DOMAIN tables' -> TableColumns],
           \A t \in DOMAIN tables \ {s} : t \in DOMAIN tables' /\ tables'[t] = tables[t]
    PROVE  IInv'
  <1>1. \A t : TrackedOf(t)' = TrackedOf(t)
    BY DEF TrackedOf
  <1>2. declared' \subseteq Stored \cap DOMAIN tables'
    BY DEF IInv
  <1>3. \A t \in declared' : Records(TrackedOf(t)', t, tables'[t])
    <2> TAKE t \in declared'
    <2>1. t \in declared /\ t \in DOMAIN tables'
      BY <1>2
    <2>2. tables'[t] = tables[t]
      BY DEF IInv
    <2>3. QED
      BY <1>1, <2>1, <2>2, OthersAreAsBefore
  <1>4. QED
    BY <1>2, <1>3 DEF IInv

\* A rename takes the rows along, unless another table left rows under the new name.
LEMMA RenameStep ==
    ASSUME IInv, NEW s \in Stored, NEW d \in Stored, RenameTable(s, d)
    PROVE  IInv'
  <1>1. CASE TableExists(d)
    BY <1>1 DEF RenameTable, Answered, IInv, TrackedOf
  <1>2. CASE ~TableExists(d)
    <2>1. /\ s \in DOMAIN tables /\ d \notin DOMAIN tables /\ s # d
          /\ tables' = RenameTables(s, d)
          /\ tracked' = IF ColumnsCollide(s, d) THEN tracked ELSE Moved(s, d)
          /\ declared' = (declared \ {s})
                         \cup IF s \in declared /\ TrackedOf(d) = {} THEN {d} ELSE {}
      BY <1>2 DEF RenameTable, TableExists
    <2>2. /\ DOMAIN tables' = (DOMAIN tables \ {s}) \cup {d}
          /\ tables'[d] = tables[s]
          /\ \A t \in DOMAIN tables \ {s} : tables'[t] = tables[t]
          /\ tables' \in [DOMAIN tables' -> TableColumns]
      BY <2>1 DEF RenameTables, IInv
    <2> DEFINE rows == {[row EXCEPT !.table = d] : row \in TrackedOf(s)}
    <2>3. \A row \in TrackedOf(s) : [row EXCEPT !.table = d] = Row(d, row.name, row.ordinal)
      BY DEF TrackedOf, IInv, Row
    <2>4. \A row \in rows : row = Row(row.table, row.name, row.ordinal) /\ row.table = d
      BY <2>3 DEF Row
    <2>5. rows = {Row(d, row.name, row.ordinal) : row \in TrackedOf(s)}
      BY <2>3
    <2> HIDE DEF rows
    <2>6. tracked' = tracked \/ tracked' = (tracked \ TrackedOf(s)) \cup rows
      BY <2>1 DEF Moved, rows
    <2>7. \A t : t # s /\ t # d => TrackedOf(t)' = TrackedOf(t)
      BY <2>4, <2>6 DEF TrackedOf
    <2>8. ASSUME s \in declared, TrackedOf(d) = {}
          PROVE  Records(TrackedOf(d)', d, tables'[d])
      <3>1. ~ColumnsCollide(s, d)
        BY <2>8 DEF ColumnsCollide, ColumnExists
      <3>2. tracked' = (tracked \ TrackedOf(s)) \cup rows
        BY <2>1, <3>1 DEF Moved, rows
      <3>3. TrackedOf(d)' = rows
        BY <2>4, <2>8, <3>2 DEF TrackedOf
      <3>4. PICK ords \in [1 .. Len(tables[s]) -> Nat] :
               /\ Increasing(ords)
               /\ TrackedOf(s) = {Row(s, tables[s][i], ords[i]) : i \in 1 .. Len(tables[s])}
        BY <2>8 DEF IInv, Records
      <3>5. \A i \in 1 .. Len(tables[s]) :
               /\ Row(s, tables[s][i], ords[i]).name = tables[s][i]
               /\ Row(s, tables[s][i], ords[i]).ordinal = ords[i]
        BY DEF Row
      <3>6. rows = {Row(d, tables[s][i], ords[i]) : i \in 1 .. Len(tables[s])}
        BY <2>5, <3>4, <3>5
      <3>7. QED
        BY <2>2, <3>3, <3>4, <3>6 DEF Records
    <2>9. \A t \in declared' : Records(TrackedOf(t)', t, tables'[t])
      <3> TAKE t \in declared'
      <3>1. CASE t = d
        <4>1. s \in declared /\ TrackedOf(d) = {}
          BY <2>1, <3>1 DEF IInv
        <4>2. QED
          BY <2>8, <3>1, <4>1
      <3>2. CASE t # d
        <4>1. t \in declared /\ t # s /\ t \in DOMAIN tables
          BY <2>1, <3>2 DEF IInv
        <4>2. QED
          BY <2>2, <2>7, <3>2, <4>1, OthersAreAsBefore
      <3>3. QED
        BY <3>1, <3>2
    <2>10. \A row \in tracked' : row = Row(row.table, row.name, row.ordinal) /\ row.table \in Stored
      BY <2>4, <2>6 DEF IInv
    <2>11. declared' \subseteq Stored \cap DOMAIN tables'
      BY <2>1, <2>2 DEF IInv
    <2>12. QED
      BY <2>2, <2>9, <2>10, <2>11 DEF IInv
  <1>3. QED
    BY <1>1, <1>2

\* The next ordinal is one more than that of the last column.
LEMMA NextOrdinalFollowsTheLast ==
    ASSUME NEW s, NEW columns \in TableColumns, NEW ords \in [1 .. Len(columns) -> Nat],
           Increasing(ords),
           TrackedOf(s) = {Row(s, columns[i], ords[i]) : i \in 1 .. Len(columns)}
    PROVE  NextColumnOrdinal(s) = ords[Len(columns)] + 1
  <1> DEFINE n == Len(columns)
             S == {row.ordinal : row \in TrackedOf(s)}
  <1>1. n \in Nat /\ n >= 1 /\ n \in 1 .. n
    BY DEF TableColumns
  <1>2. \A i \in 1 .. n : Row(s, columns[i], ords[i]).ordinal = ords[i]
    BY DEF Row
  <1>3. S = {ords[i] : i \in 1 .. n}
    BY <1>2
  <1>4. \A i \in 1 .. n : ords[i] \in Nat /\ ords[i] =< ords[n]
    BY <1>1 DEF Increasing
  <1>5. ords[n] \in S /\ \A m \in S : ords[n] >= m /\ m \in Nat
    BY <1>1, <1>3, <1>4
  <1> HIDE DEF S
  <1>6. Max(S) \in S /\ \A m \in S : Max(S) >= m
    BY <1>5 DEF Max
  <1>7. Max(S) = ords[n]
    BY <1>5, <1>6
  <1>8. TrackedOf(s) # {}
    BY <1>1
  <1>9. QED
    BY <1>7, <1>8 DEF NextColumnOrdinal, S

\* A column is added at the end of both.
LEMMA AddColumnStep ==
    ASSUME IInv, NEW s \in Stored, NEW c \in Column, AddColumn(s, c)
    PROVE  IInv'
  <1>1. CASE c \in Range(tables[s])
    BY <1>1 DEF AddColumn, Answered, IInv, TrackedOf
  <1>2. CASE c \notin Range(tables[s])
    <2> DEFINE columns == tables[s]
               longer == Append(columns, c)
               new == Row(s, c, NextColumnOrdinal(s))
    <2>1. /\ s \in DOMAIN tables
          /\ tables' = [tables EXCEPT ![s] = longer]
          /\ tracked' = tracked \cup {new}
          /\ declared' = declared
      BY <1>2 DEF AddColumn, TableExists, Row
    <2>2. /\ columns \in TableColumns /\ Len(columns) \in Nat /\ Len(columns) >= 1
          /\ columns \in Seq(Column) /\ DOMAIN columns = 1 .. Len(columns)
      BY <2>1 DEF IInv, TableColumns
    <2>3. \A i \in 1 .. Len(columns) : columns[i] # c
      BY <1>2, <2>2 DEF Range
    <2>4. /\ longer \in Seq(Column) /\ Len(longer) = Len(columns) + 1
          /\ \A i \in 1 .. Len(columns) : longer[i] = columns[i]
          /\ longer[Len(columns) + 1] = c
      BY <2>2
    <2> HIDE DEF longer, columns
    <2>5. longer \in TableColumns
      <3>1. \A i, j \in 1 .. Len(columns) : columns[i] = columns[j] => i = j
        BY <2>2 DEF TableColumns
      <3>2. ASSUME NEW i \in 1 .. Len(longer), NEW j \in 1 .. Len(longer), longer[i] = longer[j]
            PROVE  i = j
        BY <2>2, <2>3, <2>4, <3>1, <3>2
      <3>3. QED
        BY <2>2, <2>4, <3>2 DEF TableColumns
    <2>6. /\ DOMAIN tables' = DOMAIN tables
          /\ tables'[s] = longer
          /\ \A t \in DOMAIN tables \ {s} : tables'[t] = tables[t]
          /\ tables' \in [DOMAIN tables' -> TableColumns]
      BY <2>1, <2>5 DEF IInv
    <2>7. new = Row(new.table, new.name, new.ordinal) /\ new.table = s
      BY DEF Row
    <2> HIDE DEF new
    <2>8. TrackedOf(s)' = TrackedOf(s) \cup {new}
      BY <2>1, <2>7 DEF TrackedOf
    <2>9. \A t : t # s => TrackedOf(t)' = TrackedOf(t)
      BY <2>1, <2>7 DEF TrackedOf
    <2>10. ASSUME s \in declared
           PROVE  Records(TrackedOf(s)', s, longer)
      <3> DEFINE n == Len(columns)
      <3>1. PICK ords \in [1 .. n -> Nat] :
               /\ Increasing(ords)
               /\ TrackedOf(s) = {Row(s, columns[i], ords[i]) : i \in 1 .. n}
        BY <2>10 DEF IInv, Records, columns
      <3>2. new = Row(s, c, ords[n] + 1)
        BY <2>2, <3>1, NextOrdinalFollowsTheLast DEF new
      <3> DEFINE more == [i \in 1 .. n + 1 |-> IF i = n + 1 THEN ords[n] + 1 ELSE ords[i]]
      <3>3. n \in Nat /\ n >= 1
        BY <2>2
      <3>4. more \in [1 .. n + 1 -> Nat]
        BY <3>1, <3>3
      <3>5. Increasing(more)
        <4>1. \A i \in 1 .. n : ords[i] \in Nat /\ ords[i] =< ords[n]
          BY <3>1, <3>3 DEF Increasing
        <4>2. ASSUME NEW i \in 1 .. n + 1, NEW j \in 1 .. n + 1, i < j
              PROVE  more[i] < more[j]
          <5>1. CASE j = n + 1
            BY <3>3, <4>1, <4>2, <5>1
          <5>2. CASE j # n + 1
            BY <3>1, <3>3, <4>2, <5>2 DEF Increasing
          <5>3. QED
            BY <5>1, <5>2
        <4>3. QED
          BY <3>4, <4>2 DEF Increasing
      <3>6. TrackedOf(s)' = {Row(s, longer[i], more[i]) : i \in 1 .. n + 1}
        <4>1. \A i \in 1 .. n : Row(s, longer[i], more[i]) = Row(s, columns[i], ords[i])
          BY <2>4, <3>3
        <4>2. Row(s, longer[n + 1], more[n + 1]) = new
          BY <2>4, <3>2, <3>3
        <4>3. 1 .. n + 1 = (1 .. n) \cup {n + 1}
          BY <3>3
        <4> HIDE DEF more, n
        <4>4. QED
          BY <2>8, <3>1, <4>1, <4>2, <4>3
      <3>7. QED
        BY <2>4, <3>4, <3>5, <3>6 DEF Records
    <2>11. \A t \in declared' : Records(TrackedOf(t)', t, tables'[t])
      <3> TAKE t \in declared'
      <3>1. CASE t = s
        BY <2>1, <2>6, <2>10, <3>1
      <3>2. CASE t # s
        <4>1. t \in declared /\ t \in DOMAIN tables
          BY <2>1, <3>2 DEF IInv
        <4>2. QED
          BY <2>6, <2>9, <3>2, <4>1, OthersAreAsBefore
      <3>3. QED
        BY <3>1, <3>2
    <2>12. \A row \in tracked' : row = Row(row.table, row.name, row.ordinal) /\ row.table \in Stored
      BY <2>1, <2>7 DEF IInv
    <2>13. declared' \subseteq Stored \cap DOMAIN tables'
      BY <2>1, <2>6 DEF IInv
    <2>14. QED
      BY <2>6, <2>11, <2>12, <2>13 DEF IInv
  <1>3. QED
    BY <1>1, <1>2

\* What a table without one of its columns is.
LEMMA WithoutProperties ==
    ASSUME NEW columns \in TableColumns, NEW c \in Range(columns), Len(columns) > 1
    PROVE  \E k \in 1 .. Len(columns) :
              /\ columns[k] = c
              /\ Without(columns, c) \in TableColumns
              /\ Len(Without(columns, c)) = Len(columns) - 1
              /\ \A i \in 1 .. Len(columns) - 1 :
                    Without(columns, c)[i] = columns[IF i < k THEN i ELSE i + 1]
  <1> DEFINE k == CHOOSE i \in DOMAIN columns : columns[i] = c
             less == RemoveAt(columns, k)
  <1>1. /\ columns \in Seq(Column) /\ Len(columns) \in Nat
        /\ DOMAIN columns = 1 .. Len(columns)
        /\ \A i, j \in 1 .. Len(columns) : columns[i] = columns[j] => i = j
    BY DEF TableColumns
  <1>2. \E i \in DOMAIN columns : columns[i] = c
    BY DEF Range
  <1>3. k \in 1 .. Len(columns) /\ columns[k] = c
    BY <1>1, <1>2
  <1>4. Without(columns, c) = less
    BY DEF Without
  <1> HIDE DEF k
  <1>5. /\ less \in Seq(Column)
        /\ Len(less) = Len(columns) - 1
        /\ \A i \in 1 .. Len(columns) - 1 : less[i] = columns[IF i < k THEN i ELSE i + 1]
    BY <1>1, <1>3, RemoveAtProperties
  <1> HIDE DEF less
  <1>6. ASSUME NEW i \in 1 .. Len(less), NEW j \in 1 .. Len(less), less[i] = less[j]
        PROVE  i = j
    <2> DEFINE at(h) == IF h < k THEN h ELSE h + 1
    <2>1. at(i) \in 1 .. Len(columns) /\ at(j) \in 1 .. Len(columns)
      BY <1>1, <1>3, <1>5
    <2>2. columns[at(i)] = columns[at(j)]
      BY <1>5, <1>6
    <2>3. at(i) = at(j)
      BY <1>1, <2>1, <2>2
    <2>4. QED
      BY <1>1, <1>3, <1>5, <2>3
  <1>7. less \in TableColumns
    BY <1>1, <1>5, <1>6 DEF TableColumns
  <1>8. QED
    BY <1>3, <1>4, <1>5, <1>7

\* A column is removed from both, and the ordinals of the others stay as they are.
LEMMA DropColumnStep ==
    ASSUME IInv, NEW s \in Stored, NEW c \in Column, DropColumn(s, c)
    PROVE  IInv'
  <1>1. CASE ~Droppable(s, c)
    BY <1>1 DEF DropColumn, Answered, IInv, TrackedOf
  <1>2. CASE Droppable(s, c)
    <2> DEFINE columns == tables[s]
               shorter == Without(columns, c)
               n == Len(columns)
    <2>1. /\ s \in DOMAIN tables
          /\ tables' = [tables EXCEPT ![s] = shorter]
          /\ tracked' = {row \in tracked : ~(row.table = s /\ row.name = c)}
          /\ declared' = declared
          /\ c \in Range(columns) /\ n > 1
      BY <1>2 DEF DropColumn, TableExists, Droppable
    <2>2. /\ columns \in TableColumns /\ n \in Nat
          /\ \A i, j \in 1 .. n : columns[i] = columns[j] => i = j
      BY <2>1 DEF IInv, TableColumns
    <2> HIDE DEF columns
    <2>3. PICK k \in 1 .. n :
             /\ columns[k] = c
             /\ shorter \in TableColumns
             /\ Len(shorter) = n - 1
             /\ \A i \in 1 .. n - 1 : shorter[i] = columns[IF i < k THEN i ELSE i + 1]
      BY <2>1, <2>2, WithoutProperties
    <2> HIDE DEF shorter
    <2>4. /\ DOMAIN tables' = DOMAIN tables
          /\ tables'[s] = shorter
          /\ \A t \in DOMAIN tables \ {s} : tables'[t] = tables[t]
          /\ tables' \in [DOMAIN tables' -> TableColumns]
      BY <2>1, <2>3 DEF IInv
    <2>5. TrackedOf(s)' = {row \in TrackedOf(s) : row.name # c}
      BY <2>1 DEF TrackedOf
    <2>6. \A t : t # s => TrackedOf(t)' = TrackedOf(t)
      BY <2>1 DEF TrackedOf
    <2>7. ASSUME s \in declared
          PROVE  Records(TrackedOf(s)', s, shorter)
      <3>1. PICK ords \in [1 .. n -> Nat] :
               /\ Increasing(ords)
               /\ TrackedOf(s) = {Row(s, columns[i], ords[i]) : i \in 1 .. n}
        BY <2>7 DEF IInv, Records, columns
      <3> DEFINE fewer == [i \in 1 .. n - 1 |-> ords[IF i < k THEN i ELSE i + 1]]
      <3> HIDE DEF n
      <3>2. fewer \in [1 .. n - 1 -> Nat]
        BY <2>2, <3>1
      <3>3. Increasing(fewer)
        <4>1. ASSUME NEW i \in 1 .. n - 1, NEW j \in 1 .. n - 1, i < j
              PROVE  fewer[i] < fewer[j]
          <5> DEFINE at(h) == IF h < k THEN h ELSE h + 1
          <5>1. at(i) \in 1 .. n /\ at(j) \in 1 .. n /\ at(i) < at(j)
            BY <2>2, <4>1
          <5>2. fewer[i] = ords[at(i)] /\ fewer[j] = ords[at(j)]
            OBVIOUS
          <5>3. QED
            BY <3>1, <5>1, <5>2 DEF Increasing
        <4>2. QED
          BY <3>2, <4>1 DEF Increasing
      <3>4. \A i \in 1 .. n : Row(s, columns[i], ords[i]).name = columns[i]
        BY DEF Row
      <3>5. \A i \in 1 .. n : columns[i] # c <=> i # k
        BY <2>2, <2>3
      <3>6. TrackedOf(s)' = {Row(s, columns[i], ords[i]) : i \in (1 .. n) \ {k}}
        BY <2>5, <3>1, <3>4, <3>5
      <3>7. ASSUME NEW i \in (1 .. n) \ {k}
            PROVE  \E j \in 1 .. n - 1 : shorter[j] = columns[i] /\ fewer[j] = ords[i]
        <4> DEFINE j == IF i < k THEN i ELSE i - 1
        <4>1. j \in 1 .. n - 1 /\ (IF j < k THEN j ELSE j + 1) = i
          BY <2>2
        <4> HIDE DEF j
        <4>2. shorter[j] = columns[i] /\ fewer[j] = ords[i]
          BY <2>3, <4>1
        <4>3. QED
          BY <4>1, <4>2
      <3>8. ASSUME NEW j \in 1 .. n - 1
            PROVE  \E i \in (1 .. n) \ {k} : shorter[j] = columns[i] /\ fewer[j] = ords[i]
        <4> DEFINE i == IF j < k THEN j ELSE j + 1
        <4>1. i \in (1 .. n) \ {k}
          BY <2>2
        <4>2. shorter[j] = columns[i] /\ fewer[j] = ords[i]
          BY <2>3
        <4>3. QED
          BY <4>1, <4>2
      <3> HIDE DEF fewer
      <3>9. TrackedOf(s)' = {Row(s, shorter[j], fewer[j]) : j \in 1 .. n - 1}
        BY <3>6, <3>7, <3>8
      <3>10. QED
        BY <2>3, <3>2, <3>3, <3>9 DEF Records
    <2>8. \A t \in declared' : Records(TrackedOf(t)', t, tables'[t])
      <3> TAKE t \in declared'
      <3>1. CASE t = s
        BY <2>1, <2>4, <2>7, <3>1
      <3>2. CASE t # s
        <4>1. t \in declared /\ t \in DOMAIN tables
          BY <2>1, <3>2 DEF IInv
        <4>2. QED
          BY <2>4, <2>6, <3>2, <4>1, OthersAreAsBefore
      <3>3. QED
        BY <3>1, <3>2
    <2>9. \A row \in tracked' : row = Row(row.table, row.name, row.ordinal) /\ row.table \in Stored
      BY <2>1 DEF IInv
    <2>10. declared' \subseteq Stored \cap DOMAIN tables'
      BY <2>1, <2>4 DEF IInv
    <2>11. QED
      BY <2>4, <2>8, <2>9, <2>10 DEF IInv
  <1>3. QED
    BY <1>1, <1>2

\* Statements that leave the tables, the record and what is declared alone.
LEMMA NothingChanges ==
    ASSUME IInv, UNCHANGED <<tables, tracked, declared>>
    PROVE  IInv'
  BY DEF IInv, TrackedOf

LEMMA NextStep ==
    ASSUME IInv, Next
    PROVE  IInv'
  <1>1. ASSUME NEW s \in Stored, NEW columns \in Columns, CreateTableAs(s, columns)
        PROVE  IInv'
    <2>1. columns \in TableColumns
      BY ColumnsAreTableColumns
    <2>2. /\ tables' = WithTable(s, columns)
          /\ tracked' = tracked /\ declared' = declared
          /\ s \notin DOMAIN tables
      BY <1>1 DEF CreateTableAs, TableExists
    <2>3. /\ tables' \in [DOMAIN tables' -> TableColumns]
          /\ \A t \in DOMAIN tables \ {s} : t \in DOMAIN tables' /\ tables'[t] = tables[t]
      BY <2>1, <2>2 DEF WithTable, IInv
    <2>4. declared' \subseteq declared \ {s}
      BY <2>2 DEF IInv
    <2>5. QED
      BY <2>2, <2>3, <2>4, UnrecordedStep
  <1>2. ASSUME NEW s \in Stored, DropTable(s)
        PROVE  IInv'
    <2>1. /\ tables' = Restrict(tables, DOMAIN tables \ {s})
          /\ tracked' = tracked /\ declared' = declared \ {s}
      BY <1>2 DEF DropTable
    <2>2. /\ tables' \in [DOMAIN tables' -> TableColumns]
          /\ \A t \in DOMAIN tables \ {s} : t \in DOMAIN tables' /\ tables'[t] = tables[t]
      BY <2>1 DEF Restrict, IInv
    <2>3. QED
      BY <2>1, <2>2, UnrecordedStep
  <1>3. ASSUME NEW s \in Stored, NEW d \in Stored, RenameTableUnrecorded(s, d)
        PROVE  IInv'
    <2>1. CASE TableExists(d)
      BY <1>3, <2>1, NothingChanges DEF RenameTableUnrecorded, Answered
    <2>2. CASE ~TableExists(d)
      <3>1. /\ tables' = RenameTables(s, d)
            /\ tracked' = tracked /\ declared' = declared \ {s}
            /\ s \in DOMAIN tables /\ d \notin DOMAIN tables
        BY <1>3, <2>2 DEF RenameTableUnrecorded, TableExists
      <3>2. /\ tables' \in [DOMAIN tables' -> TableColumns]
            /\ \A t \in DOMAIN tables \ {s} : t \in DOMAIN tables' /\ tables'[t] = tables[t]
        BY <3>1 DEF RenameTables, IInv
      <3>3. QED
        BY <3>1, <3>2, UnrecordedStep
    <2>3. QED
      BY <2>1, <2>2
  <1>4. ASSUME NEW s \in Stored, NEW c \in Column, AddColumnUnrecorded(s, c)
        PROVE  IInv'
    <2>1. CASE c \in Range(tables[s])
      BY <1>4, <2>1, NothingChanges DEF AddColumnUnrecorded, Answered
    <2>2. CASE c \notin Range(tables[s])
      <3> DEFINE columns == tables[s]
                 longer == Append(columns, c)
      <3>1. /\ s \in DOMAIN tables
            /\ tables' = [tables EXCEPT ![s] = longer]
            /\ tracked' = tracked /\ declared' = declared \ {s}
        BY <1>4, <2>2 DEF AddColumnUnrecorded, TableExists
      <3>2. /\ columns \in Seq(Column) /\ Len(columns) \in Nat /\ DOMAIN columns = 1 .. Len(columns)
            /\ \A i, j \in 1 .. Len(columns) : columns[i] = columns[j] => i = j
        BY <3>1 DEF IInv, TableColumns
      <3>3. \A i \in 1 .. Len(columns) : columns[i] # c
        BY <2>2, <3>2 DEF Range
      <3> HIDE DEF columns
      <3>4. /\ longer \in Seq(Column) /\ Len(longer) = Len(columns) + 1
            /\ \A i \in 1 .. Len(columns) : longer[i] = columns[i]
            /\ longer[Len(columns) + 1] = c
        BY <3>2
      <3> HIDE DEF longer
      <3>5. ASSUME NEW i \in 1 .. Len(longer), NEW j \in 1 .. Len(longer), longer[i] = longer[j]
            PROVE  i = j
        BY <3>2, <3>3, <3>4, <3>5
      <3>6. longer \in TableColumns
        BY <3>2, <3>4, <3>5 DEF TableColumns
      <3>7. /\ tables' \in [DOMAIN tables' -> TableColumns]
            /\ \A t \in DOMAIN tables \ {s} : t \in DOMAIN tables' /\ tables'[t] = tables[t]
        BY <3>1, <3>6 DEF IInv
      <3>8. QED
        BY <3>1, <3>7, UnrecordedStep
    <2>3. QED
      BY <2>1, <2>2
  <1>5. ASSUME NEW s \in Stored, NEW c \in Column, DropColumnUnrecorded(s, c)
        PROVE  IInv'
    <2>1. CASE ~Droppable(s, c)
      BY <1>5, <2>1, NothingChanges DEF DropColumnUnrecorded, Answered
    <2>2. CASE Droppable(s, c)
      <3>1. /\ s \in DOMAIN tables
            /\ tables' = [tables EXCEPT ![s] = Without(tables[s], c)]
            /\ tracked' = tracked /\ declared' = declared \ {s}
            /\ c \in Range(tables[s]) /\ Len(tables[s]) > 1
        BY <1>5, <2>2 DEF DropColumnUnrecorded, TableExists, Droppable
      <3>2. tables[s] \in TableColumns
        BY <3>1 DEF IInv
      <3>3. Without(tables[s], c) \in TableColumns
        BY <3>1, <3>2, WithoutProperties
      <3>4. /\ tables' \in [DOMAIN tables' -> TableColumns]
            /\ \A t \in DOMAIN tables \ {s} : t \in DOMAIN tables' /\ tables'[t] = tables[t]
        BY <3>1, <3>3 DEF IInv
      <3>5. QED
        BY <3>1, <3>4, UnrecordedStep
    <2>3. QED
      BY <2>1, <2>2
  <1>6. ASSUME NEW s \in Stored,
               \/ \E exists \in BOOLEAN :
                     \/ CreateExistingTable(s, exists)
                     \/ DropMissingTable(s, exists)
                     \/ AlterMissingTable(s, exists)
               \/ \E c \in Column : AddColumnIfNotExists(s, c)
               \/ DropColumnIfExists(s)
               \/ \E n \in 1 .. MaxColumns : AppendChunk(s, n)
        PROVE  IInv'
    BY <1>6, NothingChanges
       DEF CreateExistingTable, DropMissingTable, AlterMissingTable, AddColumnIfNotExists,
           DropColumnIfExists, AppendChunk, Answered
  <1>7. QED
    BY <1>1, <1>2, <1>3, <1>4, <1>5, <1>6, CreateTableStep, RenameStep, AddColumnStep,
       DropColumnStep
       DEF Next

LEMMA Inductive ==
    Spec => []IInv
  <1>1. Init => IInv
    BY DEF Init, IInv
  <1>2. IInv /\ [Next]_vars => IInv'
    BY NextStep, NothingChanges DEF vars
  <1>3. QED
    BY <1>1, <1>2, PTL DEF Spec

-----------------------------------------------------------------------------
(* Theorems                                                                *)

\* The position of a row is the number of rows before it, whatever the ordinals are.
LEMMA ColumnsInOrder ==
    ASSUME NEW s, NEW columns \in TableColumns, Records(TrackedOf(s), s, columns)
    PROVE  /\ Cardinality(TrackedOf(s)) = Len(columns)
           /\ GetColumns(s) = [i \in 1 .. Len(columns) |-> {columns[i]}]
  <1> DEFINE n == Len(columns)
  <1>1. n \in Nat
    BY DEF TableColumns
  <1>2. PICK ords \in [1 .. n -> Nat] :
           /\ Increasing(ords)
           /\ TrackedOf(s) = {Row(s, columns[i], ords[i]) : i \in 1 .. n}
    BY DEF Records
  <1> HIDE DEF n
  <1> DEFINE f == [i \in 1 .. n |-> Row(s, columns[i], ords[i])]
  <1>3. \A i \in 1 .. n : f[i].ordinal = ords[i] /\ f[i].name = columns[i]
    BY DEF Row
  <1>4. \A i, j \in 1 .. n : ords[i] < ords[j] <=> i < j
    <2> TAKE i \in 1 .. n, j \in 1 .. n
    <2>1. /\ i < j => ords[i] < ords[j]
          /\ j < i => ords[j] < ords[i]
      BY <1>1, <1>2 DEF Increasing
    <2>2. ords[i] \in Nat /\ ords[j] \in Nat /\ i \in Nat /\ j \in Nat
      BY <1>1, <1>2
    <2>3. QED
      BY <2>1, <2>2
  <1>5. \A i, j \in 1 .. n : f[i] = f[j] => i = j
    <2> TAKE i \in 1 .. n, j \in 1 .. n
    <2>1. f[i] = f[j] => ords[i] = ords[j]
      BY <1>3
    <2>2. ords[i] = ords[j] => ~(i < j) /\ ~(j < i)
      BY <1>2, <1>4
    <2>3. QED
      BY <1>1, <2>1, <2>2
  <1>6. TrackedOf(s) = {f[i] : i \in 1 .. n}
    BY <1>2
  <1>7. DOMAIN f = 1 .. n
    OBVIOUS
  <1> HIDE DEF f
  <1>8. Cardinality(TrackedOf(s)) = n
    BY <1>1, <1>5, <1>6, <1>7, CountedSet
  <1>9. ASSUME NEW j \in 1 .. n
        PROVE  Cardinality({q \in TrackedOf(s) : q.ordinal < f[j].ordinal}) = j - 1
    <2> DEFINE g == [i \in 1 .. j - 1 |-> f[i]]
    <2>1. {q \in TrackedOf(s) : q.ordinal < f[j].ordinal} = {g[i] : i \in 1 .. j - 1}
      <3>1. \A i \in 1 .. n : f[i].ordinal < f[j].ordinal <=> i \in 1 .. j - 1
        BY <1>1, <1>3, <1>4
      <3>2. \A i \in 1 .. j - 1 : i \in 1 .. n /\ g[i] = f[i]
        BY <1>1
      <3>3. QED
        BY <1>6, <3>1, <3>2
    <2>2. j - 1 \in Nat /\ DOMAIN g = 1 .. j - 1
      BY <1>1
    <2>3. \A i, h \in 1 .. j - 1 : g[i] = g[h] => i = h
      BY <1>1, <1>5
    <2> HIDE DEF g
    <2>4. QED
      BY <2>1, <2>2, <2>3, CountedSet
  <1>10. ASSUME NEW i \in 1 .. n
         PROVE  {row.name : row \in {r \in TrackedOf(s) :
                   Cardinality({q \in TrackedOf(s) : q.ordinal < r.ordinal}) = i - 1}} = {columns[i]}
    <2> DEFINE At(r) == Cardinality({q \in TrackedOf(s) : q.ordinal < r.ordinal})
    <2>1. \A j \in 1 .. n : At(f[j]) = j - 1
      BY <1>9
    <2> HIDE DEF At
    <2>2. {r \in TrackedOf(s) : At(r) = i - 1} = {f[i]}
      BY <1>1, <1>6, <2>1
    <2>3. {row.name : row \in {r \in TrackedOf(s) : At(r) = i - 1}} = {columns[i]}
      BY <1>3, <2>2
    <2>4. QED
      BY <2>3 DEF At
  <1>11. GetColumns(s) = [i \in 1 .. n |-> {columns[i]}]
    BY <1>8, <1>10 DEF GetColumns
  <1>12. QED
    BY <1>8, <1>11 DEF n

\* However a table made by CREATE TABLE was altered and renamed, the record has exactly
\* its columns in their order, an APPEND of as many is accepted, and statements are
\* authorized against them unless another table has its name (__dq_table_columns,
\* getColumns, authorizationSchema).
THEOREM TheRecordFollows ==
    Spec => []RecordFollowsTheTable
  <1>1. IInv => RecordFollowsTheTable
    <2> SUFFICES ASSUME IInv, NEW s \in declared
                 PROVE  /\ GetColumns(s) = [i \in DOMAIN tables[s] |-> {tables[s][i]}]
                        /\ Accepts(s, Len(tables[s]))
                        /\ \/ AuthorizationColumns(Identity(s)) = Range(tables[s])
                           \/ \E other \in Stored \ {s} :
                                 Identity(other) = Identity(s) /\ TrackedOf(other) # {}
      BY DEF RecordFollowsTheTable
    <2> DEFINE columns == tables[s]
               n == Len(columns)
    <2>1. s \in Stored /\ s \in DOMAIN tables /\ Records(TrackedOf(s), s, columns)
      BY DEF IInv
    <2>2. columns \in TableColumns /\ n \in Nat /\ n >= 1 /\ DOMAIN columns = 1 .. n
      BY <2>1 DEF IInv, TableColumns
    <2>3. Cardinality(TrackedOf(s)) = n /\ GetColumns(s) = [i \in 1 .. n |-> {columns[i]}]
      BY <2>1, <2>2, ColumnsInOrder
    <2>4. PICK ords \in [1 .. n -> Nat] :
             TrackedOf(s) = {Row(s, columns[i], ords[i]) : i \in 1 .. n}
      BY <2>1 DEF Records
    <2>5. \A i \in 1 .. n : Row(s, columns[i], ords[i]).name = columns[i]
      BY DEF Row
    <2> HIDE DEF columns
    <2>6. Range(columns) = {columns[i] : i \in 1 .. n}
      BY <2>2 DEF Range
    <2>7. {row.name : row \in TrackedOf(s)} = Range(columns)
      BY <2>4, <2>5, <2>6
    <2>8. TrackedOf(s) # {}
      BY <2>2, <2>4
    <2>9. Accepts(s, n)
      BY <2>1, <2>3, <2>7, <2>8 DEF Accepts, TableExists, columns
    <2>10. ASSUME ~ \E other \in Stored \ {s} :
                       Identity(other) = Identity(s) /\ TrackedOf(other) # {}
           PROVE  AuthorizationColumns(Identity(s)) = Range(columns)
      <3>1. \A row \in tracked : Identity(row.table) = Identity(s) <=> row.table = s
        BY <2>10 DEF IInv, TrackedOf
      <3>2. {row \in tracked : Identity(row.table) = Identity(s)} = TrackedOf(s)
        BY <3>1 DEF TrackedOf
      <3>3. QED
        BY <2>7, <3>2 DEF AuthorizationColumns
    <2>11. QED
      BY <2>2, <2>3, <2>9, <2>10 DEF columns
  <1>2. QED
    BY <1>1, Inductive, PTL

\* A statement answered with an error changed neither tables nor record, but for a rename
\* to a name that another table left something behind for (execute, renameTable).
THEOREM ErrorsChangeNothing ==
    Spec => ErrorsLeaveTheSchema
  <1> DEFINE Left ==
        answer' = "error" =>
          \/ UNCHANGED <<tables, tracked, versions>>
          \/ \E d \in DOMAIN tables' \ DOMAIN tables : TrackedOf(d) # {} \/ d \in versions
  <1>1. ASSUME NEW s \in Stored, NEW d \in Stored, RenameTable(s, d)
        PROVE  Left
    <2>1. CASE TableExists(d)
      BY <1>1, <2>1 DEF RenameTable, Answered
    <2>2. CASE ~TableExists(d)
      <3>1. d \in DOMAIN tables' \ DOMAIN tables
        BY <1>1, <2>2 DEF RenameTable, RenameTables, TableExists
      <3>2. answer' = "error" => ColumnsCollide(s, d) \/ VersionsCollide(s, d)
        BY <1>1, <2>2 DEF RenameTable
      <3>3. ColumnsCollide(s, d) => TrackedOf(d) # {}
        BY DEF ColumnsCollide, ColumnExists
      <3>4. VersionsCollide(s, d) => d \in versions
        BY DEF VersionsCollide
      <3>5. QED
        BY <3>1, <3>2, <3>3, <3>4
    <2>3. QED
      BY <2>1, <2>2
  <1>2. ASSUME NEW s \in Stored, NEW d \in Stored, RenameTableUnrecorded(s, d)
        PROVE  Left
    BY <1>2 DEF RenameTableUnrecorded, Answered
  <1>3. ASSUME NEW s \in Stored, NEW c \in Column,
               \/ AddColumn(s, c) \/ AddColumnIfNotExists(s, c) \/ AddColumnUnrecorded(s, c)
        PROVE  Left
    BY <1>3 DEF AddColumn, AddColumnIfNotExists, AddColumnUnrecorded, Answered
  <1>4. ASSUME NEW s \in Stored, NEW c \in Column, DropColumn(s, c) \/ DropColumnUnrecorded(s, c)
        PROVE  Left
    BY <1>4 DEF DropColumn, DropColumnUnrecorded, Answered
  <1>5. ASSUME NEW s \in Stored, NEW exists \in BOOLEAN,
               \/ CreateExistingTable(s, exists)
               \/ DropMissingTable(s, exists)
               \/ AlterMissingTable(s, exists)
        PROVE  Left
    BY <1>5 DEF CreateExistingTable, DropMissingTable, AlterMissingTable, Answered
  <1>6. ASSUME NEW s \in Stored,
               \/ \E columns \in Columns : CreateTable(s, columns) \/ CreateTableAs(s, columns)
               \/ DropTable(s)
               \/ DropColumnIfExists(s)
               \/ \E n \in 1 .. MaxColumns : AppendChunk(s, n)
        PROVE  Left
    BY <1>6 DEF CreateTable, CreateTableAs, DropTable, DropColumnIfExists, AppendChunk, Answered
  <1>7. Next => Left
    BY <1>1, <1>2, <1>3, <1>4, <1>5, <1>6 DEF Next
  <1>8. [Next]_vars => [Left]_vars
    BY <1>7
  <1>9. QED
    BY <1>8, PTL DEF Spec, ErrorsLeaveTheSchema
=============================================================================
