-------------------------- MODULE SqlClassification --------------------------
(***************************************************************************)
(* What permissions a SQL statement requires (classifySqlStatement of      *)
(* authz.ts).  A statement is the syntax tree the parser makes of it, of   *)
(* which the nodes that the classifier tells apart are left:               *)
(*                                                                         *)
(*   select      ctes, projections, from (joins too), nested (the rest)    *)
(*   union       left, right; INTERSECT and EXCEPT are treated alike       *)
(*   table       schema, name, alias                                       *)
(*   subquery    this, alias          function    args                     *)
(*   alias       this, alias          star        qualifier                *)
(*   column      qualifier, name      literal                              *)
(*                                                                         *)
(* and the statements listed in OwnPermissions.  INSERT, UPDATE and DELETE *)
(* have, besides the target and an INSERT's query, nested: what stands in  *)
(* VALUES, SET, FROM, USING, WHERE, RETURNING and a WITH before them.  The *)
(* classifier does not look there.  A qualifier is a sequence of names:    *)
(* none, an alias or table, a schema and a table.                          *)
(* Bounds: a text is one statement, and the WITH of a query stands in it.  *)
(***************************************************************************)
EXTENDS Naturals, Sequences, FiniteSetsExt

CONSTANTS Undefined,
          DuckLakeTable,        \* names that begin with ducklake_
          InternalTable         \* names that begin with sqlite_

LOCAL INSTANCE SequencesExt

On(schema, table, column) == [schema |-> schema, table |-> table, column |-> column]

Requires(action, resource) == [action |-> action, resource |-> resource]

\* ok and fail; what was found before a failure is only shown, and left out here.
Ok(required) == [confident |-> TRUE, required |-> required]
Fail == [confident |-> FALSE, required |-> {}]

Together(results) ==
    IF \A r \in results : r.confident THEN Ok(UNION {r.required : r \in results}) ELSE Fail

-----------------------------------------------------------------------------
(* Tables                                                                  *)

TableResource(ref) == On(IF ref.schema = Undefined THEN "main" ELSE ref.schema, ref.name, Undefined)

IsCteReference(ref, cteNames) == ref.schema = Undefined /\ ref.name \in cteNames

IsInformationSchemaTable(resource) == resource.schema = "information_schema"

\* What a FROM clause says of a table, twice if it has two aliases.
Source(ref) == [resource |-> TableResource(ref), alias |-> ref.alias]

\* Information schema and DuckLake metadata: their columns are not authorized.
IsSystemMetadataTable(resource) ==
    IsInformationSchemaTable(resource) \/ resource.table \in DuckLakeTable

\* catalog is authorizationSchema: a set of tables with the set of their columns.
SchemaTables(catalog, resource) ==
    {t \in catalog : t.schema = resource.schema /\ t.table = resource.table}

SchemaHasColumn(catalog, resource, column) ==
    \E t \in SchemaTables(catalog, resource) : column \in t.columns

\* unknownSourceReason
IsKnown(resource, catalog) ==
    IsSystemMetadataTable(resource) \/ SchemaTables(catalog, resource) # {}

ReadPermission(resource) ==
    IF IsInformationSchemaTable(resource) THEN
        CASE resource.table = "columns"             -> Requires("column.read", On("*", "*", "*"))
          [] resource.table \in {"tables", "views"} -> Requires("table.read", On("*", "*", Undefined))
          [] OTHER                                  -> Requires("schema.read", On("*", Undefined, Undefined))
    ELSE
        CASE resource.table = "ducklake_schema" ->
                Requires("schema.read", On(resource.schema, Undefined, Undefined))
          [] resource.table = "ducklake_column" -> Requires("column.read", On("*", "*", "*"))
          [] OTHER                              -> Requires("table.read", resource)

MutationPermission(action, resource) ==
    Requires(IF resource.table \in DuckLakeTable THEN "catalog.admin" ELSE action, resource)

ColumnRead(source, column) == Requires("column.read", [source.resource EXCEPT !.column = column])

-----------------------------------------------------------------------------
(* The tables a query reads                                                *)

\* Object.values of a node: everything below it.
Children(node) ==
    CASE node.kind = "select"               -> Range([i \in DOMAIN node.ctes |-> node.ctes[i].this])
                                               \cup Range(node.projections)
                                               \cup Range(node.from) \cup Range(node.nested)
      [] node.kind = "union"                -> {node.left, node.right}
      [] node.kind \in {"subquery", "alias"} -> {node.this}
      [] node.kind = "function"             -> Range(node.args)
      [] OTHER                              -> {}

CteNames(node) == {node.ctes[i].alias : i \in DOMAIN node.ctes}

Found(sources) == [known |-> TRUE, sources |-> sources]
Unknown == [known |-> FALSE, sources |-> {}]

Merged(results) ==
    IF \A found \in results : found.known THEN Found(UNION {found.sources : found \in results})
    ELSE Unknown

\* Mistaken: inside a query only the CTEs of its own WITH are known.
OwnCtes(node, cteNames) == IF node.kind = "select" THEN CteNames(node) ELSE cteNames

\* localCtes: all CTEs of a WITH are known in all of the query, in their bodies too.
CtesInScope(node, cteNames) == IF node.kind = "select" THEN cteNames \cup CteNames(node) ELSE cteNames

RECURSIVE CollectSourceTables(_, _, _)
CollectSourceTables(node, catalog, cteNames) ==
    IF node.kind = "table" THEN
        IF IsCteReference(node, cteNames) \/ node.name \in InternalTable THEN Found({})
        ELSE IF IsKnown(TableResource(node), catalog) THEN Found({Source(node)})
        ELSE Unknown
    ELSE Merged({CollectSourceTables(child, catalog, CtesInScope(node, cteNames)) :
                    child \in Children(node)})

-----------------------------------------------------------------------------
(* The relations of a FROM clause, and the names they are known by         *)

Relation(sources, derived) == [known |-> TRUE, sources |-> sources, derived |-> derived]
NoRelation == [known |-> TRUE, sources |-> {}, derived |-> FALSE, keys |-> {}]
UnknownRelation == [known |-> FALSE, sources |-> {}, derived |-> FALSE, keys |-> {}]

Named(relation, keys) == [known |-> relation.known, sources |-> relation.sources,
                          derived |-> relation.derived, keys |-> keys \ {<<Undefined>>}]

RelationKeys(ref) ==
    {<<ref.alias>>, <<ref.name>>}
        \cup IF ref.schema = Undefined THEN {} ELSE {<<ref.schema, ref.name>>}

\* The relation found in a derived table or a CTE.
Derived(found, keys) ==
    IF found.known THEN Named(Relation(found.sources, TRUE), keys) ELSE UnknownRelation

\* The CTE of this name: the last one.
CteNamed(select, name) ==
    select.ctes[Max({i \in DOMAIN select.ctes : select.ctes[i].alias = name})].this

Aliased(relation, alias) ==
    IF ~relation.derived /\ relation.sources = {} THEN relation
    ELSE Named(relation, relation.keys \cup {<<alias>>})

RECURSIVE RelationFromExpression(_, _, _)
RelationFromExpression(expression, select, catalog) ==
    CASE expression.kind = "alias" ->
            Aliased(RelationFromExpression(expression.this, select, catalog), expression.alias)
      [] expression.kind = "table" /\ IsCteReference(expression, CteNames(select)) ->
            Derived(CollectSourceTables(CteNamed(select, expression.name), catalog, CteNames(select)),
                    {<<expression.alias>>, <<expression.name>>})
      [] expression.kind = "table" /\ ~IsCteReference(expression, CteNames(select)) ->
            IF expression.name \in InternalTable THEN NoRelation
            ELSE IF ~IsKnown(TableResource(expression), catalog) THEN UnknownRelation
            ELSE Named(Relation({Source(expression)}, FALSE), RelationKeys(expression))
      [] expression.kind = "subquery" ->
            Derived(CollectSourceTables(expression.this, catalog, {}), {<<expression.alias>>})
      [] OTHER -> NoRelation

\* A key means the last relation it was given to.
RelationMap(relations) ==
    [key \in UNION {relations[i].keys : i \in DOMAIN relations} |->
        relations[Max({i \in DOMAIN relations : key \in relations[i].keys})]]

Analysis(found, relations, relationMap) ==
    [known           |-> found.known /\ \A i \in DOMAIN relations : relations[i].known,
     sources         |-> found.sources,
     relationMap     |-> relationMap,
     relationSources |-> UNION {relationMap[key].sources : key \in DOMAIN relationMap},
     derived         |-> \E i \in DOMAIN relations : relations[i].derived]

\* analyzeSelect, with what immediateRelations returns.
AnalyzeRelations(select, catalog, relations) ==
    Analysis(CollectSourceTables(select, catalog, {}), relations, RelationMap(relations))

AnalyzeSelect(select, catalog) ==
    AnalyzeRelations(select, catalog,
        [i \in DOMAIN select.from |-> RelationFromExpression(select.from[i], select, catalog)])

-----------------------------------------------------------------------------
(* The columns a query shows                                               *)

\* columnReferences: a table or a star has none, everything else those below it.
RECURSIVE ColumnReferences(_)
ColumnReferences(expression) ==
    IF expression.kind = "column" THEN {expression}
    ELSE UNION {ColumnReferences(child) : child \in Children(expression)}

Readable(sources) == {source \in sources : ~IsSystemMetadataTable(source.resource)}

\* lineageColumnPermissions.  The parser library traces an output column to the columns
\* of tables it comes from; here those are the columns of its name in what the query
\* reads, and it fails if there is none.
LineageColumns(column, analysis, catalog) ==
    LET from == {source \in Readable(analysis.sources) :
                    SchemaHasColumn(catalog, source.resource, column)}
    IN  IF from = {} THEN Fail ELSE Ok({ColumnRead(source, column) : source \in from})

ResolveQualified(reference, analysis, catalog) ==
    IF reference.qualifier \notin DOMAIN analysis.relationMap THEN Fail
    ELSE LET relation == analysis.relationMap[reference.qualifier]
         IN  IF relation.derived THEN Fail
             ELSE IF Readable(relation.sources) = {} THEN Ok({})
             ELSE IF \A source \in relation.sources :
                        SchemaHasColumn(catalog, source.resource, reference.name)
             THEN Ok({ColumnRead(source, reference.name) : source \in relation.sources})
             ELSE Fail

\* A column without a qualifier is one of exactly one relation.
ResolveUnqualified(reference, analysis, catalog) ==
    LET candidates == {source \in Readable(analysis.relationSources) :
                          SchemaHasColumn(catalog, source.resource, reference.name)}
    IN  IF Readable(analysis.relationSources) = {} THEN Ok({})
        ELSE IF ~analysis.derived /\ Cardinality(candidates) = 1
        THEN Ok({ColumnRead(source, reference.name) : source \in candidates})
        ELSE Fail

ResolveColumnReference(reference, analysis, catalog) ==
    IF reference.qualifier # <<>> THEN ResolveQualified(reference, analysis, catalog)
    ELSE ResolveUnqualified(reference, analysis, catalog)

StarPermissions(star, analysis) ==
    LET all(sources) == Ok({ColumnRead(source, "*") : source \in Readable(sources)})
    IN  IF star.qualifier = <<>> THEN all(analysis.relationSources)
        ELSE IF star.qualifier \in DOMAIN analysis.relationMap
        THEN all(analysis.relationMap[star.qualifier].sources)
        ELSE Fail

ShouldUseLineage(expression, analysis) ==
    /\ analysis.derived
    /\ Readable(analysis.relationSources) # {}
    /\ \E reference \in ColumnReferences(expression) :
          reference.qualifier # <<>> =>
              /\ reference.qualifier \in DOMAIN analysis.relationMap
              /\ analysis.relationMap[reference.qualifier].derived

\* The name of an output column, if it has one.
OutputNames(projection) ==
    CASE projection.kind = "alias"  -> {projection.alias}
      [] projection.kind = "column" -> {projection.name}
      [] OTHER                      -> {}

ProjectionPermissions(projection, analysis, catalog) ==
    LET expression == IF projection.kind = "alias" THEN projection.this ELSE projection
        names == OutputNames(projection)
    IN  IF expression.kind = "star" THEN StarPermissions(expression, analysis)
        ELSE IF names # {} /\ ShouldUseLineage(expression, analysis)
        THEN Together({LineageColumns(name, analysis, catalog) : name \in names})
        ELSE Together({ResolveColumnReference(reference, analysis, catalog) :
                          reference \in ColumnReferences(expression)})

ProjectionColumnPermissions(select, analysis, catalog) ==
    IF Readable(analysis.relationSources) = {} \/ analysis.sources = {} THEN Ok({})
    ELSE Together({ProjectionPermissions(projection, analysis, catalog) :
                      projection \in Range(select.projections)})

-----------------------------------------------------------------------------
(* Statements                                                              *)

ReadPermissions(select, analysis, catalog) ==
    IF ~analysis.known THEN Fail
    ELSE Together({Ok({ReadPermission(source.resource) : source \in analysis.sources}),
                   ProjectionColumnPermissions(select, analysis, catalog)})

RECURSIVE ClassifyQueryRead(_, _)
ClassifyQueryRead(node, catalog) ==
    IF node.kind = "union"
    THEN Together({ClassifyQueryRead(branch, catalog) : branch \in {node.left, node.right}})
    ELSE ReadPermissions(node, AnalyzeSelect(node, catalog), catalog)

\* The queries a statement consists of: itself, or what it inserts into a table.
Queries(statement) ==
    CASE statement.kind \in {"select", "union"}        -> {statement}
      [] statement.kind \in {"create_table", "insert"} -> statement.query
      [] OTHER                                         -> {}

\* The rest of a statement, of which nothing is collected.
Passed(statement) ==
    IF statement.kind \in {"insert", "update", "delete"} THEN Range(statement.nested) ELSE {}

\* What a statement requires besides.  BEGIN, COMMIT, ROLLBACK, SET, USE and CALL
\* quack_clear_cache() are "internal"; what was not parsed is "unparsed", any other
\* statement "unsupported".
OwnPermissions(statement) ==
    CASE statement.kind \in {"internal", "select", "union"} -> Ok({})
      [] statement.kind = "create_schema" ->
            Ok({Requires("schema.create", On(statement.name, Undefined, Undefined))})
      [] statement.kind = "drop_schema"   ->
            Ok({Requires("schema.drop", On(statement.name, Undefined, Undefined))})
      [] statement.kind = "create_table"  ->
            Ok({Requires("table.create", TableResource(statement.target))})
      [] statement.kind = "drop_table"    ->
            Ok({Requires("table.drop", TableResource(ref)) : ref \in statement.targets})
      [] statement.kind = "alter_table"   ->
            Ok({Requires("column.alter", TableResource(statement.target))})
      [] statement.kind = "insert"        ->
            Ok({MutationPermission("table.insert", TableResource(statement.target))})
      [] statement.kind = "update"        ->
            Ok({MutationPermission("table.update", TableResource(statement.target))})
      [] statement.kind = "delete"        ->
            Ok({MutationPermission("table.delete", TableResource(statement.target))})
      [] OTHER                            -> Fail

ClassifyAstNode(statement, catalog) ==
    Together({OwnPermissions(statement)}
        \cup {ClassifyQueryRead(query, catalog) : query \in Queries(statement)})

\* The permissions in some order: decisions do not depend on it.
Classified(result) ==
    [confident |-> result.confident, required |-> SetToSeq(result.required)]

ClassifySqlStatement(statement, catalog) == Classified(ClassifyAstNode(statement, catalog))
=============================================================================
