---------------------------- MODULE ExplainAuthz ----------------------------
(***************************************************************************)
(* The policy evaluator (Authorization) on statements as the classifier    *)
(* (SqlClassification) makes them of SQL, as POST /admin/authz/explain     *)
(* answers it for a token, a catalog and a statement, without a session.   *)
(***************************************************************************)
EXTENDS Authorization, SequencesExt

CONSTANTS DuckLakeTable, InternalTable,     \* as in SqlClassification
          Tree,             \* statements, as SqlClassification describes them
          CatalogSchema,    \* authorizationSchema of the catalog
          Resolved,         \* what tokens resolve to: [principal, policy, catalog], or
                            \* Undefined
          Catalog

INSTANCE SqlClassification

VARIABLE explained          \* the last question and its answer

Explanation(tree, statement, decision_) ==
    [tree |-> tree, statement |-> statement, decision |-> decision_]

NoExplanation == Explanation(Undefined, Undefined, NoDecision)

ExplainInit == Init /\ explained = NoExplanation

\* A question has no effect on sessions.
Answer(explanation) ==
    /\ explained' = explanation
    /\ UNCHANGED vars

ExplainDenied(tree) ==
    /\ Undefined \in Resolved
    /\ Answer(Explanation(tree, Undefined, Decide(FALSE, "authentication denied", {})))

\* The catalog of the question is not the one the token resolves to.
ExplainOtherCatalog(resolved, catalogId, tree) ==
    /\ catalogId \notin {Undefined, resolved.catalog}
    /\ Answer(Explanation(tree, Undefined, Decide(FALSE, "other catalog", {})))

\* Without SQL there is nothing to permit.
ExplainPolicy(resolved, catalogId) ==
    /\ catalogId \in {Undefined, resolved.catalog}
    /\ Answer(Explanation(Undefined, Undefined,
                          EvaluatePolicy(resolved.principal, resolved.policy, <<>>)))

ExplainStatement(resolved, catalogId, tree) ==
    /\ catalogId \in {Undefined, resolved.catalog}
    /\ LET statement == ClassifySqlStatement(tree, CatalogSchema)
       IN  Answer(Explanation(tree, statement,
                  EvaluatePolicy(resolved.principal, resolved.policy, <<statement>>)))

Ask ==
    \/ \E tree \in Tree : ExplainDenied(tree)
    \/ \E resolved \in Resolved \ {Undefined}, catalogId \in Catalog \cup {Undefined} :
          \/ ExplainPolicy(resolved, catalogId)
          \/ \E tree \in Tree :
                \/ ExplainOtherCatalog(resolved, catalogId, tree)
                \/ ExplainStatement(resolved, catalogId, tree)

\* Bound: questions are asked before a session is opened.
ExplainNext ==
    \/ Next /\ UNCHANGED explained
    \/ principal = Undefined /\ Ask

ExplainSpec == ExplainInit /\ [][ExplainNext]_<<vars, explained>>

-----------------------------------------------------------------------------
(* Correctness                                                             *)

\* The references to tables in a query, each with the names that the WITH clauses
\* around it define.
RECURSIVE References(_, _)
References(node, scope) ==
    IF node.kind = "table" THEN {[ref |-> node, scope |-> scope]}
    ELSE LET inner == IF node.kind = "select"
                      THEN scope \cup {node.ctes[i].alias : i \in DOMAIN node.ctes} ELSE scope
         IN  UNION {References(child, inner) : child \in Children(node)}

\* Those that mean a table of the catalog or of its metadata.
TablesRead(node) ==
    {TableResource(r.ref) : r \in {r \in References(node, {}) :
        /\ ~(r.ref.schema = Undefined /\ r.ref.name \in r.scope)
        /\ r.ref.name \notin InternalTable}}

TablesReadBy(nodes) == UNION {TablesRead(node) : node \in nodes}

\* A query is classified only if every table it reads is known, and then the permission to
\* read each of them is required, wherever it stands: in a CTE, a subquery of any clause, a
\* branch of a UNION, and so for the query of a CREATE TABLE AS or an INSERT; a name that a
\* WITH around it defines is no table.  This is all that is required to be read.  The
\* exception is what an INSERT, UPDATE or DELETE has beside its query: the tables read in
\* its VALUES, SET, FROM, USING, WHERE and RETURNING, known or not, are required only if
\* its query reads them too.
QueriesRequireTheTablesTheyRead ==
    LET statement == explained.statement
        read == TablesReadBy(Queries(explained.tree))
        reads == {ReadPermission(resource) : resource \in read}
        others == {ReadPermission(resource) : resource \in TablesReadBy(Passed(explained.tree))}
    IN  statement # Undefined /\ statement.confident =>
            /\ \A resource \in read : IsKnown(resource, CatalogSchema)
            /\ Range(statement.required) \cap (reads \cup others) = reads
            /\ \A n \in DOMAIN statement.required :
                  statement.required[n].action = "table.read" => statement.required[n] \in reads
=============================================================================
