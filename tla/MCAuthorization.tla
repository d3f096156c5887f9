--------------------------- MODULE MCAuthorization ---------------------------
(***************************************************************************)
(* Policies of up to two rules out of ten that meet every branch of the    *)
(* matching, for a reader with and without a tenant and for an             *)
(* administrator, and requests of up to two statements out of six on       *)
(* three tables of two schemas.  One question is asked of the statements   *)
(* in SomeTrees: queries of every combination of a few WITHs, FROMs,       *)
(* projections and conditions, and the other statements.                   *)
(***************************************************************************)
EXTENDS ExplainAuthz

CONSTANT none

NoClaims == [c \in {} |-> none]

Person(subject, scopes, claims) ==
    [attributes |-> [subject |-> {subject}, issuer |-> {"quacklake"}, scopes |-> scopes,
                     groups |-> {}, roles |-> {}],
     claims     |-> claims]

ThreePrincipals ==
    {Person("reader", {"read"}, "tenant" :> "a"),
     Person("guest", {"read"}, NoClaims),
     Person("admin", {"read", "admin"}, "tenant" :> "b")}

Match(any, all, claims) == [any |-> any, all |-> all, claims |-> claims]
Anyone == Match(NoClaims, NoClaims, NoClaims)
Admins == Match("subject" :> {"admin", "root"}, "scopes" :> {"read", "admin"}, NoClaims)
Readers == Match("scopes" :> {"read", "write"}, NoClaims, NoClaims)
TenantA == Match(NoClaims, NoClaims, "tenant" :> "a")

Resource(schema, table, column, columns) ==
    [schema |-> schema, table |-> table, column |-> column, columns |-> columns]
Anything == Resource(none, none, none, none)

A(effect, who, actions, what, predicate) ==
    [effect |-> effect, principal |-> who, actions |-> actions, resource |-> what,
     predicateClaims |-> predicate]

TenRules ==
    {A("allow", Admins, {"*"}, Anything, {}),
     A("allow", Readers, {"table.read", "column.read"}, Resource("main", "*", none, none), {}),
     A("allow", Readers, {"table.read", "column.read"}, Resource("main", "t", none, {"id"}), {"tenant"}),
     A("allow", Anyone, {"column.read"}, Resource(none, none, "*", none), {}),
     A("allow", TenantA, {"table.read", "table.insert"}, Resource(none, "t", none, none), {}),
     A("deny", Anyone, {"column.read"}, Resource("main", "t", "pay", none), {}),
     A("deny", Anyone, {"*"}, Resource("main", "t", none, {"pay"}), {"tenant"}),
     A("deny", TenantA, {"table.insert"}, Resource("main", none, none, none), {}),
     A("deny", Admins, {"table.read"}, Resource(none, "u", none, {"*"}), {}),
     A("allow", Anyone, {"schema.drop"}, Resource("main", "u", none, none), {})}

-----------------------------------------------------------------------------
(* Syntax trees                                                            *)

TableOf(schema, table, columns) == [schema |-> schema, table |-> table, columns |-> columns]
ThreeTables == {TableOf("main", "t", {"id", "pay"}), TableOf("main", "u", {"id"}),
                TableOf("aux", "u", {"id", "k"})}

Ref(schema, name, alias) == [kind |-> "table", schema |-> schema, name |-> name, alias |-> alias]
Plain(name) == Ref(none, name, none)
Star(qualifier) == [kind |-> "star", qualifier |-> qualifier]
Column(qualifier, name) == [kind |-> "column", qualifier |-> qualifier, name |-> name]
Alias(this, alias) == [kind |-> "alias", this |-> this, alias |-> alias]
Subquery(this, alias) == [kind |-> "subquery", this |-> this, alias |-> alias]
Function(args) == [kind |-> "function", args |-> args]
Literal == [kind |-> "literal"]
Union(left, right) == [kind |-> "union", left |-> left, right |-> right]

With(ctes, projections, from, nested) ==
    [kind |-> "select", ctes |-> ctes, projections |-> projections, from |-> from,
     nested |-> nested]
Select(projection, from) == With(<<>>, <<projection>>, from, <<>>)
All(name) == Select(Star(<<>>), <<Plain(name)>>)
Cte(alias, this) == <<[alias |-> alias, this |-> this]>>

FewWiths ==
    {<<>>, Cte("c", All("t")), Cte("t", All("u")), Cte("c", Union(All("t"), All("c"))),
     Cte("c", All("x")), Cte("c", All("t")) \o Cte("u", All("c"))}

\* x is not in the catalog.
FewRelations ==
    {Plain("t"), Ref("aux", "u", "a"), Plain("c"), Ref(none, "u", "a"),
     Subquery(Select(Column(<<>>, "id"), <<Plain("t")>>), "s"), Subquery(All("c"), "s")}
OtherRelations ==
    {Plain("x"), Ref("main", "c", none), Plain("sqlite_master"), Plain("ducklake_schema"),
     Plain("ducklake_column"), Plain("ducklake_table"), Ref("information_schema", "columns", none),
     Ref("information_schema", "tables", none), Ref("information_schema", "schemata", none),
     Alias(Plain("t"), "s"), Alias(Function(<<Literal>>), "s"),
     Subquery(With(Cte("c", All("u")), <<Star(<<>>)>>, <<Plain("c"), Plain("t")>>, <<>>), none)}

FewProjections ==
    {Star(<<>>), Star(<<"a">>), Column(<<>>, "id"), Column(<<"s">>, "id"), Column(<<"t">>, "pay"),
     Column(<<"aux", "u">>, "k"), Alias(Function(<<Column(<<>>, "pay"), Column(<<"a">>, "id")>>), "n"),
     Subquery(All("u"), none), Literal}

FewConditions == {<<>>, <<Function(<<Subquery(All("c"), none), Column(<<>>, "id")>>)>>,
                  <<Subquery(All("t"), none)>>}

Froms == {<<>>} \cup {<<r>> : r \in FewRelations \cup OtherRelations}
            \cup {<<l, r>> : l, r \in FewRelations}

Trees == {With(ctes, <<projection>>, from, nested) :
             ctes \in FewWiths, projection \in FewProjections, from \in Froms,
             nested \in FewConditions}

FewQueries == {All("t"), All("x"), Union(All("t"), All("u")), Union(All("u"), All("x")),
               With(Cte("c", All("t")), <<Star(<<>>)>>, <<Plain("c")>>, <<>>)}
Queried == {{}} \cup {{query} : query \in FewQueries}

Targets == {Plain("t"), Ref("aux", "u", none), Plain("ducklake_table")}

\* VALUES ((SELECT ...)), SET and WHERE with subqueries, USING a table, an unknown one.
FewRests == {<<>>, <<Subquery(All("u"), none)>>, <<Subquery(All("x"), none)>>,
             <<Function(<<Subquery(All("t"), none)>>), Ref("aux", "u", "a")>>}

SomeTrees ==
    Trees \cup FewQueries
        \cup {[kind |-> kind] : kind \in {"internal", "unsupported", "unparsed"}}
        \cup {[kind |-> kind, name |-> "aux"] : kind \in {"create_schema", "drop_schema"}}
        \cup {[kind |-> "create_table", target |-> target, query |-> query] :
                 target \in Targets, query \in Queried}
        \cup {[kind |-> "insert", target |-> target, query |-> query, nested |-> nested] :
                 target \in Targets, query \in Queried, nested \in FewRests}
        \cup {[kind |-> kind, target |-> target, nested |-> nested] :
                 kind \in {"update", "delete"}, target \in Targets, nested \in FewRests}
        \cup {[kind |-> "alter_table", target |-> target] : target \in Targets}
        \cup {[kind |-> "drop_table", targets |-> {Plain("t"), target}] : target \in Targets}

SixStatements ==
    {ClassifySqlStatement(tree, ThreeTables) :
        tree \in {Select(Column(<<>>, "pay"), <<Plain("t")>>),
                  With(<<>>, <<Column(<<>>, "pay"), Column(<<"u">>, "id")>>, <<Plain("t"), Plain("u")>>, <<>>),
                  [kind |-> "drop_schema", name |-> "main"],
                  [kind |-> "internal"],
                  All("t"), All("x")}}

\* A token is no one's, or the reader's with a policy or without.
SomeResolved ==
    {none} \cup {[principal |-> Person("reader", {"read"}, "tenant" :> "a"), policy |-> pol,
                  catalog |-> "c1"] :
                    pol \in {none, [defaultEffect |-> "deny",
                                    rules |-> <<A("allow", Readers, {"*"}, Anything, {})>>]}}
TwoCatalogs == {"c1", "c2"}

DuckLakeTables == {"ducklake_schema", "ducklake_column", "ducklake_table"}
InternalTables == {"sqlite_master"}

OneQuestion == explained = NoExplanation

TwoTables == {[schema |-> "main", table |-> "t"], [schema |-> "aux", table |-> "u"]}
=============================================================================
