SPECIFICATION ExplainSpec
CONSTANTS
    none = none
    Undefined = none
    Principal <- ThreePrincipals
    Rule <- TenRules
    Statement <- SixStatements
    Table <- TwoTables
    MaxRules = 2
    MaxBatch = 2
    DuckLakeTable <- DuckLakeTables
    InternalTable <- InternalTables
    Tree <- SomeTrees
    CatalogSchema <- ThreeTables
    Resolved <- SomeResolved
    Catalog <- TwoCatalogs
CONSTRAINT OneQuestion
INVARIANTS
    TypeOK
    DecisionsFollowTheRules
    StatementsAreIndependent
    MatchedRulesSuffice
    QueriesRequireTheTablesTheyRead
