SPECIFICATION Spec
CONSTANTS
    Null = Null
    MaxSnapshot = 5
    RowsPerFile = 2
INVARIANTS
    EverySnapshotReadsBack
    DeletionsAreReported
    CompactionSeesTheSchemaOfTheWriter
    InlinedDataStaysReachable
    MigrationKeepsPartitions
CHECK_DEADLOCK FALSE
