SPECIFICATION PgRestoreSpec
CONSTANTS
    PgTables = {1, 2, 3}
    PgSchemas <- ToLaterTable
    PgTargets = {"empty"}
    RestoreFaults = {}
    MaxRestores = 2
INVARIANTS
    RestoreCompletes
CHECK_DEADLOCK FALSE
