SPECIFICATION PgRestoreSpec
CONSTANTS
    PgTables = {1, 2, 3}
    PgSchemas <- WithSerial
    PgTargets = {"original"}
    RestoreFaults = {}
    MaxRestores = 2
INVARIANTS
    RestoreCompletes
CHECK_DEADLOCK FALSE
