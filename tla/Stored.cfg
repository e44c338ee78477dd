SPECIFICATION StoredSpec
CONSTANTS
    c1 = c1
    c2 = c2
    Colls <- MCColls
    PerSecond = 2
    MaxLog = 4
    MaxMongoBackups = 3
    Policies <- SomePolicies
    Events = {"crash", "write"}
    MaxBackups = 4
    MaxTime = 5
    PgTables = {1, 2, 3}
    PgSchemas <- SomeSchemas
    PgTargets = {"empty", "restored", "original"}
    RestoreFaults = {"connection", "drop"}
    MaxRestores = 2
    MaxHistory = 2
    Retain = 1
    FinishAttempts = 2
    HistoryFaults <- AllHistoryFaults
    MaxMishaps = 2
SYMMETRY CollsSymmetry
INVARIANTS
    ChainsJoin
    LostOnlyInWindows
    RestoreToSecond
    LiveBaseKept
    SurvivorsRestorableIfWritten
    RestoredButSwept
    FailsForAReason
    HistoryKeepsJobs
PROPERTIES
    WindowKept
    RedundancyKept
\* The server stops writing, the destination is full, the time is over: the
\* bounds end every behaviour.
CHECK_DEADLOCK FALSE
