CONSTANTS
    Hosts <- MCHosts
    Pids <- MCPids
    Procs <- MCProcs
    MaxWal = 4
    MaxBackups = 3
    Batch = 2
    MaxBinlog = 2
    MaxFiles = 2
    MaxMysqlBackups = 3
    MaxCapture = 1
    p1 = p1
    p2 = p2
    Paths <- MCPaths
    MaxEntry = 2
    MaxFileBackups = 3
    MaxCommands = 2
    RowCounts = {8, 20}
    MinPreviousRows = 10
    DropPercent = 50
SPECIFICATION CommandsSpec
INVARIANTS
    TypeOK ExclusionUnlessEvicted OwnerHasFile
    NoGapUnlessTainted RestoreAtExact
    MysqlLossIsKnown
    RestoreMatchesIndex
    ExitTellsTruth
