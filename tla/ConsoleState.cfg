SPECIFICATION StateSpec
CONSTANTS
    Ids = {1, 2}
    Exprs <- TwoExprs
    LateLimit = 1
    ScanMax = 2
    MaxTime = 4
    MaxEdits = 3
    r1 = r1
    r2 = r2
    FileIds = {1, 2}
    Triggers = {1, 2}
    Editors <- TwoEditors
    Loop = Loop
    MaxSchedules = 2
    MaxSaves = 3
    MaxDamage = 1
    MaxLoads = 3
    Requests = {1, 2, 3}
    Ttl = 2
    Limit = 1
    MaxProbeTime = 3
    MaxJobs = 1
    Pages = {1}
    Capacity = 4
    MaxLines = 3
    MaxDrops = 1
INVARIANTS
    FiresOnce
    NoCatchUp
    NoLateFire
    NoSilentLoss
    RecoveryRepeats
    OneChildPerKey
    FreshAfterInvalidation
    OutputIsShown
    EndIsShown
CHECK_DEADLOCK FALSE
