CONSTANTS
    j1 = j1
    j2 = j2
    p1 = p1
    p2 = p2
    s1 = s1
    s2 = s2
    Nobody = Nobody
    Other = Other
    Jobs <- MCJobs
    Pids <- MCPids
    JobFaults <- AllFaults
    MaxCrashes = 1
    Submits <- MCSubmits
    RestoreIds = {0}
    ConfirmTtl = 0
    MaxConfirmTime = 1
    MaxPages = 2
    MaxVersion = 1
    Expressions <- SomeExpressions
    FirstDays <- SomeDays
    MAX_DAYS_AHEAD = 3300
    Word = 128
    Profiles = {"p"}
    Keys = {"uri", "dest"}
    Uris = {"uri"}
    Sources = {"uri"}
    Settings = {1, 2}
    Savers = {"page", "terminal"}
    Terminal = {"terminal"}
    Generations = 2
    MaxOpens = 2
    MaxEditions = 2
    MaxHandEdits = 1
SPECIFICATION ConsoleSpec
SYMMETRY MCSymmetry
INVARIANTS
    ChildrenAreCollected ForeignOnlyAfterReuse ClosedMeansGone
    RunsAsApproved
    NoLostChange ReplacedIsKept
PROPERTIES
    ImplementsApproval
    FirstDueMinute
\* The bounds end every behaviour: all jobs ended, no page or time left, the
\* search over.
CHECK_DEADLOCK FALSE
