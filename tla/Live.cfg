CONSTANTS
    j1 = j1
    j2 = j2
    p1 = p1
    p2 = p2
    v1 = v1
    v2 = v2
    Nobody = Nobody
    Other = Other
    Jobs <- MCJobs
    Pids <- MCPids
    JobFaults <- NoFaults
    MaxCrashes = 2
    Viewers <- MCViewers
    Grace = 2
    Faults <- MonitorFaults
    MaxArrivals = 3
SPECIFICATION LiveSpec
INVARIANTS
    OneChild ReleasedFrameOnlyLate
PROPERTIES
    EventuallyClosed
    UnwatchedEnds WatchedIsServed
\* The bounds end every behaviour: all jobs ended, no arrival left.
CHECK_DEADLOCK FALSE
