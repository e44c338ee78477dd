SPECIFICATION FileSpec
CONSTANTS
    FileIds = {1, 2}
    Triggers = {1, 2}
    Editors = {"e1", "e2"}
    Loop = "loop"
    MaxSchedules = 2
    MaxSaves = 3
    MaxDamage = 1
    MaxLoads = 3
INVARIANTS
    AcknowledgedIsKept
CHECK_DEADLOCK FALSE
