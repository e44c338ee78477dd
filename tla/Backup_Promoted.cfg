CONSTANTS
    MaxCommands = 2
    RowCounts = {8, 20}
    MinPreviousRows = 10
    DropPercent = 50
SPECIFICATION CommandSpec
INVARIANTS PromotedVerifies
\* The last command has ended.
CHECK_DEADLOCK FALSE
