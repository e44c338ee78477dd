CONSTANTS
    Submits = {1, 2}
    RestoreIds = {0}
    ConfirmTtl = 0
    MaxConfirmTime = 1
    MaxPages = 2
    MaxVersion = 1
SPECIFICATION ConfirmSpec
INVARIANTS LeftoversNeedConsent
\* The bounds end every behaviour: no page or time left.
CHECK_DEADLOCK FALSE
