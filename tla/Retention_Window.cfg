SPECIFICATION Spec
CONSTANTS
    Policies <- KeepWindow
    Events = {"selective"}
    MaxBackups = 4
    MaxTime = 5
PROPERTIES
    WindowKept
CHECK_DEADLOCK FALSE
