SPECIFICATION Spec
CONSTANTS
    Ids = {d1, d2}
    Values = {v1}
    Requests <- MCRequests
    MaxItems = 3
    MaxCrash = 2
    UseBackup = TRUE
    Faults = {"db", "push", "publish", "info"}
CHECK_DEADLOCK FALSE
INVARIANTS
    AckedQueued
    AckedOpIdUnique
    LogTellsStore
    ChainUnbroken
