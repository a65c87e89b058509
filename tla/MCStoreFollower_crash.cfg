SPECIFICATION FollowSpec
CONSTANTS
    Ids = {d1, d2}
    Values = {v1}
    Requests <- MCRequests
    MaxItems = 3
    MaxCrash = 1
    MaxRestart = 0
    UseBackup = FALSE
    Faults = {}
CHECK_DEADLOCK FALSE
INVARIANTS OpIdWait
