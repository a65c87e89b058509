SPECIFICATION FairFollowSpec
CONSTANTS
    Ids = {d1, d2}
    Values = {v1}
    Requests <- MCRequests
    MaxItems = 3
    MaxCrash = 0
    MaxRestart = 1
    UseBackup = FALSE
    Faults = {"push"}
CHECK_DEADLOCK FALSE
INVARIANTS OpIdWait FollowerConverges
PROPERTIES WaitEnds
