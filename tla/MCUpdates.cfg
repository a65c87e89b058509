SPECIFICATION FairSpec
CONSTANTS
    Hurry = {}
    MaxChange = 2
    MaxLoss = 2
    MaxReload = 1
CHECK_DEADLOCK FALSE
INVARIANTS
    Fresh
PROPERTIES
    GetsFresh
