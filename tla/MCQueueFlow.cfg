SPECIFICATION FairFlowSpec
CONSTANTS
    MaxPart = 1
    MaxPush = 3
    Faults = {"header"}
    BatchLimit = 0
    PrepareResults = {"commit", "no_commit", "recoverable"}
    AfterBatchCommits = FALSE
    DialMayFail = FALSE
    MaxCrash = 2
CHECK_DEADLOCK FALSE
PROPERTIES ImplementsFlow DeliversFlow
