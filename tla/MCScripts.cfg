SPECIFICATION FairSpec
CONSTANTS
    Vms = {"main", "lp"}
    Docs = {"d1", "d2"}
    ScriptsOrder <- MCOrder
    RunAt <- MCRunAt
    Triggers <- MCTriggers
    Writes <- MCWrites
    Unsafe = {}
    KeepSource = {"s2"}
    MaxCountLoops = 0
    MaxPart = 1
    MaxPut = 1
    MaxCrash = 1
    MaxLog = 9
    UpdateFails = TRUE
    SendFails = TRUE
CHECK_DEADLOCK FALSE
PROPERTIES AllTreated
INVARIANTS
    OneMachine
    CascadeEnds
    NoTransactionLost
    LpNotAhead
