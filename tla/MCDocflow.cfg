SPECIFICATION FairSpec
CONSTANTS
    ConsistsOf <- MCConsistsOf
    ElementType <- MCElementType
    HasFlow <- MCHasFlow
    Split <- MCSplit
    AndJoin = {"t4"}
    Executor <- MCExecutor
    SubNet <- MCSubNet
    Users = {"u1", "u2"}
    CodeletResult <- MCCodeletResult
    Decisions = {"yes", "no"}
    ForNet <- MCForNet
    Repeat = {"no"}
    Hurried = {}
    MaxSend = 1
    MaxChange = 1
    MaxRepeat = 1
    MaxStop = 1
    MaxId = 40
CHECK_DEADLOCK FALSE
INVARIANTS
    OneContinuation
    JoinTogether
    DecisionKept
    NothingLeft
    StopHolds
PROPERTIES
    ResultFinal
    ProcessEnds
