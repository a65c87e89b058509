\* Every write may fail; three producer starts, three pushes, two deaths.
SPECIFICATION FlowSpec
CONSTANTS
    MaxPart = 2
    MaxPush = 3
    Faults = {"header", "body", "short_body", "info_push", "info_queue"}
    BatchLimit = 0
    PrepareResults = {"commit", "no_commit", "recoverable", "fatal"}
    AfterBatchCommits = TRUE
    DialMayFail = TRUE
    MaxCrash = 2
CHECK_DEADLOCK FALSE
INVARIANTS
    AckedPublished
    ConsumerTypeOK
    NothingSkipped
    SavedCursorSound
    OrderedDelivery
    DeliversOnlyAcked
PROPERTIES
    PublishedImmutable
