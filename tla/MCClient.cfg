SPECIFICATION FairSpec
CONSTANTS
    Props = {"a"}
    SameSum = {}
    Hurry = {}
    MaxEdit = 2
    MaxOther = 1
    MaxFault = 2
    MaxAll = 4
CHECK_DEADLOCK FALSE
INVARIANTS
    AckedSafe
    NotUndone
PROPERTIES
    EditsArrive
