SPECIFICATION FairSpec
CONSTANTS
    Docs = {d1, d2, d3}
    Habits = {}
    MaxOwn = 4
    MaxChange = 5
    MaxDeath = 1
CHECK_DEADLOCK FALSE
INVARIANTS
    UniqueNumbers
    NumbersCommitted
    IntervalsApart
PROPERTIES
    AllNumbered
