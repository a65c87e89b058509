SPECIFICATION Spec
CONSTANTS
    Perms = {p1, p2}
    Resources = {r1}
    Subjects = {s1}
    Filters = {"", "f"}
    Letters = {"R", "U"}
    DefaultAccess = {}
    Format = 2
    Habits = {}
    MaxPending = 1
    MaxRestart = 0
INVARIANTS
    RemovedIsGone
