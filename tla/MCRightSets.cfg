SPECIFICATION Spec
CONSTANTS
    Perms = {p1, p2}
    Resources = {r1, r2}
    Subjects = {s1}
    Filters = {""}
    Letters = {"R", "U"}
    DefaultAccess = {"R"}
    Format = 2
    Habits = {}
    MaxPending = 1
    MaxRestart = 1
INVARIANTS
    RightsAsGranted
    CountsExact
    NothingUngranted
SYMMETRY PermsAlike
