\* A review before a command, after two inspections that failed.
SPECIFICATION Spec
CONSTANTS
    Sessions = {s1}
    s1 = s1
    Manual = Manual
    Hooks = {h1}
    h1 = h1
    MaxAttempts = 2
    MaxCalls = 3
    MaxKills = 0
    None = None
SYMMETRY Interchangeable
CHECK_DEADLOCK FALSE
INVARIANTS
    UnreviewedIsSaid
