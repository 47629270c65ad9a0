\* A late record of a change its session met before: reviewed, reminded or denied.
SPECIFICATION Spec
CONSTANTS
    Sessions = {s1}
    s1 = s1
    Manual = Manual
    Hooks = {h1}
    h1 = h1
    MaxAttempts = 2
    MaxCalls = 3
    MaxKills = 0
    None = None
SYMMETRY Interchangeable
CHECK_DEADLOCK FALSE
INVARIANTS
    LateIsAnswered
