\* One hook at a time, one of them killed.  The run ends at MaxCalls.
SPECIFICATION Spec
CONSTANTS
    Sessions = {s1}
    s1 = s1
    Manual = Manual
    Hooks = {h1}
    h1 = h1
    MaxAttempts = 2
    MaxCalls = 4
    MaxKills = 1
    None = None
SYMMETRY Interchangeable
CHECK_DEADLOCK FALSE
INVARIANTS
    AttemptsBounded
PROPERTIES
    CompleteIsKept
