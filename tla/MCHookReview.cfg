\* Two hooks at once, two sessions and the session-less slot.  The run ends at MaxCalls.
SPECIFICATION Spec
CONSTANTS
    Sessions = {s1, s2}
    s1 = s1
    s2 = s2
    Manual = Manual
    Hooks = {h1, h2}
    h1 = h1
    h2 = h2
    MaxAttempts = 1
    MaxCalls = 3
    MaxKills = 0
    None = None
SYMMETRY Interchangeable
CHECK_DEADLOCK FALSE
INVARIANTS
    GateOpens
    QuietIsEarned
    ManualReviewCounts
    LandedIsAnswered
