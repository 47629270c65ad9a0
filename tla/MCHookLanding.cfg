\* One tool call of a session at a time, beside its background line.
SPECIFICATION Spec
CONSTANTS
    s1 = s1
    s2 = s2
    slow = slow
    quick = quick
    peer = peer
    Sessions = {s1, s2}
    Lines <- MCLines
    Session <- MCSession
    Background = {slow}
    Verbs <- MCVerbs
    Hooks = {h1, h2}
    h1 = h1
    h2 = h2
    Parallel = FALSE
    MaxCommits = 2
    MaxLog = 2
    MaxEvents = 1
    MaxFaults = 1
    None = None
SYMMETRY Interchangeable
CHECK_DEADLOCK FALSE
INVARIANTS
    LandedIsTaken
    NotTakenAgain
    TakenIsAnswered
    KeptStays
    PendingIsTaken

