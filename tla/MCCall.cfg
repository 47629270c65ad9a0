SPECIFICATION Spec
CONSTANTS
    Loud = loud
    Quiet = quiet
    Calls <- MCCalls
    Children = {loud}
    Threads = {t, u}
    NoCall = none
    PipeSize = 1
    MaxOutput <- MCOutput
    KeepStderr = 0
    Helped = {loud}
CHECK_DEADLOCK FALSE
INVARIANTS
    OkIsWhole
    NeverJammed
    StopsOnlyItsOwn
PROPERTY AbandonedEnds
