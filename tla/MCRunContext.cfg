SPECIFICATION Spec
CONSTANTS
    w1 = w1
    w2 = w2
    poll = poll
    nest = nest
    plain = plain
    Workers <- MCWorkers
    Builders <- MCBuilders
    Polling <- MCPolling
    Nesting <- MCNesting
    MaxEmit = 2
    Cap = 2
    MaxPolls = 2
    None = None
INVARIANTS
    TypeOK
    StopIsExplained
    LateAtMostOnce
    NoSilentTruncation
    ChargedOnce
PROPERTY StopsWhenTold
