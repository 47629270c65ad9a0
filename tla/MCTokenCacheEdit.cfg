\* The tree may change while a run is between asking git and reading.
SPECIFICATION Spec
CONSTANTS
    Runs = {w1, w2, s}
    Snapshots = {s}
    Files = {f}
    Texts <- MCTexts
    Clean <- MCClean
    Terms <- MCTerms
    MidRun = TRUE
    ShardLimit = 1
    MaxEdits = 1
    Nobody = nobody
CHECK_DEADLOCK FALSE
INVARIANT WarmIsCold
