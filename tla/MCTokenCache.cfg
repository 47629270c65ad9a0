\* Two runs of the working tree and one of a revision; the tree changes between
\* runs. A shard of one entry.
SPECIFICATION Spec
CONSTANTS
    Runs = {w1, w2, s}
    Snapshots = {s}
    Files = {f}
    Texts <- MCTexts
    Clean <- MCClean
    Terms <- MCTerms
    MidRun = FALSE
    ShardLimit = 1
    MaxEdits = 1
    Nobody = nobody
SYMMETRY Alike
CHECK_DEADLOCK FALSE
INVARIANTS
    EntriesTrue
    WarmIsCold
