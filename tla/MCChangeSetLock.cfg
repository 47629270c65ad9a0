\* One path is enough for a lock file that changes without a text hunk.
SPECIFICATION Spec
CONSTANTS
    a = a
    b = b
    Paths <- MCPaths
    MaxEdits = 0
INVARIANT LockfileIsReported
