\* A tracked file under an excluded directory is removed.
SPECIFICATION Spec
CONSTANTS
    a = a
    b = b
    Paths <- MCPaths
    MaxEdits = 0
INVARIANT RemovalIsShown
