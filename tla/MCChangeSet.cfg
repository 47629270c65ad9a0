\* Two paths of every name, rule and kind of change, one of them edited once
\* while the run asks git.
SPECIFICATION Spec
CONSTANTS
    a = a
    b = b
    Paths <- MCPaths
    MaxEdits = 1
SYMMETRY Alike
INVARIANTS
    WithheldIsCounted
    ChangeIsAnswered
