\* Two nested cores with one excerpt.
SPECIFICATION Spec
CONSTANTS
    Worlds <- MCTails
    CorePercent = 40
    FilePercent = 25
    MinWitness = 2
CHECK_DEADLOCK FALSE
INVARIANT NeverDuplicated
