\* A core that is worth more than its excerpt.
SPECIFICATION Spec
CONSTANTS
    Worlds <- MCTail
    CorePercent = 40
    FilePercent = 25
    MinWitness = 2
CHECK_DEADLOCK FALSE
INVARIANT NoStandInBesideCore
