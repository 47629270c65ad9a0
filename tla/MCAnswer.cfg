\* The shares of the code for the selection; a quarter of the budget for the
\* rescue, and the upper half of the scores.
SPECIFICATION AnswerSpec
CONSTANTS
    Worlds <- MCAnswers
    CorePercent = 40
    FilePercent = 25
    MinWitness = 2
    RescuePercent = 25
    RescueTop = 50
CHECK_DEADLOCK FALSE
INVARIANTS
    CoreStays
    WitnessKept
    SatisfiedIsShown
    AnswerFits
    FilesAreAnswered
    AnswerIsAdmitted
PROPERTY CeilingYields
