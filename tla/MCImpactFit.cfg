\* Lists of two files, two layout entries and one unread file are shown.
SPECIFICATION FitSpec
CONSTANTS
    Answers <- MCAnswers
    Caps <- MCCaps
    Forms <- MCForms
    Measure <- MCMeasure
    FilesListed = 2
    LayoutListed = 2
    UnreadListed = 1
CHECK_DEADLOCK FALSE
INVARIANTS
    NoneToSpare
    LeastNeededFirst
    UnknownIsSaid
