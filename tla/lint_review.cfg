\* Two runs in one project of two files with two functions each.
CONSTANTS
    Runs = {r1, r2}
    Files = {1, 2}
    Functs = {1, 2}
    MaxVersion = 2
    MaxUnits = 2
    MaxFindings = 1
    Dismissed <- OneDismissed
    MaxChanges = 2
    MaxCalls = 2
    MaxRounds = 2
SPECIFICATION ReviewSpec
SYMMETRY Symmetry
CHECK_DEADLOCK FALSE
INVARIANT
    ReviewIsSound
PROPERTIES
    ReviewsJudgeChanges
    NeverJudgedTwice
