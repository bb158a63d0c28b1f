SPECIFICATION FairSpec
CONSTANTS
    Runs = {r1}
    Projects = {p1}
    NoProject = NoProject
    Processes = {serve, other}
    NoProcess = NoProcess
    HasFallback = FALSE
    HasReviewer = TRUE
    MaxToolSteps = 1
    MaxReviewRounds = 2
    MaxCalls = 2
    MaxEmissions = 1
    MaxCode = 1
INVARIANTS
    HistoryTellsStatus
    ActsAreAuthorised
PROPERTIES
    HistoryIsFinal
    PromiseHolds
    ExecutionsEnd
