SPECIFICATION Spec
CONSTANTS
    Runs = {r1, r2}
    Projects = {p1, p2}
    NoProject = NoProject
    Processes = {serve}
    NoProcess = NoProcess
    HasFallback = TRUE
    HasReviewer = FALSE
    MaxToolSteps = 0
    MaxReviewRounds = 0
    MaxCalls = 1
    MaxEmissions = 0
    MaxCode = 0
SYMMETRY Symmetry
INVARIANTS
    OneRunPerProject
    LiveRunsAreRunning
    FailureHasEvidence
