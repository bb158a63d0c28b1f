\* Two runs, two runtimes, one stop request at a time, restarts at any step.
CONSTANTS
    Runs = {r1, r2}
    Stoppers = {s1}
    MaxRuntimes = 2
SPECIFICATION FairSpec
INVARIANTS
    AcceptedRunsAreSpared
    ExecutingIsExact
PROPERTIES
    StopsWhileWaitingHold
    RunsDoNotHang
