\* Two callers and the discoverer, a listing of two pages; processes that exit,
\* answers out of order, late or never.
CONSTANTS
    t1 = t1
    Callers = {c1, c2}
    Discoverer = discoverer
    Pages <- TwoPages
    MaxPages = 2
    MaxCalls = 1
    MaxSessions = 3
    MaxNoise = 1
SPECIFICATION Spec
CHECK_DEADLOCK FALSE
INVARIANTS
    AnswersMatch
    PoolIsSound
    DiscoveryIsWhole
PROPERTY
    CallsEnd
