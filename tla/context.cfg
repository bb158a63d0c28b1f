SPECIFICATION Spec
CONSTANTS
    Projects = {p1}
    Other = p2
    Window = 1
    JevWindow = 1
    Budgets = {6, Unknown}
    Unknown = Unknown
    Findings = {f1}
    None = None
    Kinds = {"observation"}
    MaxTime = 2
    MaxChats = 3
    MaxRuns = 4
    MaxNodes = 5
    MaxEntries = 1
    MaxEdges = 1
    LastEdges = 3
    Sizes <- MCSizes
INVARIANTS
    FittingIsSound
    RecallIsExact
    ContextIsSound
    RememberedOnce
PROPERTIES
    CarriesOn
CHECK_DEADLOCK FALSE
