SPECIFICATION Spec
CONSTANTS
    r1 = r1
    c1 = c1
    c2 = c2
    Runs = {r1}
    Chats = {c1, c2}
    ChatOf <- AllInFirst
    NoRun = NoRun
    NoChat = NoChat
    Overview = Overview
    QueueSize = 1
    MaxLoads = 3
    Failing = {Overview, c1}
INVARIANTS
    LiveRunsAreNotStale
    SettledIsCurrent
