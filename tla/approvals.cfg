\* A call of a meta-tool, two answers at a time, two edits of the policies.
CONSTANTS
    plain = plain
    meta = meta
    read = read
    batch = batch
    Calls = {meta}
    Tools = {read, batch}
    Tool <- MCTool
    Named <- MCNamed
    Answers = {h1, h2}
    MaxEdits = 2
SPECIFICATION FairSpec
CHECK_DEADLOCK FALSE
INVARIANTS
    AllowedCallsAreEarned
    PendingCallsAreExplained
PROPERTIES
    FirstAnswerStands
    QuestionsEnd
