CONSTANTS
    m1 = m1
    m2 = m2
    Entry = "in"
    Executors = 1
    MaxLaps = 2
    Results = {r1, r2, r3, r4}
    None = None
    Workflow = TRUE
SPECIFICATION SceneSpec
CHECK_DEADLOCK FALSE
INVARIANT NothingLost
INVARIANT SourceSeesOutcome
INVARIANT CallbacksWithinCall
PROPERTY MessagesSettle
