CONSTANTS
    Tasks = {"t1", "t2", "t3"}
    Contexts = {c1}
    CtxOf <- OneContext
    Prio <- TaskPriority
    Counts = {0}
    Parallelism = 1
    Stoppers = {s1}
    Waiters = {w1}
    Units = {"u1", "u2", "u3", "u4", "u5", "u6"}
    Parent <- UnitParent
    Home <- UnitHome
    PoolOrder <- TwoPools
    ExecutorsCount <- OneAndTwo
    Registry = "registry"
    Activation = "activation"
    Callers = {"u1"}
    HasResult = TRUE
SPECIFICATION SceneSpec
CHECK_DEADLOCK FALSE
INVARIANT CompletionIsReal
PROPERTY WorkflowEnds
