CONSTANTS
    t1 = t1
    t2 = t2
    t3 = t3
    c1 = c1
    c2 = c2
    Infinity = 100
    MaxTimeout = 2
    Jitter = 1
    LastCall = 1
    Horizon = 4
    Tasks = {t1, t2, t3}
    Contexts = {c1, c2}
    CtxOf <- MC_CtxOf
    Prio <- MC_Prio
    Counts = {0, 1}
    Parallelism = 2
    Stoppers = {s1, s2}
SPECIFICATION SceneSpec
CHECK_DEADLOCK FALSE
INVARIANT TasksAccounted
INVARIANT NoIdleExecutor
PROPERTY AdmissionInOrder
PROPERTY ImplementsDrainPool
PROPERTY WorkSettles
